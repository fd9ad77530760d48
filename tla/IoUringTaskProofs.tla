-------------------------- MODULE IoUringTaskProofs --------------------------
(***************************************************************************)
(* IoUringTask for every number of slots and blocks, whichever coroutines  *)
(* are called and whichever frames are too large for malloc_cache: no      *)
(* frame is used or freed when it is not there, none is forgotten, and the *)
(* native stack is bounded.  TInv is the inductive invariant: it says who  *)
(* has which task, who is on the native stack and why, and which           *)
(* queue_read_set_rc has a slot.                                           *)
(***************************************************************************)
EXTENDS IoUringTask, FiniteSetTheorems, TLAPS

Root == "queue_read_set_rc"

\* Where a coroutine has a task, and where it is on top of the native stack.
HasTask == {"called", "await", "resumed"}
OnTop   == {"first", "body", "resumed", "read", "last"}

\* What a frame has to do with the frames of its task and its awaiter.
Linked(b) ==
  LET f == frame[b]
  IN /\ f.task # None <=> f.at \in HasTask
     /\ f.task # None => f.task \in Live /\ frame[f.task].coro \in Callees[f.coro]
     /\ f.awaiter # None => /\ f.awaiter \in Live
                            /\ frame[f.awaiter].task = b
                            /\ frame[f.awaiter].at \in {"await", "resumed"}
     /\ f.at = "await"   => frame[f.task].awaiter = b /\ frame[f.task].at # "final"
     /\ f.at = "resumed" => frame[f.task].at = "final"
     /\ f.at = "called"  => frame[f.task].awaiter = None
     /\ f.at = "io"      => f.coro \in IoCoros
     /\ f.coro = Root    => f.at \notin {"body", "read"}

\* A task is had by one, and every frame but those of queue_read_set_rc is one.
Owners ==
  /\ \A p, q \in Live : frame[p].task = frame[q].task /\ frame[p].task # None => p = q
  /\ \A b \in Live \ Roots : \E p \in Live : frame[p].task = b

\* Only a queue_read_set_rc is detached, once its io_uring_task_discard is gone.
Promises ==
  /\ \A b \in Live : /\ frame[b].res_state = "Detached" <=> b \in Roots /\ b # discard
                     /\ frame[b].res_state = "Res" <=> frame[b].at = "final"
  /\ discard # None => discard \in Roots

\* How deep a coroutine is called; read_rbytes, which calls none, counts as the deepest.
Level(c) ==
  CASE c = "queue_read_set_rc" -> 1
    [] c = "queue_fuse_read"   -> 2
    [] c = "handler"           -> 3
    [] c = "send"              -> 4
    [] OTHER                   -> 5

\* The native stack: calls on top of final_suspends.  Who is called is the task of the
\* next, and not awaited yet.
OnStack(i) ==
  LET b == stack[i].b
  IN ~stack[i].final =>
       /\ b \in Live
       /\ i = 1 => frame[b].at \in OnTop \cup {"called"}
       /\ i > 1 => /\ frame[b].at = "called" /\ frame[b].task = stack[i - 1].b
                   /\ frame[stack[i - 1].b].awaiter = None

Stacked ==
  /\ \A i \in 1..Len(stack) : OnStack(i)
  /\ \A i, j \in 1..Len(stack) : i < j /\ stack[i].final => stack[j].final
  /\ \A i, j \in 1..Len(stack) : i < j /\ ~stack[i].final /\ ~stack[j].final =>
       Level(frame[stack[j].b].coro) < Level(frame[stack[i].b].coro)
  /\ \A b \in Live : /\ frame[b].at \in OnTop => stack # <<>> /\ stack[1] = Runs(b)
                     /\ frame[b].at = "called" => \E i \in 1..Len(stack) : stack[i] = Runs(b)

\* Below a coroutine that can still call are those that have called it; below one that
\* has been waited for, those that were called by it.
Depth(i) ==
  LET f == frame[stack[i].b]
      n == Len(stack) - i + 1
  IN ~stack[i].final =>
       /\ f.at \notin {"resumed", "last"} => n <= Level(f.coro)
       /\ f.awaiter # None => n <= 6 - Level(f.coro)
       /\ f.at = "resumed" /\ frame[f.task].coro = "read_rbytes" => n <= 2

Depths == StackBounded /\ \A i \in 1..Len(stack) : Depth(i)

\* The queue_read_set_rc whose queue_fuse_read has a slot.
Holding == {b \in Roots : frame[b].at \in {"called", "await"} /\ frame[frame[b].task].at # "final"}
Slots ==
  /\ Cardinality(Holding) = worker.slots - ios
  /\ \A b \in Roots : frame[b].at = "first" => ios > 0

TInv ==
  /\ TypeOK /\ CacheClean
  /\ \A b \in Live : Linked(b)
  /\ Owners /\ Promises /\ Stacked /\ Depths /\ Slots

-----------------------------------------------------------------------------
(* The operators.                                                          *)

\* A sequence with one more in front.
LEMMA PushFacts ==
  ASSUME NEW S, NEW s \in Seq(S), NEW x \in S
  PROVE  LET t == <<x>> \o s
         IN /\ t \in Seq(S) /\ Len(t) = Len(s) + 1 /\ t # <<>> /\ t[1] = x
            /\ \A i \in 2..Len(t) : i - 1 \in 1..Len(s) /\ t[i] = s[i - 1]
OBVIOUS

\* A sequence without its first.
LEMMA PopFacts ==
  ASSUME NEW S, NEW s \in Seq(S), s # <<>>
  PROVE  /\ Head(s) = s[1] /\ Head(s) \in S /\ Len(s) \in Nat /\ Len(s) >= 1
         /\ Tail(s) \in Seq(S) /\ Len(Tail(s)) = Len(s) - 1
         /\ \A i \in 1..Len(Tail(s)) : i + 1 \in 2..Len(s) /\ Tail(s)[i] = s[i + 1]
OBVIOUS

LEMMA RunsFacts ==
  \A b : /\ Runs(b).b = b /\ ~Runs(b).final /\ Final(b).b = b /\ Final(b).final
         /\ b \in Blocks => Runs(b) \in Activation /\ Final(b) \in Activation
BY DEF Runs, Final, Activation

\* Who calls whom: each calls others, deeper ones, and none calls queue_read_set_rc.
LEMMA CalleesFacts ==
  /\ Root \in AllCoros
  /\ \A c \in AllCoros : Level(c) \in 1..5
  /\ \A c \in AllCoros : \A d \in Callees[c] :
       /\ d \in AllCoros /\ d # Root /\ d # c
       /\ Level(c) + 1 <= Level(d)
       /\ d = "queue_fuse_read" <=> c = Root
       /\ d = "read_rbytes" => c = "queue_fuse_read"
  /\ Root \notin IoCoros /\ IoCoros \subseteq AllCoros
  /\ Level(Root) = 1 /\ Level("queue_fuse_read") = 2 /\ Level("read_rbytes") = 5
BY DEF Callees, AllCoros, Level, Root, IoCoros

\* What TypeOK says of the frames.
LEMMA LiveFacts ==
  ASSUME TypeOK
  PROVE  /\ NoFrame \notin Frame /\ None \notin Blocks
         /\ \A b \in Blocks : b \in Live <=> frame[b] \in Frame
         /\ \A b \in Blocks : b \notin Live => frame[b] = NoFrame
         /\ \A b \in Live : b \in Blocks /\ frame[b] \in Frame
BY TaskAssumption DEF TypeOK, Live, NoFrame, Frame, AllCoros

\* The running coroutine has a frame.
LEMMA TopFacts ==
  ASSUME TInv, stack # <<>>, ~Head(stack).final
  PROVE  /\ Top \in Live /\ Top \in Blocks /\ stack[1] = Runs(Top) /\ stack \in Seq(Activation)
         /\ 1 \in 1..Len(stack) /\ Len(stack) \in Nat
         /\ Self \in Frame /\ Self.at \in OnTop \cup {"called"}
<1>1. stack \in Seq(Activation)
  BY DEF TInv, TypeOK
<1>2. Head(stack) = stack[1] /\ stack[1] \in Activation /\ Len(stack) \in Nat /\ 1 \in 1..Len(stack)
  BY <1>1, PopFacts
<1>3. stack[1] = Runs(Top)
  BY <1>2 DEF Runs, Activation, Top
<1>4. OnStack(1)
  BY <1>2 DEF TInv, Stacked
<1>5. Top \in Live /\ Self.at \in OnTop \cup {"called"}
  BY <1>2, <1>4 DEF OnStack, Top, Self
<1>. QED
  BY <1>1, <1>2, <1>3, <1>5, LiveFacts DEF TInv, Self

\* What is popped off the native stack leaves the rest as it was, if the frames that run
\* below it are left alone and nobody thinks he is still on top.
LEMMA PopStack ==
  ASSUME TInv, stack # <<>>, stack' = Tail(stack),
         \A i \in 2..Len(stack) : ~stack[i].final =>
           stack[i].b \in Live' /\ frame'[stack[i].b] = frame[stack[i].b],
         \A b \in Live' :
           /\ frame'[b].at \notin OnTop
           /\ frame'[b].at = "called" =>
                b \in Live /\ frame[b].at = "called" /\ stack[1] # Runs(b)
  PROVE  Stacked' /\ Depths'
<1>1. /\ Len(stack) \in Nat /\ Len(stack') \in Nat /\ Len(stack') = Len(stack) - 1
      /\ \A i \in 1..Len(stack') : i + 1 \in 2..Len(stack) /\ stack'[i] = stack[i + 1]
  BY PopFacts DEF TInv, TypeOK
<1>2. ASSUME NEW i \in 1..Len(stack'), ~stack'[i].final
      PROVE  /\ stack[i + 1].b \in Live' /\ frame'[stack[i + 1].b] = frame[stack[i + 1].b]
             /\ frame[stack[i + 1].b].at = "called"
             /\ OnStack(i + 1) /\ Depth(i + 1)
  <2>1. i + 1 \in 1..Len(stack) /\ i + 1 > 1 /\ ~stack[i + 1].final
    BY <1>1, <1>2
  <2>2. OnStack(i + 1) /\ Depth(i + 1)
    BY <2>1 DEF TInv, Stacked, Depths
  <2>. QED
    BY <1>1, <1>2, <2>1, <2>2 DEF OnStack
<1>3. ASSUME NEW i \in 1..Len(stack') PROVE OnStack(i)'
  <2>. SUFFICES ASSUME ~stack'[i].final PROVE OnStack(i)'
    BY DEF OnStack
  <2>1. CASE i = 1
    BY <2>1, <1>1, <1>2 DEF OnStack
  <2>2. CASE i > 1
    <3>1. i - 1 \in 1..Len(stack') /\ stack'[i - 1] = stack[i] /\ i \in 1..Len(stack)
      BY <2>2, <1>1
    <3>2. ~stack[i].final
      BY <3>1, <1>1 DEF TInv, Stacked
    <3>3. frame'[stack[i].b] = frame[stack[i].b]
      BY <3>1, <3>2, <2>2, <1>1
    <3>4. /\ frame[stack[i + 1].b].task = stack[i].b
          /\ frame[stack[i].b].awaiter = None
      BY <1>1, <1>2, <2>2 DEF OnStack
    <3>. QED
      BY <1>1, <1>2, <2>2, <3>1, <3>3, <3>4 DEF OnStack
  <2>. QED
    BY <2>1, <2>2
<1>4. \A i, j \in 1..Len(stack') : i < j /\ stack'[i].final => stack'[j].final
  BY <1>1 DEF TInv, Stacked
<1>5. ASSUME NEW i \in 1..Len(stack'), NEW j \in 1..Len(stack'),
             i < j, ~stack'[i].final, ~stack'[j].final
      PROVE  Level(frame'[stack'[j].b].coro) < Level(frame'[stack'[i].b].coro)
  <2>1. /\ frame'[stack'[j].b] = frame[stack[j + 1].b] /\ ~stack[j + 1].final
        /\ frame'[stack'[i].b] = frame[stack[i + 1].b] /\ ~stack[i + 1].final
        /\ i + 1 \in 1..Len(stack) /\ j + 1 \in 1..Len(stack) /\ i + 1 < j + 1
    BY <1>1, <1>2, <1>5
  <2>. QED
    BY <2>1 DEF TInv, Stacked
<1>6. ASSUME NEW b \in Live', frame'[b].at = "called"
      PROVE  \E i \in 1..Len(stack') : stack'[i] = Runs(b)
  <2>1. PICK i \in 1..Len(stack) : stack[i] = Runs(b)
    BY <1>6 DEF TInv, Stacked
  <2>2. i # 1
    BY <1>6, <2>1
  <2>3. i - 1 \in 1..Len(stack') /\ stack'[i - 1] = stack[i]
    BY <2>2, <1>1
  <2>. QED
    BY <2>1, <2>3
<1>7. ASSUME NEW i \in 1..Len(stack') PROVE Depth(i)'
  <2>. SUFFICES ASSUME ~stack'[i].final PROVE Depth(i)'
    BY DEF Depth
  <2>1. Len(stack') - i + 1 = Len(stack) - (i + 1) + 1
    BY <1>1
  <2>2. /\ stack'[i] = stack[i + 1] /\ ~stack[i + 1].final
    BY <1>1
  <2>. QED
    BY <1>2, <2>1, <2>2 DEF Depth
<1>8. StackBounded'
  BY <1>1 DEF TInv, Depths, StackBounded
<1>. QED
  BY <1>3, <1>4, <1>5, <1>6, <1>7, <1>8 DEF Stacked, Depths

\* Those that run are not the same twice.
LEMMA OnceOnStack ==
  ASSUME TInv, NEW i \in 1..Len(stack), NEW j \in 1..Len(stack), i # j,
         ~stack[i].final, ~stack[j].final
  PROVE  stack[i].b # stack[j].b
<1>1. ASSUME NEW k \in 1..Len(stack), ~stack[k].final
      PROVE  Level(frame[stack[k].b].coro) \in Int
  <2>1. stack[k].b \in Live
    BY <1>1 DEF TInv, Stacked, OnStack
  <2>. QED
    BY <2>1, LiveFacts, CalleesFacts DEF TInv, Frame
<1>2. i < j \/ j < i
  BY DEF TInv, TypeOK
<1>. QED
  BY <1>1, <1>2 DEF TInv, Stacked

\* Those that run below the top have called, directly or not, what is on top.
LEMMA BelowTop ==
  ASSUME TInv, stack # <<>>, ~Head(stack).final, NEW i \in 2..Len(stack), ~stack[i].final
  PROVE  /\ stack[i].b \in Live /\ stack[i].b # Top
         /\ Level(frame[stack[i].b].coro) < Level(frame[Top].coro)
<1>1. i \in 1..Len(stack) /\ 1 \in 1..Len(stack) /\ 1 < i
  BY TopFacts
<1>2. stack[1].b = Top /\ ~stack[1].final
  BY TopFacts, RunsFacts
<1>3. stack[i].b \in Live
  BY <1>1 DEF TInv, Stacked, OnStack
<1>4. stack[i].b # stack[1].b
  BY <1>1, <1>2, OnceOnStack
<1>5. Level(frame[stack[i].b].coro) < Level(frame[stack[1].b].coro)
  BY <1>1, <1>2 DEF TInv, Stacked
<1>. QED
  BY <1>2, <1>3, <1>4, <1>5

\* What a frame has to do with others stays so if the step leaves alone what of them
\* matters to it.
LEMMA LinkedKept ==
  ASSUME NEW b, Linked(b), frame'[b] = frame[b],
         frame[b].task # None =>
           /\ frame[b].task \in Live'
           /\ frame'[frame[b].task].coro = frame[frame[b].task].coro
           /\ frame'[frame[b].task].awaiter = frame[frame[b].task].awaiter
           /\ frame[b].at \in {"await", "resumed"} =>
                (frame'[frame[b].task].at = "final" <=> frame[frame[b].task].at = "final"),
         frame[b].awaiter # None =>
           /\ frame[b].awaiter \in Live'
           /\ frame'[frame[b].awaiter].task = b
           /\ frame'[frame[b].awaiter].at \in {"await", "resumed"}
  PROVE  Linked(b)'
<1>1. frame[b].task # None <=> frame[b].at \in HasTask
  BY DEF Linked
<1>2. frame[b].task # None => frame'[frame[b].task].coro \in Callees[frame[b].coro]
  BY DEF Linked
<1>3. /\ frame[b].at = "await" => frame'[frame[b].task].awaiter = b /\ frame'[frame[b].task].at # "final"
      /\ frame[b].at = "resumed" => frame'[frame[b].task].at = "final"
      /\ frame[b].at = "called" => frame'[frame[b].task].awaiter = None
  BY <1>1 DEF Linked, HasTask
<1>4. /\ frame[b].at = "io" => frame[b].coro \in IoCoros
      /\ frame[b].coro = Root => frame[b].at \notin {"body", "read"}
  BY DEF Linked
<1>. QED
  BY <1>1, <1>2, <1>3, <1>4 DEF Linked

\* A frame that runs is one that is called or on top.
LEMMA TypeOnStack ==
  "final" \notin OnTop \cup {"called"} /\ "await" \notin OnTop \cup {"called"} /\ "io" \notin OnTop \cup {"called"}
BY DEF OnTop

\* A block that is freed goes to the list, or to the allocator.
LEMMA FreedClean ==
  ASSUME CacheClean, cache \in Seq(Blocks), NEW u \in Live, Live' = Live \ {u},
         cache' = cache \/ cache' = <<u>> \o cache
  PROVE  CacheClean'
<1>1. CASE cache' = cache
  BY <1>1 DEF CacheClean
<1>2. CASE cache' = <<u>> \o cache
  <2>1. u \in Blocks
    BY DEF Live
  <2>2. /\ Len(cache') = Len(cache) + 1 /\ cache'[1] = u /\ Len(cache) \in Nat
        /\ \A i \in 2..Len(cache') : i - 1 \in 1..Len(cache) /\ cache'[i] = cache[i - 1]
    BY <2>1, <1>2, PushFacts
  <2>3. \A i \in 2..Len(cache') : cache'[i] \notin Live /\ cache'[i] # u
    BY <2>2 DEF CacheClean
  <2>4. ASSUME NEW i \in 1..Len(cache'), NEW j \in 1..Len(cache'), cache'[i] = cache'[j]
        PROVE  i = j
    <3>1. CASE i = 1 \/ j = 1
      BY <3>1, <2>2, <2>3, <2>4
    <3>2. CASE i # 1 /\ j # 1
      <4>1. i \in 2..Len(cache') /\ j \in 2..Len(cache')
        BY <3>2, <2>2
      <4>2. /\ i - 1 \in 1..Len(cache) /\ j - 1 \in 1..Len(cache)
            /\ cache[i - 1] = cache[j - 1]
        BY <4>1, <2>2, <2>4
      <4>3. i - 1 = j - 1
        BY <4>2 DEF CacheClean
      <4>. QED
        BY <4>1, <4>3
    <3>. QED
      BY <3>1, <3>2
  <2>5. \A i \in 1..Len(cache') : cache'[i] \notin Live'
    BY <2>2, <2>3
  <2>. QED
    BY <2>4, <2>5 DEF CacheClean
<1>. QED
  BY <1>1, <1>2

-----------------------------------------------------------------------------
(* The steps.                                                              *)

\* A coroutine that waits for io_uring is taken off the native stack.
LEMMA AwaitIoInv ==
  ASSUME TInv, AwaitIo, UNCHANGED worker
  PROVE  TInv'
<1>. DEFINE t == Top
<1>1. /\ stack # <<>> /\ ~Head(stack).final /\ Self.at \in {"first", "body"}
      /\ Self.coro \in IoCoros
      /\ frame' = [frame EXCEPT ![t].at = "io"] /\ stack' = Tail(stack)
      /\ UNCHANGED <<worker, phase, ios, failed, cache, discard>>
  BY DEF AwaitIo, Running, Below
<1>2. /\ t \in Live /\ t \in Blocks /\ stack[1] = Runs(t) /\ frame[t] \in Frame
      /\ frame[t].at \in {"first", "body"} /\ frame[t].coro \in IoCoros
  BY <1>1, TopFacts DEF Self
<1>3. TypeOK'
  BY <1>1, <1>2, PopFacts DEF TInv, TypeOK, Frame, Points
<1>4. /\ Live' = Live
      /\ \A b \in Live : b # t => frame'[b] = frame[b]
      /\ frame'[t] = [frame[t] EXCEPT !.at = "io"]
      /\ frame'[t].at = "io" /\ frame'[t].coro = frame[t].coro /\ frame'[t].task = frame[t].task
      /\ frame'[t].awaiter = frame[t].awaiter /\ frame'[t].res_state = frame[t].res_state
  <2>1. /\ \A b \in Blocks : b # t => frame'[b] = frame[b]
        /\ frame'[t] = [frame[t] EXCEPT !.at = "io"]
    BY <1>1, <1>2 DEF TInv, TypeOK
  <2>2. frame'[t] \in Frame
    BY <2>1, <1>2 DEF Frame, Points
  <2>3. Live' = Live
    BY <2>1, <2>2, <1>2, LiveFacts DEF Live, TInv
  <2>. QED
    BY <2>1, <2>2, <2>3, <1>2, LiveFacts DEF TInv, Frame
<1>5. CacheClean'
  BY <1>1, <1>4 DEF TInv, CacheClean
<1>6. \A b \in Live :
         /\ frame'[b].coro = frame[b].coro /\ frame'[b].task = frame[b].task
         /\ frame'[b].awaiter = frame[b].awaiter
         /\ frame'[b].at = "final" <=> frame[b].at = "final"
         /\ frame[b].at \notin OnTop => frame'[b].at = frame[b].at
  BY <1>2, <1>4 DEF OnTop
<1>7. ASSUME NEW b \in Live' PROVE Linked(b)'
  <2>1. b \in Live /\ Linked(b)
    BY <1>4 DEF TInv
  <2>2. CASE b = t
    BY <2>1, <2>2, <1>2, <1>4, CalleesFacts DEF Linked, HasTask
  <2>3. CASE b # t
    <3>1. frame'[b] = frame[b]
      BY <2>1, <2>3, <1>4
    <3>. QED
      BY <2>1, <3>1, <1>2, <1>4, <1>6, LinkedKept DEF Linked, OnTop
  <2>. QED
    BY <2>2, <2>3
<1>8. Owners'
  <2>1. \A b \in Live : frame'[b].task = frame[b].task /\ frame'[b].coro = frame[b].coro
    BY <1>4
  <2>2. Roots' = Roots
    BY <2>1, <1>4 DEF Roots
  <2>. QED
    BY <2>1, <2>2, <1>4 DEF TInv, Owners
<1>9. Promises'
  BY <1>1, <1>2, <1>4 DEF TInv, Promises, Roots
<1>10. Stacked' /\ Depths'
  <2>1. \A i \in 2..Len(stack) : ~stack[i].final => stack[i].b \in Live /\ stack[i].b # t
    BY <1>1, <1>2, BelowTop
  <2>2. \A b \in Live' : frame'[b].at \notin OnTop
    <3>1. \A b \in Live : frame[b].at \in OnTop => b = t
      BY <1>2, RunsFacts DEF TInv, Stacked
    <3>. QED
      BY <3>1, <1>4 DEF OnTop
  <2>3. \A b \in Live' : frame'[b].at = "called" => b \in Live /\ b # t /\ frame[b].at = "called"
    BY <1>4
  <2>. QED
    BY <1>1, <1>2, <1>4, <2>1, <2>2, <2>3, PopStack DEF Runs
<1>11. Slots'
  <2>1. t \notin Roots /\ Roots' = Roots
    BY <1>2, <1>4, <1>6, CalleesFacts DEF Roots, Root
  <2>2. \A b \in Roots : b \in Live /\ frame'[b] = frame[b]
    BY <2>1, <1>4 DEF Roots
  <2>3. ASSUME NEW b \in Roots, frame[b].at \in {"called", "await"}
        PROVE  frame'[frame[b].task].at # "final" <=> frame[frame[b].task].at # "final"
    BY <2>2, <2>3, <1>2, <1>4 DEF TInv, Linked, HasTask
  <2>4. Holding' = Holding
    BY <2>1, <2>2, <2>3 DEF Holding
  <2>. QED
    BY <2>1, <2>2, <2>4, <1>1 DEF TInv, Slots
<1>. QED
  BY <1>3, <1>5, <1>7, <1>8, <1>9, <1>10, <1>11 DEF TInv

\* A coroutine that waits for one that it has called is taken off the native stack.
LEMMA AwaitTaskInv ==
  ASSUME TInv, AwaitTask, UNCHANGED worker
  PROVE  TInv'
<1>. DEFINE t == Top
            u == frame[t].task
<1>1. /\ stack # <<>> /\ ~Head(stack).final /\ frame[t].at = "called"
      /\ frame[u].res_state # "Res"
      /\ frame' = [frame EXCEPT ![u].awaiter = t, ![t].at = "await"] /\ stack' = Tail(stack)
      /\ UNCHANGED <<worker, phase, ios, failed, cache, discard>>
  BY DEF AwaitTask, Running, Below, Self
<1>2. /\ t \in Live /\ t \in Blocks /\ stack[1] = Runs(t) /\ frame[t] \in Frame
      /\ u \in Live /\ u \in Blocks /\ frame[u] \in Frame
      /\ frame[u].coro \in Callees[frame[t].coro] /\ frame[u].awaiter = None
      /\ Linked(t) /\ Linked(u)
  <2>1. t \in Live /\ stack[1] = Runs(t) /\ Linked(t)
    BY <1>1, TopFacts DEF TInv
  <2>2. u \in Live /\ frame[u].coro \in Callees[frame[t].coro] /\ frame[u].awaiter = None
    BY <2>1, <1>1 DEF Linked, HasTask
  <2>. QED
    BY <2>1, <2>2, LiveFacts DEF TInv
<1>3. /\ t # u /\ frame[u].at # "final" /\ frame[u].at \notin OnTop
      /\ Level(frame[t].coro) < Level(frame[u].coro) /\ frame[u].coro # Root
  <2>1. /\ frame[t].coro \in AllCoros /\ frame[u].coro \in AllCoros
        /\ Level(frame[t].coro) \in Int /\ Level(frame[u].coro) \in Int
    BY <1>2, CalleesFacts DEF Frame
  <2>2. Level(frame[t].coro) < Level(frame[u].coro) /\ t # u /\ frame[u].coro # Root
    BY <2>1, <1>2, CalleesFacts
  <2>3. frame[u].at # "final"
    BY <1>1, <1>2 DEF TInv, Promises
  <2>4. frame[u].at \notin OnTop
    BY <1>2, <2>2, RunsFacts DEF TInv, Stacked
  <2>. QED
    BY <2>2, <2>3, <2>4
<1>4. /\ \A b \in Live : b # t /\ b # u => frame'[b] = frame[b]
      /\ \A b \in Blocks : b # t /\ b # u => frame'[b] = frame[b]
      /\ frame'[t] = [frame[t] EXCEPT !.at = "await"]
      /\ frame'[u] = [frame[u] EXCEPT !.awaiter = t]
  BY <1>1, <1>2, <1>3, LiveFacts DEF TInv, TypeOK
<1>5. /\ frame'[t] \in Frame /\ frame'[t].at = "await" /\ frame'[t].coro = frame[t].coro
      /\ frame'[t].task = u /\ frame'[t].awaiter = frame[t].awaiter
      /\ frame'[t].res_state = frame[t].res_state
      /\ frame'[u] \in Frame /\ frame'[u].at = frame[u].at /\ frame'[u].coro = frame[u].coro
      /\ frame'[u].task = frame[u].task /\ frame'[u].awaiter = t
      /\ frame'[u].res_state = frame[u].res_state
  BY <1>2, <1>4 DEF Frame, Points
<1>6. TypeOK'
  <2>1. frame' \in [Blocks -> Frame \cup {NoFrame}]
    BY <1>1, <1>2, <1>4, <1>5 DEF TInv, TypeOK
  <2>. QED
    BY <1>1, <2>1, PopFacts DEF TInv, TypeOK
<1>7. Live' = Live
  BY <1>2, <1>4, <1>5, LiveFacts DEF TInv, Live
<1>8. CacheClean'
  BY <1>1, <1>7 DEF TInv, CacheClean
<1>9. \A b \in Live :
         /\ frame'[b].coro = frame[b].coro /\ frame'[b].task = frame[b].task
         /\ frame'[b].res_state = frame[b].res_state
         /\ b # u => frame'[b].awaiter = frame[b].awaiter
         /\ frame'[b].at = "final" <=> frame[b].at = "final"
         /\ b # t => frame'[b].at = frame[b].at
  <2>. SUFFICES ASSUME NEW b \in Live
                PROVE  /\ frame'[b].coro = frame[b].coro /\ frame'[b].task = frame[b].task
                       /\ frame'[b].res_state = frame[b].res_state
                       /\ b # u => frame'[b].awaiter = frame[b].awaiter
                       /\ frame'[b].at = "final" <=> frame[b].at = "final"
                       /\ b # t => frame'[b].at = frame[b].at
    OBVIOUS
  <2>1. CASE b = t
    BY <2>1, <1>1, <1>3, <1>5
  <2>2. CASE b = u
    BY <2>2, <1>5
  <2>3. CASE b # t /\ b # u
    BY <2>3, <1>4
  <2>. QED
    BY <2>1, <2>2, <2>3
<1>10. ASSUME NEW b \in Live' PROVE Linked(b)'
  <2>1. b \in Live /\ Linked(b)
    BY <1>7 DEF TInv
  <2>2. CASE b = t
    <3>1. u # None /\ t # None
      BY <1>2, LiveFacts DEF TInv
    <3>2. frame[t].awaiter # None => /\ frame[t].awaiter \in Live
                                     /\ frame'[frame[t].awaiter].task = t
                                     /\ frame'[frame[t].awaiter].at \in {"await", "resumed"}
      BY <1>1, <1>2, <1>9 DEF Linked
    <3>3. frame'[u].coro \in Callees[frame'[t].coro] /\ frame'[u].awaiter = t /\ frame'[u].at # "final"
      BY <1>2, <1>3, <1>5
    <3>. QED
      BY <2>2, <3>1, <3>2, <3>3, <1>2, <1>5, <1>7 DEF Linked, HasTask
  <2>3. CASE b = u
    <3>1. /\ frame[u].task # u
          /\ frame[u].task # None => frame[u].task \in Live
      <4>1. frame[u].task # None =>
              frame[u].task \in Live /\ frame[frame[u].task].coro \in Callees[frame[u].coro]
        BY <1>2 DEF Linked
      <4>2. frame[u].coro \in AllCoros /\ u # None
        BY <1>2, LiveFacts DEF Frame, TInv
      <4>. QED
        BY <4>1, <4>2, CalleesFacts
    <3>2. /\ frame[u].task # None <=> frame[u].at \in HasTask
          /\ frame[u].task # None => frame'[frame[u].task].coro \in Callees[frame[u].coro]
      BY <1>2, <1>9 DEF Linked
    <3>3. /\ frame[u].at = "await" => frame'[frame[u].task].awaiter = u /\ frame'[frame[u].task].at # "final"
          /\ frame[u].at = "called" => frame'[frame[u].task].awaiter = None
      BY <3>1, <3>2, <1>2, <1>9 DEF Linked, HasTask
    <3>. QED
      BY <3>1, <3>2, <3>3, <2>3, <1>2, <1>3, <1>5, <1>7 DEF Linked, OnTop
  <2>4. CASE b # t /\ b # u
    <3>1. frame[b].task # None => frame[b].task \in Live /\ frame[b].task # u
      <4>1. frame[b].task # None => frame[b].task \in Live
        BY <2>1 DEF Linked
      <4>2. frame[b].task = u => frame[b].task = frame[t].task /\ frame[b].task # None
        BY <1>2, LiveFacts DEF TInv
      <4>3. frame[b].task = u => b = t
        BY <4>2, <2>1, <1>2 DEF TInv, Owners
      <4>. QED
        BY <4>1, <4>3, <2>4
    <3>2. frame[b].awaiter # None =>
             /\ frame[b].awaiter \in Live /\ frame[b].awaiter # t /\ frame'[frame[b].awaiter].task = b
             /\ frame'[frame[b].awaiter].at \in {"await", "resumed"}
      BY <2>1, <2>4, <1>1, <1>9 DEF Linked
    <3>. QED
      BY <2>1, <2>4, <3>1, <3>2, <1>4, <1>7, <1>9, LinkedKept
  <2>. QED
    BY <2>2, <2>3, <2>4
<1>11. Roots' = Roots /\ Owners'
  <2>1. Roots' = Roots
    BY <1>7, <1>9 DEF Roots
  <2>. QED
    BY <2>1, <1>7, <1>9 DEF TInv, Owners
<1>12. Promises'
  <2>1. \A b \in Live : /\ frame'[b].res_state = frame[b].res_state
                        /\ frame'[b].at = "final" <=> frame[b].at = "final"
    BY <1>9
  <2>. QED
    <3>1. \A b \in Live : /\ frame'[b].res_state = "Detached" <=> b \in Roots /\ b # discard
                          /\ frame'[b].res_state = "Res" <=> frame'[b].at = "final"
      BY <2>1 DEF TInv, Promises
    <3>. QED
      BY <3>1, <1>1, <1>7, <1>11 DEF TInv, Promises
<1>13. Stacked' /\ Depths'
  <2>1. ASSUME NEW i \in 2..Len(stack), ~stack[i].final
        PROVE  /\ stack[i].b \in Live /\ frame'[stack[i].b] = frame[stack[i].b]
    <3>1. stack[i].b \in Live /\ stack[i].b # t
      BY <2>1, <1>1, BelowTop
    <3>2. Level(frame[stack[i].b].coro) < Level(frame[t].coro)
      BY <2>1, <1>1, BelowTop
    <3>3. stack[i].b # u
      BY <3>1, <3>2, <1>2, <1>3, LiveFacts, CalleesFacts DEF TInv, Frame
    <3>. QED
      BY <3>1, <3>3, <1>4
  <2>2. \A b \in Live : frame[b].at \in OnTop => b = t
    BY <1>2, RunsFacts DEF TInv, Stacked
  <2>3. \A b \in Live' : frame'[b].at \notin OnTop
    BY <2>2, <1>1, <1>5, <1>7, <1>9 DEF OnTop
  <2>4. \A b \in Live' : frame'[b].at = "called" => b \in Live /\ b # t /\ frame[b].at = "called"
    BY <1>5, <1>7, <1>9
  <2>. QED
    <3>1. \A b \in Live' : frame'[b].at = "called" =>
            b \in Live /\ frame[b].at = "called" /\ stack[1] # Runs(b)
      BY <2>4, <1>2, RunsFacts
    <3>2. \A i \in 2..Len(stack) : ~stack[i].final =>
            stack[i].b \in Live' /\ frame'[stack[i].b] = frame[stack[i].b]
      BY <2>1, <1>7
    <3>. QED
      BY <1>1, <2>3, <3>1, <3>2, PopStack
<1>14. Slots'
  <2>1. \A b \in Roots : b \in Live /\ (frame[b].task # None => frame[b].task \in Live)
    BY DEF Roots, TInv, Linked
  <2>2. \A b \in Roots : frame[b].at \in {"called", "await"} <=> frame'[b].at \in {"called", "await"}
    BY <2>1, <1>1, <1>5, <1>9
  <2>3. \A b \in Roots : frame[b].at \in {"called", "await"} => frame[b].task \in Live
    BY <2>1 DEF TInv, Linked, HasTask
  <2>4. Holding' = Holding
    BY <2>1, <2>2, <2>3, <1>9, <1>11 DEF Holding
  <2>5. \A b \in Roots : frame'[b].at = "first" => frame[b].at = "first"
    BY <2>1, <1>5, <1>9
  <2>. QED
    BY <2>4, <2>5, <1>1, <1>11 DEF TInv, Slots
<1>. QED
  BY <1>6, <1>8, <1>10, <1>11, <1>12, <1>13, <1>14 DEF TInv

\* The task whose result is taken has ended: its frame is freed, and nobody else had it.
LEMMA TakeResultInv ==
  ASSUME TInv, TakeResult, UNCHANGED worker
  PROVE  TInv'
<1>. DEFINE t == Top
            u == frame[t].task
            p == IF frame[u].coro = "read_rbytes" THEN "read" ELSE "last"
            F == [frame EXCEPT ![t].at = p, ![t].task = None]
<1>1. /\ stack # <<>> /\ ~Head(stack).final /\ frame[t].at \in {"resumed", "called"}
      /\ frame[t].at = "called" => frame[u].res_state = "Res"
      /\ EndTask(F, u)
      /\ UNCHANGED <<worker, phase, ios, failed, stack, discard>>
  BY DEF TakeResult, Running, Self
<1>2. /\ t \in Live /\ t \in Blocks /\ stack[1] = Runs(t) /\ frame[t] \in Frame
      /\ u \in Live /\ u \in Blocks /\ frame[u] \in Frame
      /\ frame[u].coro \in Callees[frame[t].coro] /\ u # None /\ t # None
      /\ Linked(t) /\ Linked(u)
  <2>1. t \in Live /\ stack[1] = Runs(t) /\ Linked(t)
    BY <1>1, TopFacts DEF TInv
  <2>2. u \in Live /\ frame[u].coro \in Callees[frame[t].coro]
    BY <2>1, <1>1 DEF Linked, HasTask
  <2>. QED
    BY <2>1, <2>2, LiveFacts DEF TInv
<1>3. /\ t # u /\ frame[u].at = "final" /\ frame[u].coro # Root
      /\ frame[u].coro = "read_rbytes" => frame[t].coro # Root
      /\ frame[u].task = None
  <2>1. frame[t].coro \in AllCoros /\ frame[u].coro \in AllCoros
    BY <1>2 DEF Frame
  <2>2. t # u /\ frame[u].coro # Root
    BY <2>1, <1>2, CalleesFacts
  <2>3. frame[u].at = "final"
    BY <1>1, <1>2 DEF TInv, Promises, Linked
  <2>4. frame[u].coro = "read_rbytes" => frame[t].coro # Root
    BY <2>1, <1>2, CalleesFacts DEF Root
  <2>5. frame[u].task = None
    BY <2>3, <1>2 DEF Linked, HasTask
  <2>. QED
    BY <2>2, <2>3, <2>4, <2>5
<1>4. /\ frame' = [F EXCEPT ![u] = NoFrame]
      /\ cache' = malloc_cache_free(F, u, cache)
  <2>1. F[u].at = "final"
    BY <1>2, <1>3 DEF TInv, TypeOK
  <2>. QED
    BY <2>1, <1>1 DEF EndTask, Destroy
<1>5. /\ \A b \in Blocks : b # t /\ b # u => frame'[b] = frame[b]
      /\ frame'[t] = [frame[t] EXCEPT !.at = p, !.task = None]
      /\ frame'[u] = NoFrame
  BY <1>2, <1>3, <1>4 DEF TInv, TypeOK
<1>6. /\ frame'[t] \in Frame /\ frame'[t].at = p /\ frame'[t].coro = frame[t].coro
      /\ frame'[t].task = None /\ frame'[t].awaiter = frame[t].awaiter
      /\ frame'[t].res_state = frame[t].res_state
  BY <1>2, <1>5 DEF Frame, Points
<1>7. cache' = cache \/ cache' = <<u>> \o cache
  BY <1>4 DEF malloc_cache_free
<1>8. TypeOK'
  <2>1. frame' \in [Blocks -> Frame \cup {NoFrame}]
    BY <1>2, <1>4, <1>5, <1>6 DEF TInv, TypeOK
  <2>2. cache' \in Seq(Blocks)
    <3>1. cache \in Seq(Blocks)
      BY DEF TInv, TypeOK
    <3>2. <<u>> \o cache \in Seq(Blocks)
      BY <3>1, <1>2, PushFacts
    <3>. QED
      BY <3>1, <3>2, <1>7
  <2>. QED
    BY <1>1, <2>1, <2>2 DEF TInv, TypeOK
<1>9. Live' = Live \ {u}
  BY <1>2, <1>5, <1>6, LiveFacts DEF TInv, Live
<1>10. CacheClean'
  BY <1>2, <1>7, <1>9, FreedClean DEF TInv, TypeOK
<1>11. \A b \in Live' :
         /\ b \in Live /\ b # u
         /\ frame'[b].coro = frame[b].coro /\ frame'[b].awaiter = frame[b].awaiter
         /\ frame'[b].res_state = frame[b].res_state
         /\ frame'[b].at = "final" <=> frame[b].at = "final"
         /\ b # t => frame'[b] = frame[b]
  <2>. SUFFICES ASSUME NEW b \in Live'
                PROVE  /\ b \in Live /\ b # u
                       /\ frame'[b].coro = frame[b].coro /\ frame'[b].awaiter = frame[b].awaiter
                       /\ frame'[b].res_state = frame[b].res_state
                       /\ frame'[b].at = "final" <=> frame[b].at = "final"
                       /\ b # t => frame'[b] = frame[b]
    OBVIOUS
  <2>1. b \in Live /\ b # u /\ b \in Blocks
    BY <1>9, LiveFacts DEF TInv
  <2>2. CASE b = t
    BY <2>1, <2>2, <1>1, <1>6
  <2>3. CASE b # t
    BY <2>1, <2>3, <1>5
  <2>. QED
    BY <2>1, <2>2, <2>3
<1>12. \A b \in Live : b # t => frame[b].task # u
  BY <1>2 DEF TInv, Owners
<1>13. \A b \in Live : frame[b].awaiter # None => /\ frame[b].awaiter \in Live'
                                                  /\ frame[b].awaiter = t => b = u
  <2>. SUFFICES ASSUME NEW b \in Live, frame[b].awaiter # None
                PROVE  frame[b].awaiter \in Live' /\ (frame[b].awaiter = t => b = u)
    OBVIOUS
  <2>1. /\ frame[b].awaiter \in Live /\ frame[frame[b].awaiter].task = b
        /\ frame[frame[b].awaiter].at \in {"await", "resumed"}
    BY DEF TInv, Linked
  <2>. QED
    BY <2>1, <1>3, <1>9
<1>14. ASSUME NEW b \in Live' PROVE Linked(b)'
  <2>1. b \in Live /\ Linked(b) /\ b # u
    BY <1>11 DEF TInv
  <2>2. CASE b = t
    <3>1. frame[t].awaiter # None => /\ frame[t].awaiter \in Live'
                                     /\ frame'[frame[t].awaiter].task = t
                                     /\ frame'[frame[t].awaiter].at \in {"await", "resumed"}
      BY <1>2, <1>3, <1>11, <1>13 DEF Linked
    <3>. QED
      BY <2>2, <3>1, <1>3, <1>6, <1>9 DEF Linked, HasTask
  <2>3. CASE b # t
    <3>1. frame[b].task # None => frame[b].task \in Live'
      BY <2>1, <2>3, <1>9, <1>12 DEF Linked
    <3>2. frame[b].awaiter # None =>
             /\ frame[b].awaiter \in Live' /\ frame'[frame[b].awaiter].task = b
             /\ frame'[frame[b].awaiter].at \in {"await", "resumed"}
      BY <2>1, <2>3, <1>11, <1>13 DEF Linked
    <3>. QED
      BY <2>1, <2>3, <3>1, <3>2, <1>11, LinkedKept
  <2>. QED
    BY <2>2, <2>3
<1>15. Roots' = Roots /\ Owners'
  <2>1. Roots' = Roots
    BY <1>3, <1>9, <1>11 DEF Roots, Root
  <2>2. ASSUME NEW b \in Live', NEW c \in Live', frame'[b].task = frame'[c].task, frame'[b].task # None
        PROVE  b = c
    BY <2>2, <1>6, <1>11 DEF TInv, Owners
  <2>3. ASSUME NEW b \in Live' \ Roots PROVE \E c \in Live' : frame'[c].task = b
    <3>1. b # u /\ b \in Live \ Roots
      BY <1>11
    <3>2. PICK c \in Live : frame[c].task = b
      BY <3>1 DEF TInv, Owners
    <3>3. c # t /\ c # u
      BY <3>1, <3>2, <1>3, LiveFacts DEF TInv
    <3>. QED
      BY <3>2, <3>3, <1>9, <1>11
  <2>. QED
    BY <2>1, <2>2, <2>3 DEF Owners
<1>16. Promises'
  <2>1. discard # u
    BY <1>2, <1>3 DEF TInv, Promises, Roots, Root
  <2>. QED
    BY <2>1, <1>1, <1>11, <1>15 DEF TInv, Promises
<1>17. \A i \in 1..Len(stack) : ~stack[i].final =>
         /\ stack[i].b \in Live' /\ (i > 1 => stack[i].b # t)
  <2>. SUFFICES ASSUME NEW i \in 1..Len(stack), ~stack[i].final
                PROVE  stack[i].b \in Live' /\ (i > 1 => stack[i].b # t)
    OBVIOUS
  <2>1. OnStack(i)
    BY DEF TInv, Stacked
  <2>2. stack[i].b \in Live /\ frame[stack[i].b].at # "final"
    BY <2>1, TypeOnStack DEF OnStack, OnTop
  <2>3. i > 1 => stack[i].b # t
    BY <1>1, <1>2, TopFacts, OnceOnStack, RunsFacts
  <2>. QED
    BY <2>2, <2>3, <1>3, <1>9
<1>18. Stacked'
  <2>1. ASSUME NEW i \in 1..Len(stack) PROVE OnStack(i)'
    <3>. SUFFICES ASSUME ~stack[i].final PROVE OnStack(i)'
      BY <1>1 DEF OnStack
    <3>1. OnStack(i) /\ stack[i].b \in Live'
      BY <1>17 DEF TInv, Stacked
    <3>2. CASE i = 1
      BY <3>1, <3>2, <1>1, <1>2, <1>6, RunsFacts DEF OnStack, OnTop
    <3>3. CASE i > 1
      <4>1. i - 1 \in 1..Len(stack) /\ ~stack[i - 1].final
        BY <3>3 DEF TInv, Stacked, TypeOK
      <4>2. stack[i - 1].b \in Live' /\ stack[i].b # t
        BY <4>1, <3>3, <1>17
      <4>. QED
        BY <3>1, <3>3, <4>2, <1>1, <1>11 DEF OnStack
    <3>. QED
      BY <3>2, <3>3
  <2>2. \A i, j \in 1..Len(stack) : i < j /\ ~stack[i].final /\ ~stack[j].final =>
          Level(frame'[stack[j].b].coro) < Level(frame'[stack[i].b].coro)
    BY <1>11, <1>17 DEF TInv, Stacked
  <2>3. ASSUME NEW b \in Live'
        PROVE  /\ frame'[b].at \in OnTop => stack # <<>> /\ stack[1] = Runs(b)
               /\ frame'[b].at = "called" => \E i \in 1..Len(stack) : stack[i] = Runs(b)
    <3>1. CASE b = t
      BY <3>1, <1>1, <1>2, <1>6
    <3>2. CASE b # t
      BY <3>2, <1>11 DEF TInv, Stacked
    <3>. QED
      BY <3>1, <3>2
  <2>. QED
    BY <2>1, <2>2, <2>3, <1>1 DEF TInv, Stacked
<1>19. Depths'
  <2>1. ASSUME NEW i \in 1..Len(stack), ~stack[i].final PROVE Depth(i)'
    <3>1. Depth(i) /\ stack[i].b \in Live'
      BY <2>1, <1>17 DEF TInv, Depths
    <3>2. CASE i = 1
      <4>1. stack[i].b = t
        BY <3>2, <1>2, RunsFacts
      <4>2. Len(stack) \in Nat /\ Len(stack) - i + 1 = Len(stack)
        BY <3>2 DEF TInv, TypeOK
      <4>3. frame[u].coro = "read_rbytes" => Level(frame[t].coro) = 2
        BY <1>2, CalleesFacts DEF Frame
      <4>4. frame[u].coro = "read_rbytes" => Len(stack) <= 2
        BY <2>1, <3>1, <4>1, <4>2, <4>3, <1>1 DEF Depth
      <4>5. frame[t].awaiter # None => Len(stack) <= 6 - Level(frame[t].coro)
        BY <2>1, <3>1, <4>1, <4>2 DEF Depth
      <4>. QED
        BY <4>1, <4>2, <4>3, <4>4, <4>5, <1>1, <1>6 DEF Depth
    <3>3. CASE i > 1
      <4>1. stack[i].b # t /\ frame'[stack[i].b] = frame[stack[i].b] /\ frame[stack[i].b].at = "called"
        BY <2>1, <3>3, <1>11, <1>17 DEF TInv, Stacked, OnStack
      <4>. QED
        BY <3>1, <4>1, <1>1 DEF Depth
    <3>. QED
      BY <3>2, <3>3
  <2>. QED
    BY <2>1, <1>1 DEF TInv, Depths, Depth, StackBounded
<1>20. Slots'
  <2>1. \A b \in Roots : b \in Live /\ b \in Live'
    BY <1>15 DEF Roots
  <2>2. t \notin Holding /\ t \notin Holding'
    BY <1>1, <1>3, <1>6 DEF Holding
  <2>3. ASSUME NEW b \in Roots, b # t, frame[b].at \in {"called", "await"}
        PROVE  frame'[frame[b].task].at = "final" <=> frame[frame[b].task].at = "final"
    <3>1. frame[b].task \in Live /\ frame[b].task # u
      BY <2>1, <2>3, <1>12, LiveFacts DEF TInv, Linked, HasTask
    <3>. QED
      BY <3>1, <1>9, <1>11
  <2>4. Holding' = Holding
    BY <2>1, <2>2, <2>3, <1>11, <1>15 DEF Holding
  <2>5. \A b \in Roots : frame'[b].at = "first" => frame[b].at = "first"
    BY <2>1, <1>6, <1>11
  <2>. QED
    BY <2>4, <2>5, <1>1, <1>15 DEF TInv, Slots
<1>. QED
  BY <1>8, <1>10, <1>14, <1>15, <1>16, <1>18, <1>19, <1>20 DEF TInv

\* What is true of a coroutine that returns: it runs, it has no task, and whoever has it
\* as a task has called it or waits for it.
LEMMA ReturningFacts ==
  ASSUME TInv, Returning
  PROVE  /\ stack # <<>> /\ ~Head(stack).final
         /\ Top \in Live /\ Top \in Blocks /\ stack[1] = Runs(Top) /\ Top # None
         /\ Self \in Frame /\ Linked(Top) /\ Self = frame[Top]
         /\ Self.at \in OnTop \ {"resumed"} /\ Self.task = None /\ Self.res_state # "Res"
         /\ Self.coro = Root => Self.at = "last"
         /\ \A p \in Live : frame[p].task = Top =>
              /\ frame[p].at \in {"called", "await"} /\ p # Top
              /\ Self.coro \in Callees[frame[p].coro]
         /\ \A b \in Live : frame[b].at \in OnTop => b = Top
         /\ \A i \in 2..Len(stack) : ~stack[i].final => stack[i].b \in Live /\ stack[i].b # Top
         /\ UNCHANGED <<phase, discard>>
<1>1. /\ stack # <<>> /\ ~Head(stack).final /\ Self.at \in OnTop \ {"resumed"}
      /\ Self.coro \notin IoCoros => Self.at = "last"
      /\ UNCHANGED <<phase, discard>>
  BY DEF Returning, Running, OnTop
<1>2. /\ Top \in Live /\ Top \in Blocks /\ stack[1] = Runs(Top) /\ Top # None
      /\ Self \in Frame /\ Linked(Top) /\ Self = frame[Top]
  BY <1>1, TopFacts, LiveFacts DEF TInv, Self
<1>3. Self.task = None /\ Self.at # "final"
  BY <1>1, <1>2 DEF Linked, HasTask, OnTop
<1>4. Self.res_state # "Res"
  BY <1>2, <1>3 DEF TInv, Promises
<1>5. Self.coro = Root => Self.at = "last"
  BY <1>1, CalleesFacts
<1>6. ASSUME NEW p \in Live, frame[p].task = Top
      PROVE  /\ frame[p].at \in {"called", "await"} /\ p # Top
             /\ Self.coro \in Callees[frame[p].coro]
  <2>1. Linked(p) /\ frame[p].task # None
    BY <1>2, <1>6 DEF TInv
  <2>. QED
    BY <2>1, <1>2, <1>3, <1>6 DEF Linked, HasTask
<1>7. \A b \in Live : frame[b].at \in OnTop => b = Top
  BY <1>2, RunsFacts DEF TInv, Stacked
<1>8. \A i \in 2..Len(stack) : ~stack[i].final => stack[i].b \in Live /\ stack[i].b # Top
  BY <1>1, BelowTop
<1>. QED
  BY <1>1, <1>2, <1>3, <1>4, <1>5, <1>6, <1>7, <1>8

\* The slot is given back when queue_fuse_read ends: its queue_read_set_rc, the one that
\* has it as a task, does not hold it any longer.
LEMMA ReturningSlots ==
  ASSUME TInv, Returning, UNCHANGED worker, Live' \subseteq Live,
         Roots' = Roots \ {Top} \/ Roots' = Roots,
         Top \in Roots \/ Top \in Live', Top \in Live' => frame'[Top].at = "final",
         \A b \in Live' : frame'[b].task = frame[b].task,
         \A b \in Live : b # Top =>
           /\ b \in Live'
           /\ frame'[b].at = frame[b].at \/ (frame[b].at = "await" /\ frame'[b].at = "resumed" /\ frame[b].task = Top)
  PROVE  Slots' /\ ios' \in 0..worker.slots
<1>. DEFINE t == Top
<1>1. /\ t \in Live /\ Linked(t) /\ frame[t].at \in OnTop \ {"resumed"} /\ frame[t].coro = Self.coro
      /\ frame[t].task = None
      /\ \A p \in Live : frame[p].task = t =>
           /\ frame[p].at \in {"called", "await"} /\ p # t
           /\ frame[t].coro \in Callees[frame[p].coro]
  BY ReturningFacts
<1>2. ios \in Nat /\ worker.slots \in Nat /\ ios <= worker.slots
  BY TaskAssumption DEF TInv, TypeOK
<1>3. ios' = IF frame[t].coro = "queue_fuse_read" THEN ios + 1 ELSE ios
  BY <1>1 DEF Returning
<1>4. IsFiniteSet(Holding) /\ Cardinality(Holding) = worker.slots - ios
  <2>1. Holding \subseteq Blocks /\ IsFiniteSet(Blocks)
    BY TaskAssumption DEF Holding, Roots, Live
  <2>. QED
    BY <2>1, FS_Subset DEF TInv, Slots
<1>5. t \notin Holding /\ t \notin Holding'
  BY <1>1 DEF Holding, OnTop, Roots
<1>6. \A p \in Roots : p # t => p \in Roots' /\ p \in Live /\ p \in Live'
  BY DEF Roots
<1>7. \A p \in Roots : frame[p].at \in {"called", "await"} => frame[p].task \in Live
  BY DEF Roots, TInv, Linked, HasTask
<1>8. ASSUME NEW p \in Roots, p # t, frame[p].task # t
      PROVE  p \in Holding <=> p \in Holding'
  <2>1. p \in Live /\ p \in Live' /\ p \in Roots' /\ frame'[p].at = frame[p].at /\ frame'[p].task = frame[p].task
    BY <1>6, <1>8
  <2>2. CASE frame[p].at \in {"called", "await"}
    <3>1. frame[p].task \in Live /\ frame[p].task # t
      BY <2>2, <1>7, <1>8
    <3>2. frame'[frame[p].task].at = "final" <=> frame[frame[p].task].at = "final"
      BY <3>1
    <3>. QED
      BY <2>1, <3>2 DEF Holding
  <2>3. CASE frame[p].at \notin {"called", "await"}
    BY <2>1, <2>3 DEF Holding
  <2>. QED
    BY <2>2, <2>3
<1>9. \A b \in Roots' : b \in Roots
  OBVIOUS
<1>10. \A b \in Roots' : frame'[b].at = "first" => frame[b].at = "first"
  <2>. SUFFICES ASSUME NEW b \in Roots', frame'[b].at = "first" PROVE frame[b].at = "first"
    OBVIOUS
  <2>1. b \in Live' /\ b \in Live
    BY DEF Roots
  <2>. QED
    BY <2>1
<1>11. CASE frame[t].coro = "queue_fuse_read"
  <2>1. t \notin Roots
    BY <1>11 DEF Roots
  <2>2. PICK p \in Live : frame[p].task = t
    BY <2>1, <1>1 DEF TInv, Owners
  <2>3. p \in Roots /\ p \in Holding /\ p # t
    <3>1. frame[p].coro = Root
      BY <2>2, <1>1, <1>11, LiveFacts, CalleesFacts DEF TInv, Frame
    <3>. QED
      BY <3>1, <2>2, <1>1 DEF Roots, Holding, Root, OnTop
  <2>4. p \notin Holding'
    <3>1. p \in Live' /\ frame'[p].task = t /\ frame'[t].at = "final"
      BY <2>1, <2>2, <2>3
    <3>. QED
      BY <3>1 DEF Holding
  <2>5. \A q \in Roots : q # p => frame[q].task # t
    BY <2>2, <1>1, LiveFacts DEF TInv, Owners, Roots
  <2>6. Holding' = Holding \ {p}
    BY <2>3, <2>4, <2>5, <1>5, <1>8, <1>9 DEF Holding
  <2>7. Cardinality(Holding') = Cardinality(Holding) - 1
    BY <2>3, <2>6, <1>4, FS_RemoveElement
  <2>8. Cardinality(Holding') \in Nat
    BY <2>6, <1>4, FS_RemoveElement, FS_CardinalityType
  <2>. QED
    BY <2>7, <2>8, <1>2, <1>3, <1>4, <1>10, <1>11 DEF TInv, Slots
<1>12. CASE frame[t].coro # "queue_fuse_read"
  <2>1. \A p \in Roots : p # t => frame[p].task # t
    BY <1>1, <1>12, CalleesFacts DEF Roots, Root
  <2>2. Holding' = Holding
    BY <2>1, <1>5, <1>8, <1>9 DEF Holding
  <2>. QED
    BY <2>2, <1>2, <1>3, <1>4, <1>9, <1>10, <1>12 DEF TInv, Slots
<1>. QED
  BY <1>11, <1>12

\* A coroutine that is awaited resumes its awaiter: from then on nothing below it runs,
\* and it is freed by no other.
LEMMA ReturnToAwaiterInv ==
  ASSUME TInv, ReturnToAwaiter, UNCHANGED worker
  PROVE  TInv'
<1>. DEFINE t == Top
            a == frame[t].awaiter
<1>1. /\ Returning /\ frame[t].res_state # "Detached" /\ a # None
      /\ frame' = [frame EXCEPT ![t].at = "final", ![t].res_state = "Res", ![a].at = "resumed"]
      /\ stack' = <<Runs(a), Final(t)>> \o Tail(stack)
      /\ UNCHANGED <<worker, phase, cache, discard>>
  <2>1. Returning /\ frame[t].res_state # "Detached" /\ a # None
    BY DEF ReturnToAwaiter, Detached, Self
  <2>2. Returned = [frame EXCEPT ![t].at = "final", ![t].res_state = "Res"]
    BY <2>1 DEF Returned, Detached, Self
  <2>. QED
    BY <2>1, <2>2 DEF ReturnToAwaiter, Returning, Self, Below
<1>2. /\ t \in Live /\ t \in Blocks /\ stack[1] = Runs(t) /\ t # None /\ stack # <<>>
      /\ frame[t] \in Frame /\ Linked(t) /\ ~Head(stack).final
      /\ frame[t].at \in OnTop \ {"resumed"} /\ frame[t].task = None
      /\ \A p \in Live : frame[p].task = t => p # t /\ frame[t].coro \in Callees[frame[p].coro]
      /\ \A b \in Live : frame[b].at \in OnTop => b = t
  BY <1>1, ReturningFacts
<1>3. /\ a \in Live /\ a \in Blocks /\ frame[a] \in Frame /\ frame[a].task = t
      /\ frame[a].at = "await" /\ a # t /\ Linked(a)
  <2>1. a \in Live /\ frame[a].task = t /\ frame[a].at \in {"await", "resumed"}
    BY <1>1, <1>2 DEF Linked
  <2>2. frame[a].at = "await" /\ a # t
    BY <2>1, <1>2 DEF OnTop
  <2>. QED
    BY <2>1, <2>2, LiveFacts DEF TInv
<1>4. /\ frame[t].coro \in Callees[frame[a].coro] /\ frame[t].coro # Root
      /\ Level(frame[a].coro) + 1 <= Level(frame[t].coro)
      /\ Level(frame[a].coro) \in 1..5 /\ Level(frame[t].coro) \in 1..5
      /\ frame[t].coro = "read_rbytes" => Level(frame[t].coro) = 5
  BY <1>2, <1>3, CalleesFacts DEF Frame
<1>5. /\ \A b \in Blocks : b # t /\ b # a => frame'[b] = frame[b]
      /\ frame'[t] = [frame[t] EXCEPT !.at = "final", !.res_state = "Res"]
      /\ frame'[a] = [frame[a] EXCEPT !.at = "resumed"]
  BY <1>1, <1>2, <1>3 DEF TInv, TypeOK
<1>6. /\ frame'[t] \in Frame /\ frame'[t].at = "final" /\ frame'[t].coro = frame[t].coro
      /\ frame'[t].task = None /\ frame'[t].awaiter = a /\ frame'[t].res_state = "Res"
      /\ frame'[a] \in Frame /\ frame'[a].at = "resumed" /\ frame'[a].coro = frame[a].coro
      /\ frame'[a].task = t /\ frame'[a].awaiter = frame[a].awaiter
      /\ frame'[a].res_state = frame[a].res_state
  BY <1>2, <1>3, <1>5 DEF Frame, Points
<1>7. Live' = Live
  BY <1>2, <1>3, <1>5, <1>6, LiveFacts DEF TInv, Live
<1>8. \A b \in Live :
         /\ frame'[b].coro = frame[b].coro /\ frame'[b].task = frame[b].task
         /\ frame'[b].awaiter = frame[b].awaiter
         /\ b # t => frame'[b].res_state = frame[b].res_state
         /\ b # t /\ b # a => frame'[b] = frame[b]
  <2>. SUFFICES ASSUME NEW b \in Live
                PROVE  /\ frame'[b].coro = frame[b].coro /\ frame'[b].task = frame[b].task
                       /\ frame'[b].awaiter = frame[b].awaiter
                       /\ b # t => frame'[b].res_state = frame[b].res_state
                       /\ b # t /\ b # a => frame'[b] = frame[b]
    OBVIOUS
  <2>1. CASE b = t
    BY <2>1, <1>2, <1>6
  <2>2. CASE b = a
    BY <2>2, <1>3, <1>6
  <2>3. CASE b # t /\ b # a
    BY <2>3, <1>5, LiveFacts DEF TInv
  <2>. QED
    BY <2>1, <2>2, <2>3
<1>9. Roots' = Roots /\ Owners'
  <2>1. Roots' = Roots
    BY <1>7, <1>8 DEF Roots
  <2>. QED
    BY <2>1, <1>7, <1>8 DEF TInv, Owners
<1>10. Slots' /\ ios' \in 0..worker.slots
  <2>1. \A b \in Live : b # t => frame'[b].at = frame[b].at
                \/ (frame[b].at = "await" /\ frame'[b].at = "resumed" /\ frame[b].task = t)
    BY <1>3, <1>6, <1>8
  <2>. QED
    BY <2>1, <1>1, <1>2, <1>6, <1>7, <1>8, <1>9, ReturningSlots
<1>11. /\ stack' \in Seq(Activation) /\ Len(stack') = Len(stack) + 1 /\ Len(stack) \in Nat
       /\ Len(stack) >= 1 /\ stack'[1] = Runs(a) /\ stack' # <<>>
       /\ \A i \in 2..Len(stack') : stack'[i].final
  <2>1. stack \in Seq(Activation) /\ Len(stack) \in Nat /\ Len(stack) >= 1
    BY <1>2, PopFacts DEF TInv, TypeOK
  <2>2. Runs(a) \in Activation /\ Final(t) \in Activation
    BY <1>2, <1>3, RunsFacts
  <2>3. /\ Tail(stack) \in Seq(Activation) /\ Len(Tail(stack)) = Len(stack) - 1
        /\ \A i \in 1..Len(Tail(stack)) : i + 1 \in 2..Len(stack) /\ Tail(stack)[i] = stack[i + 1]
    BY <1>2, <2>1, PopFacts
  <2>4. /\ stack' \in Seq(Activation) /\ Len(stack') = Len(Tail(stack)) + 2
        /\ stack'[1] = Runs(a) /\ stack'[2] = Final(t)
        /\ \A i \in 3..Len(stack') : i - 2 \in 1..Len(Tail(stack)) /\ stack'[i] = Tail(stack)[i - 2]
    BY <1>1, <2>2, <2>3
  <2>5. \A j \in 2..Len(stack) : stack[j].final
    <3>1. 2 \in 1..Len(stack) => stack[2].final
      <4>1. 2 \in 1..Len(stack) => OnStack(2)
        BY DEF TInv, Stacked
      <4>2. stack[2 - 1] = Runs(t) /\ Runs(t).b = t
        BY <1>2, RunsFacts
      <4>. QED
        BY <4>1, <4>2, <1>1 DEF OnStack
    <3>2. \A j \in 1..Len(stack) : 2 < j /\ stack[2].final => stack[j].final
      BY DEF TInv, Stacked
    <3>. QED
      BY <2>1, <3>1, <3>2
  <2>6. \A i \in 3..Len(stack') : i - 1 \in 2..Len(stack) /\ stack'[i] = stack[i - 1]
    BY <2>1, <2>3, <2>4
  <2>7. stack'[2].final
    BY <2>4, RunsFacts
  <2>8. Len(stack') = Len(stack) + 1
    BY <2>1, <2>3, <2>4
  <2>9. stack' # <<>>
    BY <2>1, <2>4, <2>8
  <2>. QED
    BY <2>1, <2>4, <2>5, <2>6, <2>7, <2>8, <2>9
<1>12. TypeOK'
  <2>1. frame' \in [Blocks -> Frame \cup {NoFrame}]
    BY <1>1, <1>2, <1>3, <1>5, <1>6 DEF TInv, TypeOK
  <2>2. failed' \in BOOLEAN
    BY <1>1 DEF TInv, TypeOK, Returning
  <2>. QED
    BY <1>1, <1>10, <1>11, <2>1, <2>2 DEF TInv, TypeOK
<1>13. CacheClean'
  BY <1>1, <1>7 DEF TInv, CacheClean
<1>14. ASSUME NEW b \in Live' PROVE Linked(b)'
  <2>1. b \in Live /\ Linked(b)
    BY <1>7 DEF TInv
  <2>2. CASE b = t
    <3>1. /\ frame'[b].at = "final" /\ frame'[b].coro # Root /\ frame'[b].task = None
          /\ frame'[b].awaiter = a /\ a \in Live' /\ frame'[a].task = b /\ frame'[a].at = "resumed"
      BY <2>2, <1>3, <1>4, <1>6, <1>7
    <3>. QED
      BY <3>1 DEF Linked, HasTask
  <2>3. frame[b].awaiter # None =>
             /\ frame[b].awaiter \in Live' /\ frame'[frame[b].awaiter].task = b
             /\ frame'[frame[b].awaiter].at \in {"await", "resumed"}
    <3>. SUFFICES ASSUME frame[b].awaiter # None
                  PROVE  /\ frame[b].awaiter \in Live' /\ frame'[frame[b].awaiter].task = b
                         /\ frame'[frame[b].awaiter].at \in {"await", "resumed"}
      OBVIOUS
    <3>1. /\ frame[b].awaiter \in Live /\ frame[frame[b].awaiter].task = b
          /\ frame[frame[b].awaiter].at \in {"await", "resumed"}
      BY <2>1 DEF Linked
    <3>2. frame[b].awaiter # t
      BY <3>1, <1>2 DEF OnTop
    <3>. QED
      BY <3>1, <3>2, <1>6, <1>7, <1>8
  <2>4. CASE b = a
    <3>1. frame[a].coro = Root => frame'[a].at \notin {"body", "read"}
      BY <1>6
    <3>. QED
      BY <2>3, <2>4, <3>1, <1>2, <1>4, <1>6, <1>7 DEF Linked, HasTask
  <2>5. CASE b # t /\ b # a
    <3>1. frame[b].task # None => frame[b].task \in Live /\ frame[b].task # t
      BY <2>1, <2>5, <1>2, <1>3 DEF TInv, Linked, Owners
    <3>2. ASSUME frame[b].task # None
          PROVE  frame'[frame[b].task].at = "final" <=> frame[frame[b].task].at = "final"
      BY <3>1, <3>2, <1>3, <1>6, <1>8
    <3>. QED
      BY <2>1, <2>3, <2>5, <3>1, <3>2, <1>7, <1>8, LinkedKept
  <2>. QED
    BY <2>2, <2>4, <2>5
<1>15. Promises'
  <2>1. t \notin Roots
    BY <1>4 DEF Roots, Root
  <2>2. ASSUME NEW b \in Live
        PROVE  /\ frame'[b].res_state = "Detached" <=> b \in Roots /\ b # discard
               /\ frame'[b].res_state = "Res" <=> frame'[b].at = "final"
    <3>1. CASE b = t
      BY <3>1, <2>1, <1>6
    <3>2. CASE b = a
      BY <3>2, <1>3, <1>6 DEF TInv, Promises
    <3>3. CASE b # t /\ b # a
      BY <3>3, <1>8 DEF TInv, Promises
    <3>. QED
      BY <3>1, <3>2, <3>3
  <2>. QED
    BY <2>2, <1>1, <1>7, <1>9 DEF TInv, Promises
<1>16. Stacked'
  <2>1. \A i \in 1..Len(stack') : ~stack'[i].final => i = 1
    BY <1>11
  <2>2. 1 \in 1..Len(stack') /\ stack'[1].b = a /\ ~stack'[1].final
    BY <1>11, RunsFacts
  <2>3. \A i \in 1..Len(stack') : OnStack(i)'
    BY <2>1, <2>2, <1>3, <1>6, <1>7 DEF OnStack, OnTop
  <2>4. \A i, j \in 1..Len(stack') : i < j /\ stack'[i].final => stack'[j].final
    BY <1>11
  <2>5. \A i, j \in 1..Len(stack') : i < j => stack'[j].final
    BY <1>11
  <2>6. \A b \in Live' : frame'[b].at \in OnTop => b = a
    BY <1>2, <1>6, <1>7, <1>8 DEF OnTop
  <2>7. \A b \in Live' : frame'[b].at # "called"
    <3>. SUFFICES ASSUME NEW b \in Live, frame[b].at = "called", b # t PROVE FALSE
      BY <1>6, <1>7, <1>8
    <3>1. PICK i \in 1..Len(stack) : stack[i] = Runs(b)
      BY DEF TInv, Stacked
    <3>2. i # 1
      BY <3>1, <1>2, RunsFacts
    <3>3. i + 1 \in 2..Len(stack') /\ i >= 2
      BY <3>2, <1>11
    <3>4. OnStack(2) /\ ~stack[2].final
      <4>1. 2 \in 1..Len(stack)
        BY <3>2, <1>11
      <4>2. ~stack[i].final
        BY <3>1, RunsFacts
      <4>. QED
        BY <4>1, <4>2, <3>2, <1>11 DEF TInv, Stacked
    <3>5. stack[2 - 1].b = t
      BY <1>2, RunsFacts
    <3>. QED
      BY <3>4, <3>5, <1>1 DEF OnStack
  <2>. QED
    BY <2>3, <2>4, <2>5, <2>6, <2>7, <1>11 DEF Stacked
<1>17. Depths'
  <2>1. Depth(1)
    BY <1>11 DEF TInv, Depths
  <2>2. Len(stack) <= 6 - Level(frame[t].coro)
    BY <2>1, <1>1, <1>2, <1>11, RunsFacts DEF Depth
  <2>3. Len(stack') <= 6 - Level(frame[a].coro) /\ Len(stack') <= 5
    BY <2>2, <1>4, <1>11
  <2>4. frame[t].coro = "read_rbytes" => Len(stack') <= 2
    BY <2>2, <1>4, <1>11
  <2>5. \A i \in 1..Len(stack') : ~stack'[i].final => i = 1
    BY <1>11
  <2>6. ASSUME NEW i \in 1..Len(stack'), ~stack'[i].final PROVE Depth(i)'
    <3>1. i = 1 /\ stack'[i].b = a /\ Len(stack') - i + 1 = Len(stack')
      BY <2>5, <2>6, <1>11, RunsFacts
    <3>. QED
      BY <3>1, <2>3, <2>4, <1>6 DEF Depth
  <2>. QED
    BY <2>3, <2>6 DEF Depths, StackBounded, Depth
<1>. QED
  BY <1>9, <1>10, <1>12, <1>13, <1>14, <1>15, <1>16, <1>17 DEF TInv

\* A coroutine that nobody awaits yet returns to its caller, which still has its task.
LEMMA ReturnToCallerInv ==
  ASSUME TInv, ReturnToCaller, UNCHANGED worker
  PROVE  TInv'
<1>. DEFINE t == Top
<1>1. /\ Returning /\ frame[t].res_state # "Detached" /\ frame[t].awaiter = None
      /\ frame' = [frame EXCEPT ![t].at = "final", ![t].res_state = "Res"]
      /\ stack' = Tail(stack)
      /\ UNCHANGED <<worker, phase, cache, discard>>
  BY DEF ReturnToCaller, Returned, Detached, Self, Below, Returning
<1>2. /\ t \in Live /\ t \in Blocks /\ stack[1] = Runs(t) /\ t # None /\ stack # <<>>
      /\ frame[t] \in Frame /\ Linked(t) /\ ~Head(stack).final
      /\ frame[t].at \in OnTop \ {"resumed"} /\ frame[t].task = None
      /\ \A p \in Live : frame[p].task = t => p # t /\ frame[p].at \in {"called", "await"}
      /\ \A b \in Live : frame[b].at \in OnTop => b = t
      /\ \A i \in 2..Len(stack) : ~stack[i].final => stack[i].b \in Live /\ stack[i].b # t
  BY <1>1, ReturningFacts
<1>3. /\ \A b \in Live : b # t => frame'[b] = frame[b]
      /\ \A b \in Blocks : b # t => frame'[b] = frame[b]
      /\ frame'[t] = [frame[t] EXCEPT !.at = "final", !.res_state = "Res"]
  BY <1>1, <1>2, LiveFacts DEF TInv, TypeOK
<1>4. /\ frame'[t] \in Frame /\ frame'[t].at = "final" /\ frame'[t].coro = frame[t].coro
      /\ frame'[t].task = None /\ frame'[t].awaiter = None /\ frame'[t].res_state = "Res"
  <2>1. /\ frame'[t] \in Frame /\ frame'[t].at = "final" /\ frame'[t].coro = frame[t].coro
        /\ frame'[t].task = frame[t].task /\ frame'[t].awaiter = frame[t].awaiter
        /\ frame'[t].res_state = "Res"
    BY <1>2, <1>3 DEF Frame, Points
  <2>. QED
    BY <1>1, <1>2, <2>1
<1>5. Live' = Live
  BY <1>2, <1>3, <1>4, LiveFacts DEF TInv, Live
<1>6. \A b \in Live :
         /\ frame'[b].coro = frame[b].coro /\ frame'[b].task = frame[b].task
         /\ frame'[b].awaiter = frame[b].awaiter
  <2>. SUFFICES ASSUME NEW b \in Live
                PROVE  /\ frame'[b].coro = frame[b].coro /\ frame'[b].task = frame[b].task
                       /\ frame'[b].awaiter = frame[b].awaiter
    OBVIOUS
  <2>1. CASE b = t
    BY <2>1, <1>1, <1>2, <1>4
  <2>. QED
    BY <2>1, <1>3
<1>7. Roots' = Roots /\ Owners'
  <2>1. Roots' = Roots
    BY <1>5, <1>6 DEF Roots
  <2>. QED
    BY <2>1, <1>5, <1>6 DEF TInv, Owners
<1>8. Slots' /\ ios' \in 0..worker.slots
  BY <1>1, <1>2, <1>3, <1>4, <1>5, <1>6, <1>7, ReturningSlots
<1>9. TypeOK'
  <2>1. frame' \in [Blocks -> Frame \cup {NoFrame}]
    BY <1>1, <1>2, <1>3, <1>4 DEF TInv, TypeOK
  <2>2. failed' \in BOOLEAN
    BY <1>1 DEF TInv, TypeOK, Returning
  <2>. QED
    BY <1>1, <1>2, <1>8, <2>1, <2>2, PopFacts DEF TInv, TypeOK
<1>10. CacheClean'
  BY <1>1, <1>5 DEF TInv, CacheClean
<1>11. \A p \in Live : frame[p].task = t => frame[p].at = "called"
  <2>. SUFFICES ASSUME NEW p \in Live, frame[p].task = t, frame[p].at = "await" PROVE FALSE
    BY <1>2
  <2>. QED
    BY <1>1, <1>2, LiveFacts DEF TInv, Linked
<1>12. ASSUME NEW b \in Live' PROVE Linked(b)'
  <2>1. b \in Live /\ Linked(b)
    BY <1>5 DEF TInv
  <2>2. CASE b = t
    <3>1. /\ frame'[b].at = "final" /\ frame'[b].task = None /\ frame'[b].awaiter = None
      BY <2>2, <1>4
    <3>. QED
      BY <3>1 DEF Linked, HasTask
  <2>3. CASE b # t
    <3>1. frame[b].awaiter # None =>
             /\ frame[b].awaiter \in Live /\ frame[b].awaiter # t /\ frame'[frame[b].awaiter].task = b
             /\ frame'[frame[b].awaiter].at \in {"await", "resumed"}
      <4>. SUFFICES ASSUME frame[b].awaiter # None
                    PROVE  /\ frame[b].awaiter \in Live /\ frame[b].awaiter # t
                           /\ frame'[frame[b].awaiter].task = b
                           /\ frame'[frame[b].awaiter].at \in {"await", "resumed"}
        OBVIOUS
      <4>1. /\ frame[b].awaiter \in Live /\ frame[frame[b].awaiter].task = b
            /\ frame[frame[b].awaiter].at \in {"await", "resumed"}
        BY <2>1 DEF Linked
      <4>2. frame[b].awaiter # t
        BY <4>1, <1>2, LiveFacts DEF OnTop, TInv
      <4>. QED
        BY <4>1, <4>2, <1>3
    <3>2. frame[b].task # None => frame[b].task \in Live
      BY <2>1 DEF Linked
    <3>3. ASSUME frame[b].task # None, frame[b].at \in {"await", "resumed"}
          PROVE  frame'[frame[b].task].at = "final" <=> frame[frame[b].task].at = "final"
      <4>1. frame[b].task # t
        BY <3>3, <2>1, <1>11
      <4>. QED
        BY <4>1, <3>2, <3>3, <1>3
    <3>. QED
      BY <2>1, <2>3, <3>1, <3>2, <3>3, <1>3, <1>5, <1>6, LinkedKept
  <2>. QED
    BY <2>2, <2>3
<1>13. Promises'
  <2>1. ASSUME NEW b \in Live
        PROVE  /\ frame'[b].res_state = "Detached" <=> b \in Roots /\ b # discard
               /\ frame'[b].res_state = "Res" <=> frame'[b].at = "final"
    <3>1. CASE b = t
      BY <3>1, <1>1, <1>2, <1>4 DEF TInv, Promises
    <3>2. CASE b # t
      BY <3>2, <1>3 DEF TInv, Promises
    <3>. QED
      BY <3>1, <3>2
  <2>. QED
    BY <2>1, <1>1, <1>5, <1>7 DEF TInv, Promises
<1>14. Stacked' /\ Depths'
  <2>1. \A i \in 2..Len(stack) : ~stack[i].final =>
          stack[i].b \in Live' /\ frame'[stack[i].b] = frame[stack[i].b]
    BY <1>2, <1>3, <1>5
  <2>2. \A b \in Live' :
          /\ frame'[b].at \notin OnTop
          /\ frame'[b].at = "called" => b \in Live /\ frame[b].at = "called" /\ stack[1] # Runs(b)
    <3>. SUFFICES ASSUME NEW b \in Live
                  PROVE  /\ frame'[b].at \notin OnTop
                         /\ frame'[b].at = "called" => frame[b].at = "called" /\ stack[1] # Runs(b)
      BY <1>5
    <3>1. CASE b = t
      BY <3>1, <1>4 DEF OnTop
    <3>2. CASE b # t
      BY <3>2, <1>2, <1>3, RunsFacts
    <3>. QED
      BY <3>1, <3>2
  <2>. QED
    BY <2>1, <2>2, <1>1, <1>2, PopStack
<1>. QED
  BY <1>7, <1>8, <1>9, <1>10, <1>12, <1>13, <1>14 DEF TInv

\* A detached coroutine is a queue_read_set_rc: nobody awaits it, and it frees its own
\* frame and no other.
LEMMA ReturnDetachedInv ==
  ASSUME TInv, ReturnDetached, UNCHANGED worker
  PROVE  TInv'
<1>. DEFINE t == Top
<1>1. Returning /\ frame[t].res_state = "Detached" /\ stack' = Tail(stack) /\ worker' = worker
  BY DEF ReturnDetached, Detached, Self, Below
<1>2. /\ t \in Live /\ t \in Blocks /\ stack[1] = Runs(t) /\ t # None /\ stack # <<>>
      /\ frame[t] \in Frame /\ Linked(t) /\ ~Head(stack).final
      /\ frame[t].at \in OnTop \ {"resumed"} /\ frame[t].task = None
      /\ \A p \in Live : frame[p].task = t => frame[t].coro \in Callees[frame[p].coro]
      /\ \A b \in Live : frame[b].at \in OnTop => b = t
      /\ \A i \in 2..Len(stack) : ~stack[i].final => stack[i].b \in Live /\ stack[i].b # t
      /\ UNCHANGED <<phase, discard>>
  BY <1>1, ReturningFacts
<1>3. t \in Roots /\ t # discard /\ frame[t].coro = Root
  BY <1>1, <1>2 DEF TInv, Promises, Roots, Root
<1>4. \A p \in Live : frame[p].task # t
  BY <1>2, <1>3, LiveFacts, CalleesFacts DEF TInv, Frame
<1>5. frame[t].awaiter = None
  BY <1>2, <1>4 DEF Linked
<1>6. /\ frame' = [Returned EXCEPT ![t] = NoFrame]
      /\ cache' = malloc_cache_free(Returned, t, cache)
  BY <1>5 DEF ReturnDetached, Destroy, Self
<1>7. Returned = [frame EXCEPT ![t].at = "final", ![t].res_state = "Detached"]
  BY <1>1 DEF Returned, Detached, Self
<1>8. /\ \A b \in Live : b # t => frame'[b] = frame[b]
      /\ \A b \in Blocks : b # t => frame'[b] = frame[b]
      /\ frame'[t] = NoFrame
  BY <1>2, <1>6, <1>7, LiveFacts DEF TInv, TypeOK
<1>9. Live' = Live \ {t}
  BY <1>2, <1>8, LiveFacts DEF TInv, Live
<1>10. cache' = cache \/ cache' = <<t>> \o cache
  BY <1>6 DEF malloc_cache_free
<1>11. Roots' = Roots \ {t} /\ Owners'
  <2>1. Roots' = Roots \ {t}
    BY <1>8, <1>9 DEF Roots
  <2>2. ASSUME NEW b \in Live' \ Roots' PROVE \E c \in Live' : frame'[c].task = b
    <3>1. PICK c \in Live : frame[c].task = b
      BY <2>1, <1>9 DEF TInv, Owners
    <3>2. c # t
      BY <3>1, <2>2, <1>2, <1>9, LiveFacts DEF TInv
    <3>. QED
      BY <3>1, <3>2, <1>8, <1>9
  <2>3. ASSUME NEW b \in Live', NEW c \in Live', frame'[b].task = frame'[c].task, frame'[b].task # None
        PROVE  b = c
    BY <2>3, <1>8, <1>9 DEF TInv, Owners
  <2>. QED
    BY <2>1, <2>2, <2>3 DEF Owners
<1>12. Slots' /\ ios' \in 0..worker.slots
  BY <1>1, <1>2, <1>3, <1>8, <1>9, <1>11, ReturningSlots
<1>13. TypeOK'
  <2>1. frame' \in [Blocks -> Frame \cup {NoFrame}]
    BY <1>2, <1>6, <1>7, <1>8 DEF TInv, TypeOK
  <2>2. failed' \in BOOLEAN
    BY <1>1 DEF TInv, TypeOK, Returning
  <2>3. cache' \in Seq(Blocks)
    <3>1. cache \in Seq(Blocks)
      BY DEF TInv, TypeOK
    <3>2. <<t>> \o cache \in Seq(Blocks)
      BY <3>1, <1>2, PushFacts
    <3>. QED
      BY <3>1, <3>2, <1>10
  <2>. QED
    BY <1>1, <1>2, <1>12, <2>1, <2>2, <2>3, PopFacts DEF TInv, TypeOK
<1>14. CacheClean'
  BY <1>2, <1>9, <1>10, FreedClean DEF TInv, TypeOK
<1>15. ASSUME NEW b \in Live' PROVE Linked(b)'
  <2>1. b \in Live /\ Linked(b) /\ b # t
    BY <1>9 DEF TInv
  <2>2. frame[b].awaiter # None =>
           /\ frame[b].awaiter \in Live' /\ frame'[frame[b].awaiter].task = b
           /\ frame'[frame[b].awaiter].at \in {"await", "resumed"}
    BY <2>1, <1>2, <1>8, <1>9, LiveFacts DEF Linked, TInv
  <2>3. frame[b].task # None => frame[b].task \in Live' /\ frame'[frame[b].task] = frame[frame[b].task]
    BY <2>1, <1>4, <1>8, <1>9 DEF Linked
  <2>. QED
    BY <2>1, <2>2, <2>3, <1>8, LinkedKept
<1>16. Promises'
  BY <1>2, <1>3, <1>8, <1>9, <1>11 DEF TInv, Promises
<1>17. Stacked' /\ Depths'
  <2>1. \A i \in 2..Len(stack) : ~stack[i].final =>
          stack[i].b \in Live' /\ frame'[stack[i].b] = frame[stack[i].b]
    BY <1>2, <1>8, <1>9
  <2>2. \A b \in Live' :
          /\ frame'[b].at \notin OnTop
          /\ frame'[b].at = "called" => b \in Live /\ frame[b].at = "called" /\ stack[1] # Runs(b)
    BY <1>2, <1>8, <1>9, RunsFacts
  <2>. QED
    BY <2>1, <2>2, <1>1, <1>2, PopStack
<1>. QED
  BY <1>11, <1>12, <1>13, <1>14, <1>15, <1>16, <1>17 DEF TInv

\* final_suspend returns: the coroutine that it has resumed is not on the stack any more.
LEMMA UnwindInv ==
  ASSUME TInv, Unwind, UNCHANGED worker
  PROVE  TInv'
<1>1. /\ stack # <<>> /\ Head(stack).final /\ stack' = Tail(stack)
      /\ UNCHANGED <<worker, phase, ios, failed, frame, cache, discard>>
  BY DEF Unwind, Below
<1>2. TypeOK'
  BY <1>1, PopFacts DEF TInv, TypeOK
<1>3. CacheClean' /\ Owners' /\ Promises' /\ Slots' /\ Live' = Live
  BY <1>1 DEF TInv, CacheClean, Owners, Promises, Slots, Live, Roots, Holding
<1>4. \A b \in Live' : Linked(b)'
  BY <1>1, <1>3 DEF TInv, Linked, Live
<1>5. Stacked' /\ Depths'
  <2>1. stack[1].final /\ 1 \in 1..Len(stack)
    BY <1>1, PopFacts DEF TInv, TypeOK
  <2>2. \A i \in 2..Len(stack) : stack[i].final
    BY <2>1 DEF TInv, Stacked
  <2>3. \A b : stack[1] # Runs(b)
    BY <2>1, RunsFacts
  <2>4. \A b \in Live : frame[b].at \notin OnTop
    BY <2>3 DEF TInv, Stacked
  <2>. QED
    BY <1>1, <1>3, <2>2, <2>3, <2>4, PopStack
<1>. QED
  BY <1>2, <1>3, <1>4, <1>5 DEF TInv

\* run() fills, reaps and exits between the coroutines; clear_malloc_cache frees nothing
\* but the list.
LEMMA RunInv ==
  ASSUME TInv, Filled \/ EndBatch \/ clear_malloc_cache, UNCHANGED worker
  PROVE  TInv'
<1>1. /\ UNCHANGED <<worker, ios, failed, frame, stack, discard>>
      /\ phase' \in {"fill", "reap", "exit"} /\ (cache' = cache \/ cache' = <<>>)
  BY DEF Filled, EndBatch, clear_malloc_cache
<1>2. TypeOK'
  <2>1. cache' \in Seq(Blocks)
    <3>1. cache \in Seq(Blocks) /\ <<>> \in Seq(Blocks)
      BY DEF TInv, TypeOK
    <3>. QED
      BY <1>1, <3>1
  <2>. QED
    BY <1>1, <2>1 DEF TInv, TypeOK
<1>3. /\ CacheClean' /\ Owners' /\ Promises' /\ Slots' /\ Live' = Live
      /\ Stacked' /\ Depths'
  <2>1. Live' = Live /\ Roots' = Roots
    BY <1>1 DEF Live, Roots
  <2>2. CacheClean'
    BY <1>1, <2>1 DEF TInv, CacheClean
  <2>3. Owners' /\ Promises' /\ Slots'
    BY <1>1, <2>1 DEF TInv, Owners, Promises, Slots, Holding
  <2>4. Stacked' /\ Depths'
    BY <1>1, <2>1 DEF TInv, Stacked, OnStack, Depths, Depth, StackBounded
  <2>. QED
    BY <2>1, <2>2, <2>3, <2>4
<1>4. \A b \in Live' : Linked(b)'
  BY <1>1, <1>3 DEF TInv, Linked
<1>. QED
  BY <1>2, <1>3, <1>4 DEF TInv

\* Nothing runs while the native stack is empty.
LEMMA Idle ==
  ASSUME TInv, stack = <<>>
  PROVE  \A b \in Live : frame[b].at \notin OnTop \cup {"called"}
BY DEF TInv, Stacked

\* A stack with one coroutine that runs and no final_suspend.
LEMMA OneRuns ==
  ASSUME TInv, stack = <<>>, NEW b \in Live', b \in Blocks, stack' = <<Runs(b)>>, frame'[b] \in Frame,
         frame'[b].at \in {"first", "body"}, frame'[b].coro = Root => frame'[b].awaiter = None,
         \A c \in Live' : c # b => c \in Live /\ frame'[c] = frame[c]
  PROVE  Stacked' /\ Depths' /\ stack' \in Seq(Activation)
<1>1. /\ stack' \in Seq(Activation) /\ Len(stack') = 1 /\ stack'[1] = Runs(b) /\ stack' # <<>>
      /\ stack'[1].b = b /\ ~stack'[1].final
  BY RunsFacts
<1>2. \A i \in 1..Len(stack') : i = 1
  BY <1>1
<1>3. \A i \in 1..Len(stack') : OnStack(i)'
  BY <1>1, <1>2 DEF OnStack, OnTop
<1>4. \A c \in Live' : frame'[c].at \in OnTop \cup {"called"} => c = b
  BY Idle
<1>5. Stacked'
  BY <1>1, <1>2, <1>3, <1>4 DEF Stacked
<1>6. Level(frame'[b].coro) \in 1..5
  BY CalleesFacts DEF Frame
<1>7. \A i \in 1..Len(stack') : Depth(i)'
  BY <1>1, <1>2, <1>6 DEF Depth
<1>. QED
  BY <1>1, <1>5, <1>7 DEF Depths, StackBounded

\* A completion resumes the coroutine that waits for it, on an empty native stack.
LEMMA CqeInv ==
  ASSUME TInv, Cqe, UNCHANGED worker
  PROVE  TInv'
<1>1. PICK b \in Live : /\ frame[b].at = "io"
                        /\ frame' = [frame EXCEPT ![b].at = "body"]
                        /\ stack' = <<Runs(b)>>
  BY DEF Cqe
<1>2. stack = <<>> /\ UNCHANGED <<worker, phase, ios, failed, cache, discard>>
  BY DEF Cqe, InLoop
<1>3. b \in Blocks /\ frame[b] \in Frame /\ Linked(b)
  BY <1>1, LiveFacts DEF TInv
<1>4. /\ \A c \in Live : c # b => frame'[c] = frame[c]
      /\ \A c \in Blocks : c # b => frame'[c] = frame[c]
      /\ frame'[b] = [frame[b] EXCEPT !.at = "body"]
  BY <1>1, <1>3, LiveFacts DEF TInv, TypeOK
<1>5. /\ frame'[b] \in Frame /\ frame'[b].at = "body" /\ frame'[b].coro = frame[b].coro
      /\ frame'[b].task = frame[b].task /\ frame'[b].awaiter = frame[b].awaiter
      /\ frame'[b].res_state = frame[b].res_state
  BY <1>3, <1>4 DEF Frame, Points
<1>6. Live' = Live
  BY <1>3, <1>4, <1>5, LiveFacts DEF TInv, Live
<1>7. frame[b].task = None /\ frame[b].coro # Root
  BY <1>1, <1>3, CalleesFacts DEF Linked, HasTask
<1>8. \A c \in Live :
         /\ frame'[c].coro = frame[c].coro /\ frame'[c].task = frame[c].task
         /\ frame'[c].awaiter = frame[c].awaiter /\ frame'[c].res_state = frame[c].res_state
         /\ frame'[c].at = "final" <=> frame[c].at = "final"
         /\ frame'[c].at = "await" <=> frame[c].at = "await"
         /\ frame'[c].at = "resumed" <=> frame[c].at = "resumed"
  <2>. SUFFICES ASSUME NEW c \in Live
                PROVE  /\ frame'[c].coro = frame[c].coro /\ frame'[c].task = frame[c].task
                       /\ frame'[c].awaiter = frame[c].awaiter /\ frame'[c].res_state = frame[c].res_state
                       /\ frame'[c].at = "final" <=> frame[c].at = "final"
                       /\ frame'[c].at = "await" <=> frame[c].at = "await"
                       /\ frame'[c].at = "resumed" <=> frame[c].at = "resumed"
    OBVIOUS
  <2>1. CASE c = b
    BY <2>1, <1>1, <1>5
  <2>. QED
    BY <2>1, <1>4
<1>9. TypeOK' /\ Stacked' /\ Depths'
  <2>1. frame' \in [Blocks -> Frame \cup {NoFrame}]
    BY <1>1, <1>3, <1>4, <1>5 DEF TInv, TypeOK
  <2>2. Stacked' /\ Depths' /\ stack' \in Seq(Activation)
    BY <1>1, <1>2, <1>3, <1>4, <1>5, <1>6, <1>7, OneRuns
  <2>. QED
    BY <2>1, <2>2, <1>2 DEF TInv, TypeOK
<1>10. CacheClean'
  BY <1>2, <1>6 DEF TInv, CacheClean
<1>11. ASSUME NEW c \in Live' PROVE Linked(c)'
  <2>1. c \in Live /\ Linked(c)
    BY <1>6 DEF TInv
  <2>2. frame[c].awaiter # None =>
           /\ frame[c].awaiter \in Live' /\ frame'[frame[c].awaiter].task = c
           /\ frame'[frame[c].awaiter].at \in {"await", "resumed"}
    BY <2>1, <1>6, <1>8 DEF Linked
  <2>3. CASE c = b
    BY <2>1, <2>2, <2>3, <1>1, <1>5, <1>6, <1>7 DEF Linked, HasTask
  <2>4. CASE c # b
    BY <2>1, <2>2, <2>4, <1>4, <1>6, <1>8, LinkedKept DEF Linked
  <2>. QED
    BY <2>3, <2>4
<1>12. Roots' = Roots /\ Owners' /\ Promises'
  <2>1. Roots' = Roots
    BY <1>6, <1>8 DEF Roots
  <2>2. Owners'
    BY <2>1, <1>6, <1>8 DEF TInv, Owners
  <2>3. Promises'
    BY <2>1, <1>2, <1>6, <1>8 DEF TInv, Promises
  <2>. QED
    BY <2>1, <2>2, <2>3
<1>13. Slots'
  <2>1. \A c \in Roots : c \in Live /\ c # b
    BY <1>7 DEF Roots, Root
  <2>2. \A c \in Roots : frame'[c] = frame[c]
    BY <2>1, <1>4
  <2>3. \A c \in Roots : frame[c].at \in {"called", "await"} => frame[c].task \in Live
    BY <2>1 DEF TInv, Linked, HasTask
  <2>4. Holding' = Holding
    BY <2>2, <2>3, <1>8, <1>12 DEF Holding
  <2>. QED
    BY <2>2, <2>4, <1>2, <1>12 DEF TInv, Slots
<1>. QED
  BY <1>9, <1>10, <1>11, <1>12, <1>13 DEF TInv

\* The discarded task ends: its queue_read_set_rc is freed, or left to free itself.
LEMMA DiscardInv ==
  ASSUME TInv, Discard, UNCHANGED worker
  PROVE  TInv'
<1>. DEFINE t == discard
<1>1. /\ stack = <<>> /\ t # None /\ EndTask(frame, t) /\ discard' = None
      /\ UNCHANGED <<worker, phase, ios, failed, stack>>
  BY DEF Discard
<1>2. /\ t \in Live /\ t \in Roots /\ t \in Blocks /\ frame[t] \in Frame /\ frame[t].coro = Root
      /\ Linked(t) /\ None \notin Blocks
  BY <1>1, LiveFacts DEF TInv, Promises, Roots, Root
<1>3. \A p \in Live : frame[p].task # t
  BY <1>1, <1>2, LiveFacts, CalleesFacts DEF TInv, Linked, Frame
<1>4. frame[t].awaiter = None
  BY <1>2, <1>3 DEF Linked
<1>5. \A b \in Live : frame[b].at \notin OnTop \cup {"called"}
  BY <1>1, Idle
<1>6. Stacked' /\ Depths' /\ stack' \in Seq(Activation)
      <=> \A b \in Live' : frame'[b].at \notin OnTop \cup {"called"}
  BY <1>1 DEF Stacked, Depths, StackBounded, TInv, TypeOK
<1>7. CASE frame[t].at = "final"
  <2>1. frame' = [frame EXCEPT ![t] = NoFrame] /\ (cache' = cache \/ cache' = <<t>> \o cache)
    BY <1>1, <1>7 DEF EndTask, Destroy, malloc_cache_free
  <2>2. /\ \A b \in Blocks : b # t => frame'[b] = frame[b]
        /\ frame'[t] = NoFrame
    BY <1>2, <2>1 DEF TInv, TypeOK
  <2>3. Live' = Live \ {t}
    BY <1>2, <2>2, LiveFacts DEF TInv, Live
  <2>4. \A b \in Live' : b \in Live /\ b # t /\ frame'[b] = frame[b]
    BY <2>2, <2>3, LiveFacts DEF TInv
  <2>5. TypeOK'
    <3>1. frame' \in [Blocks -> Frame \cup {NoFrame}]
      BY <1>2, <2>1 DEF TInv, TypeOK
    <3>2. cache \in Seq(Blocks) /\ <<t>> \o cache \in Seq(Blocks)
      BY <1>2, PushFacts DEF TInv, TypeOK
    <3>. QED
      BY <1>1, <2>1, <3>1, <3>2 DEF TInv, TypeOK
  <2>6. CacheClean'
    BY <1>2, <2>1, <2>3, FreedClean DEF TInv, TypeOK
  <2>7. ASSUME NEW b \in Live' PROVE Linked(b)'
    <3>1. b \in Live /\ Linked(b) /\ b # t
      BY <2>4 DEF TInv
    <3>2. frame[b].awaiter # None =>
             /\ frame[b].awaiter \in Live' /\ frame'[frame[b].awaiter].task = b
             /\ frame'[frame[b].awaiter].at \in {"await", "resumed"}
      BY <3>1, <1>7, <2>3, <2>4 DEF Linked
    <3>3. frame[b].task # None => frame[b].task \in Live' /\ frame'[frame[b].task] = frame[frame[b].task]
      BY <3>1, <1>3, <2>3, <2>4 DEF Linked
    <3>. QED
      BY <3>1, <3>2, <3>3, <2>4, LinkedKept
  <2>8. Roots' = Roots \ {t} /\ Owners'
    <3>1. Roots' = Roots \ {t}
      BY <2>3, <2>4 DEF Roots
    <3>2. ASSUME NEW b \in Live' \ Roots' PROVE \E c \in Live' : frame'[c].task = b
      <4>1. PICK c \in Live : frame[c].task = b
        BY <3>1, <2>4 DEF TInv, Owners
      <4>2. c # t
        BY <4>1, <3>2, <1>2, <1>7, <2>4, LiveFacts DEF TInv, Linked, HasTask
      <4>. QED
        BY <4>1, <4>2, <2>3, <2>4
    <3>3. ASSUME NEW b \in Live', NEW c \in Live', frame'[b].task = frame'[c].task, frame'[b].task # None
          PROVE  b = c
      BY <3>3, <2>4 DEF TInv, Owners
    <3>. QED
      BY <3>1, <3>2, <3>3 DEF Owners
  <2>9. Promises'
    <3>1. ASSUME NEW b \in Live'
          PROVE  /\ frame'[b].res_state = "Detached" <=> b \in Roots' /\ b # None
                 /\ frame'[b].res_state = "Res" <=> frame'[b].at = "final"
      BY <1>2, <2>4, <2>8, LiveFacts DEF TInv, Promises
    <3>. QED
      BY <3>1, <1>1 DEF Promises
  <2>10. Stacked' /\ Depths'
    BY <1>5, <1>6, <2>4
  <2>11. Slots'
    <3>1. \A b \in Roots' : b \in Roots /\ b \in Live /\ frame'[b] = frame[b]
      BY <2>4 DEF Roots
    <3>2. t \notin Holding
      BY <1>7 DEF Holding
    <3>3. \A b \in Roots : frame[b].at \in {"called", "await"} =>
            frame[b].task \in Live' /\ frame'[frame[b].task] = frame[frame[b].task]
      BY <1>3, <2>3, <2>4, LiveFacts DEF TInv, Linked, HasTask, Roots
    <3>4. Holding' = Holding
      BY <3>1, <3>2, <3>3, <2>8 DEF Holding
    <3>. QED
      BY <3>1, <3>4, <1>1 DEF TInv, Slots
  <2>. QED
    BY <2>5, <2>6, <2>7, <2>8, <2>9, <2>10, <2>11 DEF TInv
<1>8. CASE frame[t].at # "final"
  <2>1. frame' = [frame EXCEPT ![t].res_state = "Detached"] /\ cache' = cache
    BY <1>1, <1>8 DEF EndTask
  <2>2. /\ \A b \in Blocks : b # t => frame'[b] = frame[b]
        /\ frame'[t] = [frame[t] EXCEPT !.res_state = "Detached"]
    BY <1>2, <2>1 DEF TInv, TypeOK
  <2>3. /\ frame'[t] \in Frame /\ frame'[t].at = frame[t].at /\ frame'[t].coro = frame[t].coro
        /\ frame'[t].task = frame[t].task /\ frame'[t].awaiter = frame[t].awaiter
        /\ frame'[t].res_state = "Detached"
    BY <1>2, <2>2 DEF Frame
  <2>4. Live' = Live
    BY <1>2, <2>2, <2>3, LiveFacts DEF TInv, Live
  <2>5. \A b \in Live :
           /\ frame'[b].coro = frame[b].coro /\ frame'[b].task = frame[b].task
           /\ frame'[b].awaiter = frame[b].awaiter /\ frame'[b].at = frame[b].at
           /\ b # t => frame'[b].res_state = frame[b].res_state
    BY <2>2, <2>3, LiveFacts DEF TInv
  <2>6. TypeOK'
    <3>1. frame' \in [Blocks -> Frame \cup {NoFrame}]
      BY <1>2, <2>1, <2>2, <2>3 DEF TInv, TypeOK
    <3>. QED
      BY <1>1, <2>1, <3>1 DEF TInv, TypeOK
  <2>7. CacheClean'
    BY <2>1, <2>4 DEF TInv, CacheClean
  <2>8. ASSUME NEW b \in Live' PROVE Linked(b)'
    <3>1. b \in Live /\ Linked(b)
      BY <2>4 DEF TInv
    <3>. QED
      BY <3>1, <2>4, <2>5 DEF Linked, HasTask
  <2>9. Roots' = Roots /\ Owners'
    <3>1. Roots' = Roots
      BY <2>4, <2>5 DEF Roots
    <3>. QED
      BY <3>1, <2>4, <2>5 DEF TInv, Owners
  <2>10. Promises'
    <3>1. ASSUME NEW b \in Live
          PROVE  /\ frame'[b].res_state = "Detached" <=> b \in Roots /\ b # None
                 /\ frame'[b].res_state = "Res" <=> frame'[b].at = "final"
      <4>1. CASE b = t
        BY <4>1, <1>2, <1>8, <2>3
      <4>2. CASE b # t
        BY <4>2, <2>5, LiveFacts DEF TInv, Promises
      <4>. QED
        BY <4>1, <4>2
    <3>. QED
      BY <3>1, <1>1, <2>4, <2>9 DEF Promises
  <2>11. Stacked' /\ Depths'
    BY <1>5, <1>6, <2>4, <2>5
  <2>12. Slots'
    <3>1. \A b \in Roots : frame[b].at \in {"called", "await"} => frame[b].task \in Live
      BY DEF TInv, Linked, HasTask, Roots
    <3>2. \A b \in Roots : b \in Live
      BY DEF Roots
    <3>3. Holding' = Holding
      BY <3>1, <3>2, <2>5, <2>9 DEF Holding
    <3>. QED
      BY <3>2, <3>3, <1>1, <2>5, <2>9 DEF TInv, Slots
  <2>. QED
    BY <2>6, <2>7, <2>8, <2>9, <2>10, <2>11, <2>12 DEF TInv
<1>. QED
  BY <1>7, <1>8

\* A new frame gets a block that is not in use, and the block leaves the list.
LEMMA NewBlock ==
  ASSUME TInv, NEW c \in AllCoros, NEW b \in Blocks, malloc_cache(c, b)
  PROVE  /\ b \notin Live /\ cache' \in Seq(Blocks)
         /\ Live' = Live \cup {b} => CacheClean'
<1>1. cache \in Seq(Blocks) /\ CacheClean
  BY DEF TInv, TypeOK
<1>2. CASE cache # <<>> /\ b = Head(cache) /\ cache' = Tail(cache)
  <2>1. /\ b = cache[1] /\ 1 \in 1..Len(cache) /\ Len(cache) \in Nat
        /\ cache' \in Seq(Blocks) /\ Len(cache') = Len(cache) - 1
        /\ \A i \in 1..Len(cache') : i + 1 \in 2..Len(cache) /\ cache'[i] = cache[i + 1]
    BY <1>1, <1>2, PopFacts
  <2>2. b \notin Live
    BY <1>1, <2>1 DEF CacheClean
  <2>3. ASSUME NEW i \in 1..Len(cache') PROVE cache'[i] \notin Live /\ cache'[i] # b
    <3>1. i + 1 \in 1..Len(cache) /\ i + 1 # 1 /\ cache'[i] = cache[i + 1]
      BY <2>1
    <3>. QED
      BY <1>1, <2>1, <3>1 DEF CacheClean
  <2>4. ASSUME NEW i \in 1..Len(cache'), NEW j \in 1..Len(cache'), cache'[i] = cache'[j]
        PROVE  i = j
    <3>1. i + 1 \in 1..Len(cache) /\ j + 1 \in 1..Len(cache) /\ cache[i + 1] = cache[j + 1]
      BY <2>1, <2>4
    <3>2. i + 1 = j + 1
      BY <1>1, <3>1 DEF CacheClean
    <3>. QED
      BY <3>2
  <2>. QED
    BY <2>1, <2>2, <2>3, <2>4 DEF CacheClean
<1>3. CASE b \in Unused /\ cache' = cache
  BY <1>1, <1>3 DEF Unused, CacheClean
<1>. QED
  BY <1>2, <1>3 DEF malloc_cache

\* run() calls a queue_read_set_rc while there are slots.
LEMMA StartInv ==
  ASSUME TInv, Start, UNCHANGED worker
  PROVE  TInv'
<1>1. PICK b \in Blocks : /\ malloc_cache(Root, b)
                          /\ frame' = [frame EXCEPT ![b] = NewFrame(Root)]
                          /\ stack' = <<Runs(b)>>
                          /\ discard' = b
  BY DEF Start, Root
<1>2. stack = <<>> /\ discard = None /\ ios > 0 /\ UNCHANGED <<worker, phase, ios, failed>>
  BY DEF Start, InLoop
<1>3. b \notin Live /\ cache' \in Seq(Blocks) /\ (Live' = Live \cup {b} => CacheClean')
  BY <1>1, CalleesFacts, NewBlock
<1>4. /\ \A c \in Blocks : c # b => frame'[c] = frame[c]
      /\ frame'[b] = NewFrame(Root)
  BY <1>1 DEF TInv, TypeOK
<1>5. /\ frame'[b] \in Frame /\ frame'[b].at = "first" /\ frame'[b].coro = Root
      /\ frame'[b].task = None /\ frame'[b].awaiter = None /\ frame'[b].res_state = "Init"
  BY <1>4, CalleesFacts DEF NewFrame, NoFrame, Frame, Points
<1>6. Live' = Live \cup {b}
  BY <1>4, <1>5, LiveFacts DEF TInv, Live
<1>7. \A c \in Live : c # b /\ frame'[c] = frame[c] /\ c \in Blocks
  BY <1>3, <1>4, LiveFacts DEF TInv
<1>8. TypeOK' /\ Stacked' /\ Depths'
  <2>1. frame' \in [Blocks -> Frame \cup {NoFrame}]
    BY <1>1, <1>4, <1>5 DEF TInv, TypeOK
  <2>2. Stacked' /\ Depths' /\ stack' \in Seq(Activation)
    <3>1. \A c \in Live' : c # b => c \in Live /\ frame'[c] = frame[c]
      BY <1>6, <1>7
    <3>. QED
      BY <3>1, <1>1, <1>2, <1>5, <1>6, OneRuns
  <2>. QED
    BY <2>1, <2>2, <1>1, <1>2, <1>3 DEF TInv, TypeOK
<1>9. ASSUME NEW c \in Live' PROVE Linked(c)'
  <2>1. CASE c = b
    BY <2>1, <1>5 DEF Linked, HasTask
  <2>2. CASE c # b
    <3>1. c \in Live /\ Linked(c)
      BY <2>2, <1>6 DEF TInv
    <3>2. /\ frame[c].awaiter # None => frame[c].awaiter \in Live
          /\ frame[c].task # None => frame[c].task \in Live
      BY <3>1 DEF Linked
    <3>3. frame[c].awaiter # None =>
             /\ frame[c].awaiter \in Live' /\ frame'[frame[c].awaiter].task = c
             /\ frame'[frame[c].awaiter].at \in {"await", "resumed"}
      BY <3>1, <3>2, <1>6, <1>7 DEF Linked
    <3>. QED
      BY <3>1, <3>2, <3>3, <1>6, <1>7, LinkedKept
  <2>. QED
    BY <2>1, <2>2
<1>10. Roots' = Roots \cup {b} /\ Owners'
  <2>1. Roots' = Roots \cup {b}
    BY <1>5, <1>6, <1>7 DEF Roots, Root
  <2>2. ASSUME NEW c \in Live' \ Roots' PROVE \E p \in Live' : frame'[p].task = c
    <3>1. PICK p \in Live : frame[p].task = c
      BY <2>1, <1>6 DEF TInv, Owners
    <3>. QED
      BY <3>1, <1>6, <1>7
  <2>3. ASSUME NEW p \in Live', NEW q \in Live', frame'[p].task = frame'[q].task, frame'[p].task # None
        PROVE  p = q
    BY <2>3, <1>5, <1>6, <1>7 DEF TInv, Owners
  <2>. QED
    BY <2>1, <2>2, <2>3 DEF Owners
<1>11. Promises'
  <2>1. ASSUME NEW c \in Live'
        PROVE  /\ frame'[c].res_state = "Detached" <=> c \in Roots' /\ c # b
               /\ frame'[c].res_state = "Res" <=> frame'[c].at = "final"
    <3>1. CASE c = b
      BY <3>1, <1>5
    <3>2. CASE c # b
      BY <3>2, <1>2, <1>6, <1>7, <1>10, LiveFacts DEF TInv, Promises
    <3>. QED
      BY <3>1, <3>2
  <2>. QED
    BY <2>1, <1>1, <1>10 DEF Promises
<1>12. Slots'
  <2>1. \A c \in Roots : c \in Live /\ frame'[c] = frame[c]
    BY <1>7 DEF Roots
  <2>2. \A c \in Roots : frame[c].at \in {"called", "await"} => frame[c].task \in Live
    BY DEF TInv, Linked, HasTask, Roots
  <2>3. b \notin Holding'
    BY <1>5 DEF Holding
  <2>4. Holding' = Holding
    BY <2>1, <2>2, <2>3, <1>7, <1>10 DEF Holding
  <2>. QED
    BY <2>4, <1>2 DEF TInv, Slots
<1>. QED
  BY <1>3, <1>6, <1>8, <1>9, <1>10, <1>11, <1>12 DEF TInv

\* A call puts the new coroutine on top of its caller.  The slot is taken by the
\* queue_fuse_read that a queue_read_set_rc calls first of all.
LEMMA CallInv ==
  ASSUME TInv, NEW c \in AllCoros, Call(c), UNCHANGED worker
  PROVE  TInv'
<1>. DEFINE t == Top
<1>1. /\ stack # <<>> /\ ~Head(stack).final /\ frame[t].at \in {"first", "body", "read"}
      /\ c \in Callees[frame[t].coro]
      /\ ios' = IF c = "queue_fuse_read" THEN ios - 1 ELSE ios
      /\ UNCHANGED <<worker, phase, failed, discard>>
  BY DEF Call, Running, Self
<1>2. PICK b \in Blocks :
        /\ malloc_cache(c, b)
        /\ frame' = [frame EXCEPT ![t].at = "called", ![t].task = b, ![b] = NewFrame(c)]
        /\ stack' = <<Runs(b)>> \o stack
  BY DEF Call
<1>3. /\ t \in Live /\ t \in Blocks /\ stack[1] = Runs(t) /\ frame[t] \in Frame /\ Linked(t)
      /\ b # None /\ t # None /\ frame[t].task = None
      /\ \A x \in Live : frame[x].at \in OnTop => x = t
  <2>1. /\ t \in Live /\ t \in Blocks /\ stack[1] = Runs(t) /\ frame[t] \in Frame /\ Linked(t)
    BY <1>1, TopFacts DEF TInv, Self
  <2>2. frame[t].task = None
    BY <2>1, <1>1 DEF Linked, HasTask
  <2>3. \A x \in Live : frame[x].at \in OnTop => x = t
    BY <2>1, RunsFacts DEF TInv, Stacked
  <2>. QED
    BY <2>1, <2>2, <2>3, LiveFacts DEF TInv
<1>4. b \notin Live /\ cache' \in Seq(Blocks) /\ (Live' = Live \cup {b} => CacheClean')
  BY <1>2, NewBlock
<1>5. /\ \A x \in Blocks : x # b /\ x # t => frame'[x] = frame[x]
      /\ frame'[b] = NewFrame(c)
      /\ frame'[t] = [frame[t] EXCEPT !.at = "called", !.task = b]
  BY <1>2, <1>3, <1>4 DEF TInv, TypeOK
<1>6. /\ frame'[b] \in Frame /\ frame'[b].at = "first" /\ frame'[b].coro = c
      /\ frame'[b].task = None /\ frame'[b].awaiter = None /\ frame'[b].res_state = "Init"
  BY <1>5 DEF NewFrame, NoFrame, Frame, Points
<1>7. /\ frame'[t] \in Frame /\ frame'[t].at = "called" /\ frame'[t].coro = frame[t].coro
      /\ frame'[t].task = b /\ frame'[t].awaiter = frame[t].awaiter
      /\ frame'[t].res_state = frame[t].res_state
  BY <1>3, <1>5 DEF Frame, Points
<1>8. Live' = Live \cup {b}
  BY <1>3, <1>5, <1>6, <1>7, LiveFacts DEF TInv, Live
<1>9. \A x \in Live :
        /\ x # b /\ (x # t => frame'[x] = frame[x])
        /\ frame'[x].coro = frame[x].coro /\ frame'[x].awaiter = frame[x].awaiter
        /\ frame'[x].res_state = frame[x].res_state
        /\ frame'[x].at = "final" <=> frame[x].at = "final"
  <2>. SUFFICES ASSUME NEW x \in Live
                PROVE  /\ x # b /\ (x # t => frame'[x] = frame[x])
                       /\ frame'[x].coro = frame[x].coro /\ frame'[x].awaiter = frame[x].awaiter
                       /\ frame'[x].res_state = frame[x].res_state
                       /\ frame'[x].at = "final" <=> frame[x].at = "final"
    OBVIOUS
  <2>1. x # b /\ x \in Blocks
    BY <1>4, LiveFacts DEF TInv
  <2>2. CASE x = t
    BY <2>1, <2>2, <1>1, <1>7
  <2>3. CASE x # t
    BY <2>1, <2>3, <1>5
  <2>. QED
    BY <2>1, <2>2, <2>3
<1>10. /\ frame[t].coro \in AllCoros /\ c # Root /\ Level(frame[t].coro) + 1 <= Level(c)
       /\ Level(frame[t].coro) \in 1..5 /\ Level(c) \in 1..5
       /\ c = "queue_fuse_read" <=> frame[t].coro = Root
  <2>1. frame[t].coro \in AllCoros
    BY <1>3 DEF Frame
  <2>. QED
    BY <2>1, <1>1, CalleesFacts
<1>11. /\ stack \in Seq(Activation) /\ stack' \in Seq(Activation) /\ Len(stack') = Len(stack) + 1
       /\ stack' # <<>> /\ Len(stack) \in Nat /\ Len(stack) >= 1
       /\ stack'[1] = Runs(b) /\ stack'[1].b = b /\ ~stack'[1].final
       /\ \A i \in 2..Len(stack') : i - 1 \in 1..Len(stack) /\ stack'[i] = stack[i - 1]
  <2>1. stack \in Seq(Activation) /\ Runs(b) \in Activation
    BY RunsFacts DEF TInv, TypeOK
  <2>2. Len(stack) \in Nat /\ Len(stack) >= 1
    BY <1>1, <2>1, PopFacts
  <2>. QED
    BY <2>1, <2>2, <1>2, PushFacts, RunsFacts
<1>12. \A i \in 1..Len(stack) : ~stack[i].final =>
         /\ stack[i].b \in Live /\ (i > 1 => stack[i].b # t)
  <2>. SUFFICES ASSUME NEW i \in 1..Len(stack), ~stack[i].final
                PROVE  stack[i].b \in Live /\ (i > 1 => stack[i].b # t)
    OBVIOUS
  <2>1. stack[i].b \in Live
    BY DEF TInv, Stacked, OnStack
  <2>2. ASSUME i > 1 PROVE stack[i].b # t
    <3>1. i \in 2..Len(stack)
      BY <2>2
    <3>. QED
      BY <3>1, <1>1, BelowTop
  <2>. QED
    BY <2>1, <2>2
<1>13. ASSUME NEW x \in Live' PROVE Linked(x)'
  <2>1. CASE x = b
    BY <2>1, <1>6, <1>10 DEF Linked, HasTask
  <2>2. CASE x = t
    <3>1. frame[t].awaiter # None => /\ frame[t].awaiter \in Live /\ frame[t].awaiter # t
                                     /\ frame[frame[t].awaiter].task = t
                                     /\ frame[frame[t].awaiter].at \in {"await", "resumed"}
      BY <1>1, <1>3 DEF Linked
    <3>2. frame[t].awaiter # None => /\ frame[t].awaiter \in Live'
                                     /\ frame'[frame[t].awaiter].task = t
                                     /\ frame'[frame[t].awaiter].at \in {"await", "resumed"}
      BY <3>1, <1>8, <1>9
    <3>. QED
      BY <2>2, <3>2, <1>1, <1>3, <1>6, <1>7, <1>8 DEF Linked, HasTask
  <2>3. CASE x # b /\ x # t
    <3>1. x \in Live /\ Linked(x)
      BY <2>3, <1>8 DEF TInv
    <3>2. frame[x].awaiter # None => /\ frame[x].awaiter \in Live /\ frame[x].awaiter # t
                                     /\ frame[frame[x].awaiter].task = x
                                     /\ frame[frame[x].awaiter].at \in {"await", "resumed"}
      BY <3>1, <1>1 DEF Linked
    <3>3. frame[x].task # None => frame[x].task \in Live
      BY <3>1 DEF Linked
    <3>. QED
      BY <2>3, <3>1, <3>2, <3>3, <1>8, <1>9, LinkedKept
  <2>. QED
    BY <2>1, <2>2, <2>3
<1>14. Roots' = Roots /\ Owners'
  <2>1. Roots' = Roots
    BY <1>6, <1>8, <1>9, <1>10 DEF Roots, Root
  <2>2. ASSUME NEW x \in Live' \ Roots' PROVE \E p \in Live' : frame'[p].task = x
    <3>1. CASE x = b
      BY <3>1, <1>3, <1>7, <1>8
    <3>2. CASE x # b
      <4>1. PICK p \in Live : frame[p].task = x
        BY <3>2, <2>1, <1>8 DEF TInv, Owners
      <4>2. p # t
        BY <4>1, <3>2, <1>3, <1>8, LiveFacts DEF TInv
      <4>. QED
        BY <4>1, <4>2, <1>8, <1>9
    <3>. QED
      BY <3>1, <3>2
  <2>3. \A x \in Live : x # t => frame[x].task # b
    BY <1>3, <1>4 DEF TInv, Linked
  <2>4. ASSUME NEW p \in Live', NEW q \in Live', frame'[p].task = frame'[q].task, frame'[p].task # None
        PROVE  p = q
    <3>1. p \in Live /\ q \in Live
      BY <2>4, <1>6, <1>8
    <3>2. CASE p = t \/ q = t
      BY <2>3, <2>4, <3>1, <3>2, <1>7, <1>9
    <3>3. CASE p # t /\ q # t
      BY <2>4, <3>1, <3>3, <1>9 DEF TInv, Owners
    <3>. QED
      BY <3>2, <3>3
  <2>. QED
    BY <2>1, <2>2, <2>4 DEF Owners
<1>15. Promises'
  <2>1. ASSUME NEW x \in Live'
        PROVE  /\ frame'[x].res_state = "Detached" <=> x \in Roots /\ x # discard
               /\ frame'[x].res_state = "Res" <=> frame'[x].at = "final"
    <3>1. CASE x = b
      BY <3>1, <1>4, <1>6 DEF Roots
    <3>2. CASE x # b
      BY <3>2, <1>8, <1>9 DEF TInv, Promises
    <3>. QED
      BY <3>1, <3>2
  <2>. QED
    BY <2>1, <1>1, <1>14 DEF TInv, Promises
<1>16. Stacked'
  <2>1. ASSUME NEW i \in 1..Len(stack') PROVE OnStack(i)'
    <3>. SUFFICES ASSUME ~stack'[i].final PROVE OnStack(i)'
      BY DEF OnStack
    <3>1. CASE i = 1
      BY <3>1, <1>6, <1>8, <1>11 DEF OnStack, OnTop
    <3>2. CASE i = 2
      <4>1. stack'[i] = stack[1] /\ stack'[i - 1] = stack'[1]
        BY <3>2, <1>11
      <4>2. stack'[i].b = t /\ stack'[i - 1].b = b
        BY <4>1, <1>3, <1>11, RunsFacts
      <4>. QED
        BY <3>2, <4>2, <1>3, <1>6, <1>7, <1>8 DEF OnStack
    <3>3. CASE i > 2
      <4>1. /\ i - 1 \in 1..Len(stack) /\ i - 2 \in 1..Len(stack) /\ i - 1 > 1 /\ i - 1 - 1 = i - 2
            /\ stack'[i] = stack[i - 1] /\ stack'[i - 1] = stack[i - 2]
        <5>1. i \in 2..Len(stack') /\ i - 1 \in 2..Len(stack')
          BY <3>3, <1>11
        <5>2. i - 1 - 1 = i - 2
          BY <5>1
        <5>. QED
          BY <3>3, <5>1, <5>2, <1>11
      <4>2. OnStack(i - 1) /\ ~stack[i - 1].final /\ ~stack[i - 2].final
        <5>1. OnStack(i - 1) /\ ~stack[i - 1].final
          BY <4>1 DEF TInv, Stacked
        <5>2. i - 2 < i - 1 /\ (stack[i - 2].final => stack[i - 1].final)
          BY <4>1 DEF TInv, Stacked
        <5>. QED
          BY <5>1, <5>2
      <4>3. /\ stack[i - 1].b \in Live /\ stack[i - 1].b # t /\ stack[i - 2].b \in Live
        BY <4>1, <4>2, <1>12
      <4>. QED
        BY <3>3, <4>1, <4>2, <4>3, <1>8, <1>9 DEF OnStack
    <3>. QED
      BY <3>1, <3>2, <3>3
  <2>2. ASSUME NEW i \in 1..Len(stack'), NEW j \in 1..Len(stack'), i < j, stack'[i].final
        PROVE  stack'[j].final
    <3>1. i \in 2..Len(stack') /\ j \in 2..Len(stack')
      BY <2>2, <1>11
    <3>2. /\ i - 1 \in 1..Len(stack) /\ stack[i - 1].final
          /\ j - 1 \in 1..Len(stack) /\ stack'[j] = stack[j - 1] /\ i - 1 < j - 1
      BY <2>2, <3>1, <1>11
    <3>. QED
      BY <3>2 DEF TInv, Stacked
  <2>3. ASSUME NEW i \in 1..Len(stack'), NEW j \in 1..Len(stack'),
               i < j, ~stack'[i].final, ~stack'[j].final
        PROVE  Level(frame'[stack'[j].b].coro) < Level(frame'[stack'[i].b].coro)
    <3>1. j - 1 \in 1..Len(stack) /\ stack'[j] = stack[j - 1] /\ stack[j - 1].b \in Live
      BY <2>3, <1>11, <1>12
    <3>2. frame'[stack'[j].b].coro = frame[stack[j - 1].b].coro
      BY <3>1, <1>9
    <3>3. CASE i = 1
      <4>1. frame'[stack'[i].b].coro = c
        BY <3>3, <1>6, <1>11
      <4>2. j - 1 = 1 \/ 1 < j - 1
        BY <2>3, <3>3, <1>11
      <4>3. stack[1].b = t /\ ~stack[1].final /\ 1 \in 1..Len(stack)
        BY <1>3, <1>11, RunsFacts
      <4>4. Level(frame[stack[j - 1].b].coro) <= Level(frame[t].coro)
        <5>1. CASE j - 1 = 1
          BY <5>1, <4>3, <1>10
        <5>2. CASE 1 < j - 1
          <6>1. Level(frame[stack[j - 1].b].coro) < Level(frame[stack[1].b].coro)
            BY <5>2, <4>3, <3>1, <2>3 DEF TInv, Stacked
          <6>2. Level(frame[stack[j - 1].b].coro) \in 1..5
            BY <3>1, LiveFacts, CalleesFacts DEF TInv, Frame
          <6>. QED
            BY <6>1, <6>2, <4>3, <1>10
        <5>. QED
          BY <4>2, <5>1, <5>2
      <4>5. Level(frame[stack[j - 1].b].coro) \in 1..5
        BY <3>1, LiveFacts, CalleesFacts DEF TInv, Frame
      <4>. QED
        BY <3>2, <4>1, <4>4, <4>5, <1>10
    <3>4. CASE i > 1
      <4>1. i - 1 \in 1..Len(stack) /\ stack'[i] = stack[i - 1] /\ stack[i - 1].b \in Live /\ i - 1 < j - 1
        BY <2>3, <3>4, <1>11, <1>12
      <4>2. frame'[stack'[i].b].coro = frame[stack[i - 1].b].coro
        BY <4>1, <1>9
      <4>. QED
        BY <2>3, <3>1, <3>2, <4>1, <4>2 DEF TInv, Stacked
    <3>. QED
      BY <3>3, <3>4
  <2>4. ASSUME NEW x \in Live'
        PROVE  /\ frame'[x].at \in OnTop => stack' # <<>> /\ stack'[1] = Runs(x)
               /\ frame'[x].at = "called" => \E i \in 1..Len(stack') : stack'[i] = Runs(x)
    <3>1. CASE x = b
      BY <3>1, <1>6, <1>11
    <3>2. CASE x = t
      <4>1. 2 \in 1..Len(stack') /\ stack'[2] = Runs(t)
        <5>1. 2 \in 2..Len(stack') /\ 2 - 1 = 1
          BY <1>11
        <5>. QED
          BY <5>1, <1>3, <1>11
      <4>. QED
        BY <3>2, <4>1, <1>7 DEF OnTop
    <3>3. CASE x # b /\ x # t
      <4>1. x \in Live /\ frame'[x] = frame[x] /\ frame[x].at \notin OnTop
        BY <3>3, <1>3, <1>8, <1>9
      <4>2. ASSUME frame[x].at = "called" PROVE \E i \in 1..Len(stack') : stack'[i] = Runs(x)
        <5>1. PICK i \in 1..Len(stack) : stack[i] = Runs(x)
          BY <4>1, <4>2 DEF TInv, Stacked
        <5>2. i + 1 \in 2..Len(stack') /\ i + 1 - 1 = i
          BY <1>11
        <5>3. stack'[i + 1] = Runs(x) /\ i + 1 \in 1..Len(stack')
          BY <5>1, <5>2, <1>11
        <5>. QED
          BY <5>3
      <4>. QED
        BY <4>1, <4>2
    <3>. QED
      BY <3>1, <3>2, <3>3
  <2>. QED
    BY <2>1, <2>2, <2>3, <2>4 DEF Stacked
<1>17. Depths'
  <2>1. \A i \in 1..Len(stack) : Depth(i)
    BY DEF TInv, Depths
  <2>2. Len(stack) <= Level(frame[t].coro)
    <3>1. Depth(1) /\ stack[1].b = t /\ ~stack[1].final /\ Len(stack) - 1 + 1 = Len(stack)
      BY <2>1, <1>3, <1>11, RunsFacts
    <3>. QED
      BY <3>1, <1>1 DEF Depth
  <2>3. Len(stack') <= Level(c) /\ Len(stack') <= 5
    BY <2>2, <1>10, <1>11
  <2>4. ASSUME NEW i \in 1..Len(stack'), ~stack'[i].final PROVE Depth(i)'
    <3>1. CASE i = 1
      <4>1. stack'[i].b = b /\ Len(stack') - i + 1 = Len(stack')
        BY <3>1, <1>11
      <4>. QED
        BY <4>1, <2>3, <1>6 DEF Depth
    <3>2. CASE i > 1
      <4>1. /\ i - 1 \in 1..Len(stack) /\ stack'[i] = stack[i - 1] /\ ~stack[i - 1].final
            /\ Len(stack') - i + 1 = Len(stack) - (i - 1) + 1
        BY <2>4, <3>2, <1>11
      <4>2. Depth(i - 1) /\ stack[i - 1].b \in Live /\ (i - 1 > 1 => stack[i - 1].b # t)
        BY <2>1, <4>1, <1>12
      <4>3. frame'[stack[i - 1].b].at = "called"
        <5>1. CASE stack[i - 1].b = t
          BY <5>1, <1>7
        <5>2. CASE stack[i - 1].b # t
          <6>1. i - 1 > 1
            <7>1. stack[1].b = t
              BY <1>3, RunsFacts
            <7>2. i - 1 # 1
              BY <7>1, <5>2
            <7>. QED
              BY <7>2, <4>1
          <6>2. frame[stack[i - 1].b].at = "called"
            BY <6>1, <4>1 DEF TInv, Stacked, OnStack
          <6>. QED
            BY <6>2, <5>2, <4>2, <1>9
        <5>. QED
          BY <5>1, <5>2
      <4>4. /\ frame'[stack[i - 1].b].coro = frame[stack[i - 1].b].coro
            /\ frame'[stack[i - 1].b].awaiter = frame[stack[i - 1].b].awaiter
            /\ frame[stack[i - 1].b].at \notin {"resumed", "last"}
        <5>1. CASE stack[i - 1].b = t
          BY <5>1, <1>1, <1>7
        <5>2. CASE stack[i - 1].b # t
          BY <5>2, <4>2, <4>3, <1>9
        <5>. QED
          BY <5>1, <5>2
      <4>. QED
        BY <4>1, <4>2, <4>3, <4>4 DEF Depth
    <3>. QED
      BY <3>1, <3>2, <1>11
  <2>. QED
    BY <2>3, <2>4 DEF Depths, StackBounded, Depth
<1>18. Slots' /\ ios' \in 0..worker.slots
  <2>1. ios \in Nat /\ worker.slots \in Nat /\ ios <= worker.slots
    BY TaskAssumption DEF TInv, TypeOK
  <2>2. IsFiniteSet(Holding) /\ Cardinality(Holding) = worker.slots - ios
    <3>1. Holding \subseteq Blocks /\ IsFiniteSet(Blocks)
      BY TaskAssumption DEF Holding, Roots, Live
    <3>. QED
      BY <3>1, FS_Subset DEF TInv, Slots
  <2>3. \A x \in Roots : x \in Live
    BY DEF Roots
  <2>4. \A x \in Roots : frame[x].at \in {"called", "await"} => frame[x].task \in Live
    BY DEF TInv, Linked, HasTask, Roots
  <2>5. \A x \in Roots : x # t => (x \in Holding' <=> x \in Holding)
    BY <2>3, <2>4, <1>9, <1>14 DEF Holding
  <2>6. t \notin Holding
    BY <1>1 DEF Holding
  <2>7. \A x \in Roots : frame'[x].at # "first"
    BY <2>3, <1>3, <1>7, <1>9 DEF OnTop
  <2>8. CASE c = "queue_fuse_read"
    <3>1. t \in Roots /\ ios > 0
      <4>1. frame[t].coro = Root /\ frame[t].at = "first"
        BY <2>8, <1>1, <1>3, <1>10 DEF Linked
      <4>2. t \in Roots
        BY <4>1, <1>3 DEF Roots, Root
      <4>. QED
        BY <4>1, <4>2 DEF TInv, Slots
    <3>2. t \in Holding'
      BY <3>1, <1>6, <1>7, <1>14 DEF Holding
    <3>3. Holding' = Holding \cup {t}
      BY <3>1, <3>2, <2>5, <1>14 DEF Holding
    <3>4. Cardinality(Holding') = Cardinality(Holding) + 1
      BY <3>3, <2>2, <2>6, FS_AddElement
    <3>. QED
      BY <3>1, <3>4, <2>1, <2>2, <2>7, <2>8, <1>1, <1>14 DEF Slots
  <2>9. CASE c # "queue_fuse_read"
    <3>1. t \notin Roots
      BY <2>9, <1>10 DEF Roots, Root
    <3>2. Holding' = Holding
      BY <3>1, <2>5, <1>14 DEF Holding
    <3>. QED
      BY <3>2, <2>1, <2>2, <2>7, <2>9, <1>1, <1>14 DEF Slots
  <2>. QED
    BY <2>8, <2>9
<1>19. TypeOK'
  <2>1. frame' \in [Blocks -> Frame \cup {NoFrame}]
    BY <1>2, <1>3, <1>5, <1>6, <1>7 DEF TInv, TypeOK
  <2>. QED
    BY <2>1, <1>1, <1>4, <1>11, <1>18 DEF TInv, TypeOK
<1>. QED
  BY <1>4, <1>8, <1>13, <1>14, <1>15, <1>16, <1>17, <1>18, <1>19 DEF TInv

-----------------------------------------------------------------------------
(* The theorems.                                                           *)

LEMMA InitInv == Init => TInv
<1>. SUFFICES ASSUME Init PROVE TInv
  OBVIOUS
<1>1. /\ worker \in Workers /\ phase = "fill" /\ ios = worker.slots /\ failed = FALSE
      /\ frame = [b \in Blocks |-> NoFrame] /\ cache = <<>> /\ stack = <<>> /\ discard = None
  BY DEF Init
<1>2. worker.slots \in Nat \ {0}
  BY <1>1, TaskAssumption
<1>3. Live = {} /\ Roots = {} /\ Holding = {}
  BY <1>1 DEF Live, Roots, Holding
<1>4. TypeOK
  <2>1. ios \in 0..worker.slots
    BY <1>1, <1>2
  <2>2. cache \in Seq(Blocks) /\ stack \in Seq(Activation)
    BY <1>1
  <2>. QED
    BY <1>1, <2>1, <2>2 DEF TypeOK
<1>5. CacheClean /\ Owners /\ Promises /\ Stacked /\ Depths
  BY <1>1, <1>3 DEF CacheClean, Owners, Promises, Stacked, Depths, StackBounded
<1>6. Slots
  BY <1>1, <1>2, <1>3, FS_EmptySet DEF Slots
<1>. QED
  BY <1>3, <1>4, <1>5, <1>6 DEF TInv

\* TInv holds at the start, and every step keeps it.
THEOREM TaskInvariance == Spec => []TInv
<1>1. TInv /\ [Next]_vars => TInv'
  <2>. SUFFICES ASSUME TInv, [Next]_vars PROVE TInv'
    OBVIOUS
  <2>1. ASSUME Step, UNCHANGED worker PROVE TInv'
    BY <2>1, StartInv, DiscardInv, CallInv, AwaitIoInv, AwaitTaskInv, TakeResultInv,
       ReturnToAwaiterInv, ReturnToCallerInv, ReturnDetachedInv, UnwindInv, RunInv, CqeInv DEF Step
  <2>2. CASE UNCHANGED vars
    <3>1. UNCHANGED <<worker, phase, ios, failed, frame, cache, stack, discard>>
      BY <2>2 DEF vars
    <3>2. Live' = Live /\ Roots' = Roots /\ TypeOK' /\ CacheClean'
      BY <3>1 DEF Live, Roots, TInv, TypeOK, CacheClean
    <3>3. Owners' /\ Promises' /\ Slots'
      BY <3>1, <3>2 DEF TInv, Owners, Promises, Slots, Holding
    <3>4. Stacked' /\ Depths'
      BY <3>1, <3>2 DEF TInv, Stacked, OnStack, Depths, Depth, StackBounded
    <3>5. \A b \in Live' : Linked(b)'
      BY <3>1, <3>2 DEF TInv, Linked
    <3>. QED
      BY <3>2, <3>3, <3>4, <3>5 DEF TInv
  <2>. QED
    BY <2>1, <2>2 DEF Next, Exited
<1>. QED
  BY <1>1, InitInv, PTL DEF Spec

\* The coroutines and slots of a worker keep to their types; there are never more slots
\* free than the worker has, nor fewer than none.
THEOREM TypeCorrect == Spec => []TypeOK
BY TaskInvariance, PTL DEF TInv

\* malloc_cache holds each free block once, and none that has a frame.
THEOREM CacheIsClean == Spec => []CacheClean
BY TaskInvariance, PTL DEF TInv

\* No frame that runs, or that a promise or a task points to, has been destroyed.
THEOREM NothingDangles == Spec => []NoDangling
<1>1. TInv => NoDangling
  <2>. SUFFICES ASSUME TInv PROVE NoDangling
    OBVIOUS
  <2>1. \A i \in 1..Len(stack) : ~stack[i].final => stack[i].b \in Live
    BY DEF TInv, Stacked, OnStack
  <2>2. ASSUME NEW b \in Live
        PROVE  /\ frame[b].awaiter # None => frame[b].awaiter \in Live
               /\ frame[b].task # None => frame[b].task \in Live
    BY DEF TInv, Linked
  <2>3. discard # None => discard \in Live
    BY DEF TInv, Promises, Roots
  <2>. QED
    BY <2>1, <2>2, <2>3 DEF NoDangling
<1>. QED
  BY <1>1, TaskInvariance, PTL

\* An awaiter is resumed only when the result that it takes is there.
THEOREM ResultIsThere == Spec => []ResultThere
<1>1. TInv => ResultThere
  BY DEF TInv, ResultThere, Linked, Promises, HasTask
<1>. QED
  BY <1>1, TaskInvariance, PTL

\* A coroutine that waits for another is the one that the other will resume.
THEOREM AwaitersWait == Spec => []AwaiterWaits
<1>1. TInv => AwaiterWaits
  <2>. SUFFICES ASSUME TInv, NEW b \in Live
                PROVE  /\ frame[b].at = "await" => frame[frame[b].task].awaiter = b /\ frame[frame[b].task].at # "final"
                       /\ frame[b].awaiter # None /\ frame[b].at # "final" =>
                            frame[frame[b].awaiter].at = "await" /\ frame[frame[b].awaiter].task = b
    BY DEF AwaiterWaits
  <2>1. Linked(b)
    BY DEF TInv
  <2>2. frame[b].awaiter # None => Linked(frame[b].awaiter)
    BY <2>1 DEF TInv, Linked
  <2>. QED
    BY <2>1, <2>2 DEF Linked
<1>. QED
  BY <1>1, TaskInvariance, PTL

\* Between the steps of the loop the frames are those of the slots in use: one
\* queue_read_set_rc for each, and those that are awaited.
THEOREM NothingLeaks == Spec => []NoLeak
<1>1. TInv => NoLeak
  <2>. SUFFICES ASSUME TInv, stack = <<>>, discard = None
                PROVE  /\ \A b \in Live \ Roots : \E p \in Live : frame[p].at = "await" /\ frame[p].task = b
                       /\ Cardinality(Roots) = worker.slots - ios
    BY DEF NoLeak, InLoop
  <2>1. \A b \in Live : frame[b].at \notin OnTop \cup {"called"}
    BY Idle
  <2>2. ASSUME NEW b \in Live \ Roots
        PROVE  \E p \in Live : frame[p].at = "await" /\ frame[p].task = b
    <3>1. PICK p \in Live : frame[p].task = b
      BY <2>2 DEF TInv, Owners
    <3>2. Linked(p) /\ frame[p].task # None
      BY <2>2, <3>1, LiveFacts DEF TInv
    <3>3. frame[p].at = "await"
      BY <2>1, <3>2 DEF Linked, HasTask, OnTop
    <3>. QED
      BY <3>1, <3>3
  <2>3. ASSUME NEW b \in Roots PROVE b \in Holding
    <3>1. b \in Live /\ Linked(b) /\ frame[b] \in Frame /\ frame[b].coro = Root
      BY LiveFacts DEF TInv, Roots, Root
    <3>2. frame[b].at # "final"
      <4>1. b # discard
        BY <3>1, LiveFacts DEF TInv
      <4>. QED
        BY <3>1, <4>1 DEF TInv, Promises
    <3>3. frame[b].at # "io"
      BY <3>1, CalleesFacts DEF Linked
    <3>4. frame[b].at = "await"
      BY <2>1, <3>1, <3>2, <3>3 DEF Frame, Points, OnTop
    <3>. QED
      BY <3>1, <3>4 DEF Linked, Holding
  <2>4. Holding = Roots
    BY <2>3 DEF Holding
  <2>. QED
    BY <2>2, <2>4 DEF TInv, Slots
<1>. QED
  BY <1>1, TaskInvariance, PTL

\* The native stack has at most the five frames of one request's coroutines, however
\* many requests have been answered.
THEOREM StackIsBounded == Spec => []StackBounded
BY TaskInvariance, PTL DEF TInv, Depths
=============================================================================
