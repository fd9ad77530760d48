---------------------------- MODULE UringLoopProofs ----------------------------
(***************************************************************************)
(* The accounting of UringLoop, for every number of slots, sizes of the    *)
(* rings and faults: a chain that is begun finds room, is not split, and   *)
(* resumes its coroutine when nothing of it is left; with the sizes of     *)
(* fuseuring_run the loop never meets EBUSY where it goes to wait; and     *)
(* where get_sqe may meet it, and what then.                               *)
(***************************************************************************)
EXTENDS UringLoop, FiniteSetTheorems, TLAPS

\* The steps of a slot's chain that are in a queue or in the kernel.
Out(io) == {k \in 1..3 : where[<<io, k>>] # "none"}

\* The chain being queued: what has been taken of it is in the submission queue, and
\* nothing of it is anywhere else.
Queueing ==
  Busy => /\ cur.io \in ring.ios /\ phase \in {"fill", "reap", "undefined"}
          /\ Chain \in Kinds /\ cur.k <= ChainLen(Chain)
          /\ tocomplete[cur.io] = 0
          /\ \A k \in 1..3 : where[<<cur.io, k>>] = IF k < cur.k THEN "sq" ELSE "none"

PoolIdle == \A io \in Ios : chain[io] = "pool" => tocomplete[io] = 0
Unused   == \A io \in Ios \ ring.ios : chain[io] = "pool"
NoCount  == phase \in {"fill", "submit", "wait"} => count = 0

\* get_sqe has no room for what is asked of it, and must submit.
NoRoom == Busy /\ SqRoom < (IF cur.k = 1 /\ Peeked THEN ChainLen(Chain) ELSE 1)

\* Rings of fuseuring_run with five entries for every two slots.
Ample == RunSizes /\ 2 * ring.sq >= 5 * Cardinality(ring.ios)

\* get_sqe does not meet EBUSY, however often it submits from inside the reaping loop.
\* Not so on every ring of fuseuring_run, which asks for four entries for two slots: with
\* 64 slots on 128 and 256 entries a batch can make it, and BusyForGood then keeps the
\* worker where it is.
GetSqeNeverBusy == Ample => ~(NoRoom /\ Ebusy)

UInv ==
  /\ TypeOK /\ Queueing /\ PeekHolds /\ Accounted
  /\ PoolIdle /\ Unused /\ NoCount

-----------------------------------------------------------------------------
(* Finite sets of entries.                                                 *)

\* The ring a worker runs on.
LEMMA RingFacts ==
  ASSUME TypeOK
  PROVE  /\ ring.ios \subseteq Ios /\ IsFiniteSet(ring.ios) /\ ring.ios # {}
         /\ ring.sq \in Nat /\ ring.cq \in Nat /\ ring.sq >= 3 /\ ring.cq >= ring.sq
         /\ ring.kinds \subseteq Kinds /\ NoIo \notin Ios
<1>1. /\ ring \in [ios : SUBSET Ios, sq : Nat, cq : Nat,
                   kinds : SUBSET Kinds, faults : SUBSET FaultKinds]
      /\ ring.ios # {} /\ ring.sq >= 3 /\ ring.cq >= ring.sq
      /\ IsFiniteSet(Ios) /\ NoIo \notin Ios
  BY RingAssumption DEF TypeOK
<1>2. IsFiniteSet(ring.ios)
  BY <1>1, FS_Subset
<1>. QED
  BY <1>1, <1>2

\* A chain has three steps at most.
LEMMA ThreeSteps == IsFiniteSet(1..3) /\ Cardinality(1..3) = 3
<1>1. 1 \in Int /\ 3 \in Int
  OBVIOUS
<1>2. IsFiniteSet(1..3) /\ Cardinality(1..3) = IF 1 > 3 THEN 0 ELSE 3 - 1 + 1
  BY <1>1, FS_Interval, Zenon
<1>. QED
  BY <1>2

\* The entries can be counted.
LEMMA EntriesFinite == IsFiniteSet(Entries)
BY ThreeSteps, FS_Product, RingAssumption DEF Entries

\* The entries in one place can be counted.
LEMMA AtFacts ==
  ASSUME NEW p
  PROVE  IsFiniteSet(At(p)) /\ Cardinality(At(p)) \in Nat
<1>1. At(p) \in SUBSET Entries
  BY DEF At
<1>2. IsFiniteSet(At(p))
  BY <1>1, EntriesFinite, FS_Subset
<1>. QED
  BY <1>2, FS_CardinalityType

\* No more than three steps of a chain are out.
LEMMA OutFacts ==
  ASSUME NEW io
  PROVE  /\ IsFiniteSet(Out(io)) /\ Cardinality(Out(io)) \in 0..3
         /\ Cardinality(Out(io)) = 0 <=> Out(io) = {}
<1>1. IsFiniteSet(1..3) /\ Cardinality(1..3) = 3
  BY ThreeSteps
<1>2. Out(io) \in SUBSET (1..3)
  BY DEF Out
<1>3. IsFiniteSet(Out(io)) /\ Cardinality(Out(io)) <= 3
  BY <1>1, <1>2, FS_Subset
<1>4. Cardinality(Out(io)) \in Nat
  BY <1>3, FS_CardinalityType
<1>. QED
  BY <1>3, <1>4, FS_EmptySet

\* A chain has between one and three steps; only those of one step do without a peek.
LEMMA ChainFacts ==
  ASSUME NEW kind \in Kinds
  PROVE  /\ ChainLen(kind) \in 1..3
         /\ kind \in {"fuse_header", "rbytes"} <=> ChainLen(kind) = 1
         /\ Follow(kind) \subseteq Kinds
BY DEF Kinds, ChainLen, Follow

\* The room in the submission queue is a number.
LEMMA RoomFacts ==
  ASSUME TypeOK
  PROVE  SqRoom \in Int /\ CqRoom \in Int
BY AtFacts, RingFacts DEF TypeOK, SqRoom, SqUsed, CqRoom, CqUsed

-----------------------------------------------------------------------------
(* Steps that leave the submission queue alone, or empty it.               *)

\* What is out of a slot's chain depends on which of its entries are in no place.
LEMMA OutKept ==
  ASSUME NEW io \in Ios, \A e \in Entries : where'[e] = "none" <=> where[e] = "none"
  PROVE  Out(io)' = Out(io)
<1>1. \A k \in 1..3 : <<io, k>> \in Entries
  BY DEF Entries
<1>. QED
  BY <1>1 DEF Out

\* An entry that goes from one place to another, not through the submission queue.
LEMMA MoveKeeps ==
  ASSUME UInv, where' \in [Entries -> Places],
         \A e \in Entries : /\ where'[e] = "none" <=> where[e] = "none"
                            /\ where'[e] = "sq" <=> where[e] = "sq",
         UNCHANGED <<ring, chain, cur, tocomplete, stray, last_rc>>,
         phase' \in {"fill", "submit", "wait", "reap", "exit", "undefined"},
         Busy => phase' \in {"fill", "reap", "undefined"},
         count' \in Nat, NoCount', ring_submit' \in BOOLEAN
  PROVE  UInv'
<1>1. TypeOK'
  BY DEF UInv, TypeOK
<1>2. Queueing'
  <2>. SUFFICES ASSUME Busy PROVE Queueing'
    BY DEF Queueing, Busy
  <2>1. cur.io \in Ios
    BY RingFacts DEF UInv, Queueing
  <2>2. \A k \in 1..3 : where'[<<cur.io, k>>] = where[<<cur.io, k>>]
    <3>1. SUFFICES ASSUME NEW k \in 1..3
                   PROVE  where'[<<cur.io, k>>] = where[<<cur.io, k>>]
      OBVIOUS
    <3>2. <<cur.io, k>> \in Entries
      BY <2>1 DEF Entries
    <3>3. where[<<cur.io, k>>] \in {"sq", "none"}
      BY DEF UInv, Queueing
    <3>. QED
      BY <3>2, <3>3
  <2>. QED
    BY <2>2 DEF UInv, Queueing, Busy, Chain
<1>3. PeekHolds'
  <2>1. At("sq")' = At("sq")
    BY DEF At
  <2>2. SqRoom' = SqRoom
    BY <2>1 DEF SqRoom, SqUsed
  <2>. QED
    BY <2>2 DEF UInv, PeekHolds, Busy, Chain
<1>4. Accounted'
  <2>1. \A io \in Ios : Out(io)' = Out(io)
    BY OutKept
  <2>. QED
    BY <2>1 DEF UInv, Accounted, Out
<1>5. PoolIdle' /\ Unused'
  BY DEF UInv, PoolIdle, Unused
<1>. QED
  BY <1>1, <1>2, <1>3, <1>4, <1>5 DEF UInv

\* A submission that does not come in the middle of a chain.
LEMMA EnterKeeps ==
  ASSUME UInv, NEW next, EnterRings(next), Busy => cur.k = 1,
         next \in {"fill", "submit", "wait", "reap", "exit", "undefined"},
         Busy => next \in {"fill", "reap", "undefined"},
         next \in {"fill", "submit", "wait"} => count = 0,
         UNCHANGED <<ring, chain, cur, tocomplete, count, last_rc>>, ring_submit' \in BOOLEAN
  PROVE  UInv'
<1>1. where' = Entered /\ stray' = 0 /\ phase' \in {next, "undefined"}
  BY DEF EnterRings
<1>2. /\ where' \in [Entries -> Places]
      /\ \A e \in Entries : where'[e] = "none" <=> where[e] = "none"
  BY <1>1 DEF UInv, TypeOK, Entered, Places
<1>3. TypeOK'
  BY <1>1, <1>2 DEF UInv, TypeOK
<1>4. Queueing'
  <2>. SUFFICES ASSUME Busy PROVE Queueing'
    BY DEF Queueing, Busy
  <2>1. cur.io \in Ios /\ cur.k = 1
    BY RingFacts DEF UInv, Queueing
  <2>2. \A k \in 1..3 : where[<<cur.io, k>>] = "none"
    BY <2>1 DEF UInv, Queueing
  <2>3. \A k \in 1..3 : <<cur.io, k>> \in Entries
    BY <2>1 DEF Entries
  <2>4. \A k \in 1..3 : where'[<<cur.io, k>>] = "none"
    BY <1>2, <2>2, <2>3
  <2>. QED
    BY <1>1, <2>1, <2>4 DEF UInv, Queueing, Busy, Chain
<1>5. PeekHolds'
  BY DEF PeekHolds, Busy
<1>6. Accounted'
  <2>1. \A io \in Ios : Out(io)' = Out(io)
    BY <1>2, OutKept
  <2>. QED
    BY <2>1 DEF UInv, Accounted, Out
<1>7. PoolIdle' /\ Unused' /\ NoCount'
  BY <1>1 DEF UInv, PoolIdle, Unused, NoCount
<1>. QED
  BY <1>3, <1>4, <1>5, <1>6, <1>7 DEF UInv

-----------------------------------------------------------------------------
(* Steps of a coroutine that queues a chain.                               *)

\* An entry is taken for the next step of the chain; the last one ends it.
LEMMA TakeKeeps ==
  ASSUME UInv, Busy, TakeSqe, UNCHANGED ring, ring_submit' \in BOOLEAN,
         SqRoom >= ChainLen(Chain) - cur.k + 1
  PROVE  UInv'
<1>. DEFINE e    == <<cur.io, cur.k>>
            last == cur.k = ChainLen(Chain)
<1>1. /\ where' = [where EXCEPT ![e] = "sq"]
      /\ cur' = IF last THEN Idle ELSE [cur EXCEPT !.k = @ + 1]
      /\ tocomplete' = IF last THEN [tocomplete EXCEPT ![cur.io] = cur.k] ELSE tocomplete
      /\ UNCHANGED <<phase, chain, count, stray, last_rc>>
  BY DEF TakeSqe
<1>2. /\ TypeOK /\ cur.io \in ring.ios /\ cur.io \in Ios /\ cur.k \in 1..3 /\ e \in Entries
      /\ Chain \in Kinds /\ ChainLen(Chain) \in 1..3 /\ cur.k <= ChainLen(Chain)
      /\ NoIo \notin Ios /\ phase \in {"fill", "reap", "undefined"}
  BY RingFacts, ChainFacts DEF UInv, Queueing, TypeOK, Entries
<1>3. where[e] = "none"
  BY <1>2 DEF UInv, Queueing
<1>4. /\ cur' \in [io : Ios \cup {NoIo}, k : 1..3]
      /\ last => cur' = Idle /\ cur'.io = NoIo
      /\ ~last => cur'.io = cur.io /\ cur'.k = cur.k + 1 /\ cur.k + 1 <= ChainLen(Chain)
  BY <1>1, <1>2 DEF TypeOK, Idle
<1>5. /\ where'[e] = "sq" /\ where' \in [Entries -> Places]
      /\ \A d \in Entries \ {e} : where'[d] = where[d]
  BY <1>1, <1>2 DEF TypeOK, Places
<1>. HIDE DEF e, last
<1>6. TypeOK'
  <2>1. tocomplete' \in [Ios -> 0..3]
    BY <1>1, <1>2 DEF TypeOK
  <2>. QED
    BY <1>1, <1>2, <1>4, <1>5, <2>1 DEF TypeOK
<1>7. SqRoom' = SqRoom - 1
  <2>1. At("sq")' = At("sq") \cup {e} /\ e \notin At("sq")
    BY <1>2, <1>3, <1>5 DEF At
  <2>2. Cardinality(At("sq") \cup {e}) = Cardinality(At("sq")) + 1
    BY <2>1, AtFacts, FS_AddElement
  <2>3. /\ Cardinality(At("sq")) \in Nat /\ stray \in Nat /\ ring.sq \in Nat
        /\ UNCHANGED <<stray, ring>>
    BY <1>1, <1>2, AtFacts, RingFacts DEF TypeOK
  <2>. DEFINE n == Cardinality(At("sq"))
  <2>4. SqRoom = ring.sq - (n + stray)
    BY DEF SqRoom, SqUsed
  <2>5. SqRoom' = ring.sq - ((n + 1) + stray)
    BY <2>1, <2>2, <2>3 DEF SqRoom, SqUsed
  <2>6. n \in Nat
    BY <2>3
  <2>. HIDE DEF n
  <2>. QED
    BY <2>3, <2>4, <2>5, <2>6
<1>8. \A k \in 1..3 : where'[<<cur.io, k>>] = IF k < cur.k + 1 THEN "sq" ELSE "none"
  <2>1. SUFFICES ASSUME NEW k \in 1..3
                 PROVE  where'[<<cur.io, k>>] = IF k < cur.k + 1 THEN "sq" ELSE "none"
    OBVIOUS
  <2>2. CASE k = cur.k
    BY <1>2, <1>5, <2>2 DEF e
  <2>3. CASE k # cur.k
    <3>1. where'[<<cur.io, k>>] = where[<<cur.io, k>>]
      <4>1. <<cur.io, k>> \in Entries /\ <<cur.io, k>> # e
        BY <1>2, <2>3 DEF Entries, e
      <4>. QED
        BY <1>5, <4>1
    <3>2. where[<<cur.io, k>>] = IF k < cur.k THEN "sq" ELSE "none"
      BY DEF UInv, Queueing
    <3>. QED
      BY <1>2, <2>3, <3>1, <3>2
  <2>. QED
    BY <2>2, <2>3
<1>9. Queueing'
  <2>1. CASE last
    BY <1>2, <1>4, <2>1 DEF Queueing, Busy
  <2>2. CASE ~last
    <3>1. cur'.io = cur.io /\ cur'.k = cur.k + 1 /\ tocomplete' = tocomplete
      BY <1>1, <1>4, <2>2
    <3>. QED
      BY <1>1, <1>2, <1>4, <1>8, <2>2, <3>1 DEF UInv, Queueing, Chain
  <2>. QED
    BY <2>1, <2>2
<1>10. PeekHolds'
  <2>1. CASE last
    BY <1>4, <2>1 DEF PeekHolds, Busy
  <2>2. CASE ~last
    <3>1. SqRoom \in Int
      BY <1>2, RoomFacts
    <3>2. cur'.k = cur.k + 1 /\ Chain' = Chain
      BY <1>1, <1>4, <2>2 DEF Chain
    <3>. HIDE DEF SqRoom
    <3>. QED
      BY <1>2, <1>7, <3>1, <3>2 DEF PeekHolds
  <2>. QED
    BY <2>1, <2>2
<1>11. Accounted'
  <2>1. SUFFICES ASSUME NEW io \in Ios, cur'.io # io
                 PROVE  tocomplete'[io] = Cardinality(Out(io)')
    BY DEF Accounted, Out
  <2>2. CASE io # cur.io
    <3>1. \A k \in 1..3 : <<io, k>> \in Entries /\ <<io, k>> # e
      BY <2>2 DEF Entries, e
    <3>2. Out(io)' = Out(io)
      BY <1>5, <3>1 DEF Out
    <3>3. tocomplete'[io] = tocomplete[io]
      BY <1>1, <1>2, <2>2 DEF TypeOK
    <3>. QED
      BY <2>2, <3>2, <3>3 DEF UInv, Accounted, Out
  <2>3. CASE io = cur.io
    <3>1. last
      BY <1>4, <2>1, <2>3
    <3>2. tocomplete'[io] = cur.k
      BY <1>1, <1>2, <2>3, <3>1 DEF TypeOK
    <3>3. Out(io)' = 1..cur.k
      BY <1>2, <1>8, <2>3 DEF Out
    <3>4. 1 \in Int /\ cur.k \in Int /\ ~(1 > cur.k) /\ cur.k - 1 + 1 = cur.k
      BY <1>2
    <3>5. Cardinality(1..cur.k) = cur.k
      BY <3>4, FS_Interval, Zenon
    <3>. QED
      BY <3>2, <3>3, <3>5
  <2>. QED
    BY <2>2, <2>3
<1>12. PoolIdle' /\ Unused' /\ NoCount'
  <2>1. Chain # "pool"
    BY <1>2 DEF Kinds
  <2>. QED
    BY <1>1, <1>2, <2>1 DEF UInv, PoolIdle, Unused, NoCount, TypeOK, Chain
<1>. QED
  BY <1>6, <1>9, <1>10, <1>11, <1>12 DEF UInv

\* A coroutine that gets no entry for its first step returns, and leaves nothing behind.
LEMMA FailKeeps ==
  ASSUME UInv, Busy, cur.k = 1, Return(cur.io, -1), cur' = Idle,
         where' \in [Entries -> Places],
         \A e \in Entries : where'[e] = "none" <=> where[e] = "none",
         UNCHANGED <<ring, tocomplete, count>>, phase' \in {phase, "undefined"},
         stray' \in Nat, ring_submit' \in BOOLEAN
  PROVE  UInv'
<1>1. /\ chain' = [chain EXCEPT ![cur.io] = "pool"] /\ last_rc' = -1
  BY DEF Return
<1>2. /\ TypeOK /\ cur.io \in ring.ios /\ cur.io \in Ios /\ NoIo \notin Ios
      /\ tocomplete[cur.io] = 0 /\ \A k \in 1..3 : where[<<cur.io, k>>] = "none"
  BY RingFacts DEF UInv, Queueing
<1>3. ~Busy' /\ cur'.io = NoIo
  BY DEF Idle, Busy
<1>4. TypeOK'
  BY <1>1, <1>2 DEF TypeOK, Idle
<1>5. Queueing' /\ PeekHolds'
  BY <1>3 DEF Queueing, PeekHolds
<1>6. Accounted'
  <2>1. SUFFICES ASSUME NEW io \in Ios PROVE tocomplete[io] = Cardinality(Out(io))
    <3>1. \A io \in Ios : Out(io)' = Out(io)
      BY OutKept
    <3>. QED
      BY <2>1, <3>1 DEF Accounted, Out
  <2>2. CASE io # cur.io
    BY <2>2 DEF UInv, Accounted, Out
  <2>3. CASE io = cur.io
    <3>1. Out(io) = {}
      BY <1>2, <2>3 DEF Out
    <3>. QED
      BY <1>2, <2>3, <3>1, OutFacts
  <2>. QED
    BY <2>2, <2>3
<1>7. PoolIdle' /\ Unused'
  BY <1>1, <1>2 DEF UInv, PoolIdle, Unused, TypeOK
<1>8. NoCount'
  BY DEF UInv, NoCount
<1>. QED
  BY <1>4, <1>5, <1>6, <1>7, <1>8 DEF UInv

\* Each call of get_sqe.
LEMMA GetSqeKeeps ==
  ASSUME UInv, GetSqe, UNCHANGED ring
  PROVE  UInv'
<1>1. /\ TypeOK /\ Busy /\ cur.k \in 1..3 /\ ChainLen(Chain) \in 1..3
      /\ cur.k <= ChainLen(Chain) /\ phase \in {"fill", "reap", "undefined"}
      /\ Chain \in Kinds /\ SqRoom \in Int /\ NoCount
  BY ChainFacts, RoomFacts DEF UInv, Queueing, TypeOK, GetSqe, get_sqe_peek,
     get_sqe_peek_submit, get_sqe_peek_ebusy, get_sqe_peek_fail, get_sqe_peek_fail_submit,
     get_sqe, get_sqe_submit, get_sqe_fail, Single
<1>. HIDE DEF SqRoom
<1>2. cur.k > 1 => SqRoom >= ChainLen(Chain) - cur.k + 1 /\ SqRoom >= 1
  BY <1>1 DEF UInv, PeekHolds
<1>3. \A S : where' = Flushed(S) /\ S \subseteq At("overflow") =>
        /\ where' \in [Entries -> Places]
        /\ \A e \in Entries : /\ where'[e] = "none" <=> where[e] = "none"
                              /\ where'[e] = "sq" <=> where[e] = "sq"
  BY <1>1 DEF Flushed, At, TypeOK, Places
<1>4. CASE get_sqe_peek
  BY <1>1, <1>4, TakeKeeps DEF get_sqe_peek, TypeOK
<1>5. CASE get_sqe_peek_submit
  <2>1. EnterRings(phase) /\ cur.k = 1
        /\ UNCHANGED <<cur, chain, tocomplete, count, ring_submit, last_rc>>
    BY <1>5 DEF get_sqe_peek_submit
  <2>2. ring_submit' \in BOOLEAN
    BY <1>1, <2>1 DEF TypeOK
  <2>. QED
    BY <1>1, <2>1, <2>2, EnterKeeps DEF NoCount
<1>6. CASE get_sqe_peek_ebusy
  <2>1. PICK S \in SUBSET At("overflow") : where' = Flushed(S)
    BY <1>6 DEF get_sqe_peek_ebusy
  <2>2. UNCHANGED <<phase, cur, chain, tocomplete, count, ring_submit, stray, last_rc>>
    BY <1>6 DEF get_sqe_peek_ebusy
  <2>3. phase' \in {"fill", "submit", "wait", "reap", "exit", "undefined"}
        /\ count' \in Nat /\ ring_submit' \in BOOLEAN /\ NoCount'
    BY <1>1, <2>2 DEF TypeOK, NoCount
  <2>. QED
    BY <1>1, <1>3, <2>1, <2>2, <2>3, MoveKeeps
<1>7. CASE get_sqe_peek_fail
  <2>1. /\ Return(cur.io, -1) /\ cur' = Idle /\ cur.k = 1
        /\ UNCHANGED <<phase, tocomplete, count>>
        /\ stray' \in {stray, stray + 1} /\ ring_submit' \in {ring_submit, TRUE}
    BY <1>1, <1>7 DEF get_sqe_peek_fail, TypeOK
  <2>2. PICK S \in SUBSET At("overflow") : where' = Flushed(S)
    BY <1>7 DEF get_sqe_peek_fail
  <2>3. stray' \in Nat
    BY <1>1, <2>1 DEF TypeOK
  <2>4. ring_submit' \in BOOLEAN
    BY <1>1, <2>1 DEF TypeOK
  <2>. QED
    BY <1>1, <1>3, <2>1, <2>2, <2>3, <2>4, FailKeeps
<1>8. CASE get_sqe_peek_fail_submit
  <2>1. /\ Return(cur.io, -1) /\ cur' = Idle /\ cur.k = 1 /\ where' = Entered
        /\ phase' \in {phase, "undefined"} /\ stray' = 1 /\ ring_submit' = TRUE
        /\ UNCHANGED <<tocomplete, count>>
    BY <1>8 DEF get_sqe_peek_fail_submit
  <2>2. /\ where' \in [Entries -> Places]
        /\ \A e \in Entries : where'[e] = "none" <=> where[e] = "none"
    BY <1>1, <2>1 DEF TypeOK, Entered, Places
  <2>. QED
    BY <1>1, <2>1, <2>2, FailKeeps
<1>9. CASE get_sqe
  <2>1. TakeSqe /\ ring_submit' = TRUE /\ SqRoom >= 1 /\ (cur.k > 1 \/ ~Peeked)
    BY <1>9 DEF get_sqe, Single
  <2>2. SqRoom >= ChainLen(Chain) - cur.k + 1
    <3>1. CASE cur.k > 1
      BY <1>2, <3>1
    <3>2. CASE cur.k = 1 /\ ~Peeked
      <4>1. ChainLen(Chain) = 1
        BY <1>1, <3>2, ChainFacts DEF Peeked
      <4>. QED
        BY <1>1, <2>1, <3>2, <4>1
    <3>. QED
      BY <1>1, <2>1, <3>1, <3>2
  <2>. QED
    BY <1>1, <2>1, <2>2, TakeKeeps
<1>10. CASE get_sqe_submit
  <2>1. /\ EnterRings(phase) /\ SqRoom < 1 /\ ring_submit' = TRUE
        /\ UNCHANGED <<cur, chain, tocomplete, count, last_rc>>
    BY <1>10 DEF get_sqe_submit
  <2>2. cur.k = 1
    BY <1>1, <1>2, <2>1
  <2>. QED
    BY <1>1, <2>1, <2>2, EnterKeeps DEF NoCount
<1>11. CASE get_sqe_fail
  <2>1. /\ Return(cur.io, -1) /\ cur' = Idle /\ SqRoom < 1
        /\ UNCHANGED <<tocomplete, count, stray>> /\ ring_submit' = TRUE
        /\ phase' \in {phase, "undefined"}
    BY <1>11 DEF get_sqe_fail
  <2>2. PICK S \in SUBSET At("overflow") : where' = Flushed(S)
    BY <1>11 DEF get_sqe_fail
  <2>3. cur.k = 1
    BY <1>1, <1>2, <2>1
  <2>4. stray' \in Nat
    BY <1>1, <2>1 DEF TypeOK
  <2>. QED
    BY <1>1, <1>3, <2>1, <2>2, <2>3, <2>4, FailKeeps
<1>. QED
  BY <1>4, <1>5, <1>6, <1>7, <1>9, <1>10, <1>11, <1>8 DEF GetSqe

-----------------------------------------------------------------------------
(* The loop.                                                               *)

\* A coroutine that is started has no chain yet.
LEMMA QueueReadKeeps ==
  ASSUME UInv, NEW io \in ring.ios, queue_read(io), UNCHANGED ring
  PROVE  UInv'
<1>1. /\ TypeOK /\ io \in Ios /\ NoIo \notin Ios /\ cur.io = NoIo /\ phase = "fill"
      /\ chain[io] = "pool" /\ tocomplete[io] = 0
      /\ chain' = [chain EXCEPT ![io] = "fuse_read"] /\ cur' = [io |-> io, k |-> 1]
      /\ UNCHANGED <<phase, where, tocomplete, count, ring_submit, stray, last_rc>>
  BY RingFacts DEF UInv, PoolIdle, queue_read, Begin, Busy
<1>2. Out(io) = {}
  BY <1>1, OutFacts DEF UInv, Accounted, Out
<1>3. TypeOK'
  BY <1>1 DEF TypeOK, Kinds
<1>4. Queueing'
  <2>1. \A k \in 1..3 : where'[<<io, k>>] = "none"
    BY <1>1, <1>2 DEF Out
  <2>2. Chain' = "fuse_read" /\ Chain' \in Kinds
    BY <1>1 DEF Chain, TypeOK, Kinds
  <2>3. 1 <= ChainLen("fuse_read")
    BY DEF ChainLen
  <2>. QED
    BY <1>1, <2>1, <2>2, <2>3 DEF Queueing
<1>5. PeekHolds'
  BY <1>1 DEF PeekHolds
<1>6. Accounted'
  BY <1>1 DEF UInv, Accounted
<1>7. PoolIdle' /\ Unused' /\ NoCount'
  BY <1>1 DEF UInv, PoolIdle, Unused, NoCount, TypeOK
<1>. QED
  BY <1>3, <1>4, <1>5, <1>6, <1>7 DEF UInv

\* A completion is reaped; the last one of a chain resumes its coroutine.
LEMMA CqeKeeps ==
  ASSUME UInv, NEW e \in Entries, handle_cqe(e), UNCHANGED ring
  PROVE  UInv'
<1>. DEFINE io   == e[1]
            k    == e[2]
            left == tocomplete[io] - 1
<1>1. /\ TypeOK /\ io \in Ios /\ k \in 1..3 /\ e = <<io, k>> /\ NoIo \notin Ios
      /\ phase = "reap" /\ cur.io = NoIo /\ where[e] = "cq"
      /\ where' = [where EXCEPT ![e] = "none"]
      /\ tocomplete' = [tocomplete EXCEPT ![io] = left]
      /\ count' = count + 1 /\ UNCHANGED <<phase, ring_submit, stray>>
  BY RingFacts DEF UInv, handle_cqe, Busy, Entries
<1>. HIDE DEF io, k
<1>2. tocomplete[io] = Cardinality(Out(io)) /\ k \in Out(io)
  BY <1>1 DEF UInv, Accounted, Out
<1>3. left \in 0..2
  <2>1. Out(io) # {}
    BY <1>2
  <2>. QED
    BY <1>2, <2>1, OutFacts
<1>4. chain[io] # "pool" /\ chain[io] \in Kinds /\ io \in ring.ios
  <2>1. tocomplete[io] # 0
    BY <1>1, <1>3 DEF TypeOK
  <2>. QED
    BY <1>1, <2>1 DEF UInv, PoolIdle, Unused, TypeOK
<1>5. /\ where' \in [Entries -> Places] /\ where'[e] = "none"
      /\ \A d \in Entries \ {e} : where'[d] = where[d]
  BY <1>1 DEF TypeOK, Places
<1>6. Out(io)' = Out(io) \ {k} /\ Cardinality(Out(io)') = left
  <2>1. ASSUME NEW j \in 1..3 PROVE j \in Out(io)' <=> j \in Out(io) \ {k}
    <3>1. CASE j = k
      BY <1>1, <1>5, <3>1 DEF Out
    <3>2. CASE j # k
      <4>1. <<io, j>> \in Entries /\ <<io, j>> # e
        BY <1>1, <3>2 DEF Entries
      <4>. QED
        BY <1>5, <3>2, <4>1 DEF Out
    <3>. QED
      BY <3>1, <3>2
  <2>2. Out(io)' \subseteq 1..3 /\ Out(io) \subseteq 1..3
    BY DEF Out
  <2>3. Out(io)' = Out(io) \ {k}
    BY <2>1, <2>2
  <2>4. Cardinality(Out(io) \ {k}) = Cardinality(Out(io)) - 1
    BY <1>2, OutFacts, FS_RemoveElement
  <2>. QED
    BY <1>2, <2>3, <2>4
<1>7. \/ UNCHANGED <<cur, chain, last_rc>> /\ left > 0
      \/ /\ left = 0 /\ UNCHANGED cur
         /\ chain' = [chain EXCEPT ![io] = "pool"] /\ last_rc' \in {0, -1}
      \/ /\ left = 0 /\ UNCHANGED last_rc
         /\ \E kind \in Kinds : /\ chain' = [chain EXCEPT ![io] = kind]
                                /\ cur' = [io |-> io, k |-> 1]
  <2>1. Follow(chain[io]) \subseteq Kinds
    BY <1>4, ChainFacts
  <2>. QED
    BY <1>1, <2>1 DEF handle_cqe, Return, Begin, TypeOK, io, left
<1>8. TypeOK'
  <2>1. tocomplete' \in [Ios -> 0..3]
    BY <1>1, <1>3 DEF TypeOK
  <2>2. chain' \in [Ios -> Kinds \cup {"pool"}] /\ last_rc' \in {0, -1}
    BY <1>1, <1>7 DEF TypeOK
  <2>3. cur' \in [io : Ios \cup {NoIo}, k : 1..3]
    BY <1>1, <1>7 DEF TypeOK
  <2>. QED
    BY <1>1, <1>5, <2>1, <2>2, <2>3 DEF TypeOK
<1>9. tocomplete'[io] = left
  BY <1>1 DEF TypeOK
<1>10. Accounted'
  <2>1. SUFFICES ASSUME NEW i \in Ios PROVE tocomplete'[i] = Cardinality(Out(i)')
    BY DEF Accounted, Out
  <2>2. CASE i = io
    BY <1>6, <1>9, <2>2
  <2>3. CASE i # io
    <3>1. \A j \in 1..3 : <<i, j>> \in Entries /\ <<i, j>> # e
      BY <1>1, <2>3 DEF Entries
    <3>2. Out(i)' = Out(i)
      BY <1>5, <3>1 DEF Out
    <3>3. tocomplete'[i] = tocomplete[i] /\ cur.io # i
      BY <1>1, <2>3 DEF TypeOK
    <3>. QED
      BY <3>2, <3>3 DEF UInv, Accounted, Out
  <2>. QED
    BY <2>2, <2>3
<1>11. PeekHolds'
  BY <1>1, <1>7 DEF PeekHolds, Busy
<1>. HIDE DEF left
<1>12. Queueing'
  <2>1. CASE UNCHANGED cur
    BY <1>1, <2>1 DEF Queueing, Busy
  <2>2. ASSUME left = 0, NEW kind \in Kinds, chain' = [chain EXCEPT ![io] = kind],
               cur' = [io |-> io, k |-> 1]
        PROVE  Queueing'
    <3>1. Out(io)' = {}
      <4>1. IsFiniteSet(Out(io) \ {k})
        BY OutFacts, FS_RemoveElement
      <4>. QED
        BY <1>6, <2>2, <4>1, FS_EmptySet
    <3>2. \A j \in 1..3 : where'[<<io, j>>] = "none"
      BY <3>1 DEF Out
    <3>3. Chain' = kind
      BY <1>1, <2>2 DEF Chain, TypeOK
    <3>4. 1 <= ChainLen(kind)
      BY ChainFacts
    <3>. QED
      BY <1>1, <1>4, <1>9, <2>2, <3>2, <3>3, <3>4 DEF Queueing
  <2>. QED
    BY <1>7, <2>1, <2>2
<1>13. PoolIdle'
  <2>1. SUFFICES ASSUME NEW i \in Ios, chain'[i] = "pool" PROVE tocomplete'[i] = 0
    BY DEF PoolIdle
  <2>2. CASE i = io
    <3>1. left = 0
      BY <1>1, <1>4, <1>7, <2>1, <2>2
    <3>. QED
      BY <1>9, <2>2, <3>1
  <2>3. CASE i # io
    <3>1. chain'[i] = chain[i] /\ tocomplete'[i] = tocomplete[i]
      BY <1>1, <1>7, <2>3 DEF TypeOK
    <3>. QED
      BY <2>1, <3>1 DEF UInv, PoolIdle
  <2>. QED
    BY <2>2, <2>3
<1>14. Unused' /\ NoCount'
  BY <1>1, <1>4, <1>7 DEF UInv, Unused, NoCount, TypeOK
<1>. QED
  BY <1>8, <1>10, <1>11, <1>12, <1>13, <1>14 DEF UInv

\* The other steps of run(), and those of the kernel.
LEMMA LoopKeeps ==
  ASSUME UInv, Loop, UNCHANGED ring
  PROVE  UInv'
<1>1. TypeOK /\ Queueing /\ NoCount
  BY DEF UInv
<1>2. CASE \E io \in ring.ios : queue_read(io)
  BY <1>2, QueueReadKeeps
<1>3. CASE \E e \in Entries : handle_cqe(e)
  BY <1>3, CqeKeeps
<1>4. CASE fuseuring_submit
  <2>1. /\ phase = "submit" /\ EnterRings("wait") /\ ring_submit' = FALSE
        /\ UNCHANGED <<cur, chain, tocomplete, count, last_rc>>
    BY <1>4 DEF fuseuring_submit
  <2>2. ~Busy /\ count = 0
    BY <1>1, <2>1 DEF Queueing, NoCount
  <2>. QED
    BY <2>1, <2>2, EnterKeeps
<1>5. CASE fuseuring_submit_ebusy
  <2>1. /\ phase = "submit" /\ phase' \in {"submit", "exit"}
        /\ UNCHANGED <<cur, chain, tocomplete, count, ring_submit, stray, last_rc>>
    BY <1>5 DEF fuseuring_submit_ebusy
  <2>2. PICK S \in SUBSET At("overflow") : where' = Flushed(S)
    BY <1>5 DEF fuseuring_submit_ebusy
  <2>3. /\ where' \in [Entries -> Places]
        /\ \A e \in Entries : /\ where'[e] = "none" <=> where[e] = "none"
                              /\ where'[e] = "sq" <=> where[e] = "sq"
    BY <1>1, <2>2 DEF Flushed, At, TypeOK, Places
  <2>4. ~Busy /\ count' \in Nat /\ ring_submit' \in BOOLEAN /\ NoCount'
    BY <1>1, <2>1 DEF Queueing, NoCount, TypeOK
  <2>. QED
    BY <2>1, <2>3, <2>4, MoveKeeps
<1>6. CASE filled \/ fuseuring_submit_fail \/ waited \/ cq_advance
  <2>1. /\ ~Busy /\ UNCHANGED <<where, chain, cur, tocomplete, stray, last_rc, ring_submit>>
        /\ phase' \in {"fill", "submit", "wait", "reap", "exit", "undefined"}
        /\ count' \in {count, 0}
        /\ NoCount'
    BY <1>1, <1>6 DEF filled, fuseuring_submit_fail, waited, cq_advance, slotVars, Queueing,
       NoCount
  <2>2. count' \in Nat /\ ring_submit' \in BOOLEAN /\ where' \in [Entries -> Places]
    BY <1>1, <2>1 DEF TypeOK
  <2>. QED
    BY <2>1, <2>2, MoveKeeps
<1>. QED
  BY <1>2, <1>3, <1>4, <1>5, <1>6 DEF Loop

\* The kernel completes a step.
LEMMA KernelKeeps ==
  ASSUME UInv, NEW io \in Ios, Kernel(io)
  PROVE  UInv'
<1>1. PICK k \in 1..3 : Complete(<<io, k>>)
  BY DEF Kernel
<1>. DEFINE e == <<io, k>>
<1>2. /\ e \in Entries /\ where[e] = "kernel" /\ TypeOK /\ UNCHANGED ring
      /\ where' = [where EXCEPT ![e] = IF CqRoom > 0 THEN "cq" ELSE "overflow"]
      /\ UNCHANGED <<phase, cur, chain, tocomplete, count, ring_submit, stray, last_rc>>
  BY <1>1 DEF Complete, Entries, UInv, Kernel
<1>. HIDE DEF e
<1>3. /\ where' \in [Entries -> Places]
      /\ \A d \in Entries : /\ where'[d] = "none" <=> where[d] = "none"
                            /\ where'[d] = "sq" <=> where[d] = "sq"
  BY <1>2 DEF TypeOK, Places
<1>4. /\ phase' \in {"fill", "submit", "wait", "reap", "exit", "undefined"}
      /\ Busy => phase' \in {"fill", "reap", "undefined"}
      /\ count' \in Nat /\ ring_submit' \in BOOLEAN /\ NoCount'
  BY <1>2 DEF UInv, TypeOK, Queueing, NoCount
<1>. QED
  BY <1>2, <1>3, <1>4, MoveKeeps

\* Nothing is queued at first.
LEMMA InitUring == Init => UInv
<1>. SUFFICES ASSUME Init PROVE UInv
  OBVIOUS
<1>1. TypeOK
  <2>1. cur \in [io : Ios \cup {NoIo}, k : 1..3]
    BY DEF Init, Idle
  <2>2. where \in [Entries -> Places]
    BY DEF Init, Places
  <2>3. chain \in [Ios -> Kinds \cup {"pool"}] /\ tocomplete \in [Ios -> 0..3]
    BY DEF Init
  <2>. QED
    BY <2>1, <2>2, <2>3 DEF Init, TypeOK
<1>2. ~Busy
  BY DEF Init, Idle, Busy
<1>3. Accounted
  <2>1. SUFFICES ASSUME NEW io \in Ios PROVE 0 = Cardinality(Out(io))
    BY DEF Init, Accounted, Out
  <2>2. Out(io) = {}
    BY DEF Init, Out, Entries
  <2>. QED
    BY <2>2, OutFacts
<1>4. Queueing /\ PeekHolds
  BY <1>2 DEF Queueing, PeekHolds
<1>5. PoolIdle /\ Unused /\ NoCount
  BY DEF Init, PoolIdle, Unused, NoCount
<1>. QED
  BY <1>1, <1>3, <1>4, <1>5 DEF UInv

\* Every step keeps the invariant.
LEMMA NextUring == UInv /\ [Next]_vars => UInv'
<1>. SUFFICES ASSUME UInv, [Next]_vars PROVE UInv'
  OBVIOUS
<1>1. CASE Worker
  BY <1>1, GetSqeKeeps, LoopKeeps DEF Worker
<1>2. CASE \E io \in Ios : Kernel(io)
  BY <1>2, KernelKeeps
<1>3. CASE UNCHANGED vars
  <2>1. /\ UNCHANGED <<ring, phase, cur, chain, where, tocomplete, count, ring_submit, stray,
                       last_rc>>
    BY <1>3 DEF vars, slotVars
  <2>2. /\ where' \in [Entries -> Places] /\ count' \in Nat /\ ring_submit' \in BOOLEAN
        /\ phase' \in {"fill", "submit", "wait", "reap", "exit", "undefined"}
        /\ Busy => phase' \in {"fill", "reap", "undefined"}
        /\ NoCount'
    BY <2>1 DEF UInv, TypeOK, Queueing, NoCount
  <2>. QED
    BY <2>1, <2>2, MoveKeeps
<1>. QED
  BY <1>1, <1>2, <1>3 DEF Next, Returned

\* The inductive invariant holds on every ring, whatever fails.
THEOREM UringInvariance == Spec => []UInv
BY InitUring, NextUring, PTL DEF Spec

\* Type correctness; in it, that IoUringAwaiterGlobalRes::tocomplete does not go below 0.
THEOREM UringTypes == Spec => []TypeOK
<1>1. UInv => TypeOK
  BY DEF UInv
<1>. QED
  BY <1>1, UringInvariance, PTL

\* A coroutine is resumed exactly when no step of its chain is left anywhere.
THEOREM StepsAccounted == Spec => []Accounted
<1>1. UInv => Accounted
  BY DEF UInv
<1>. QED
  BY <1>1, UringInvariance, PTL

\* The peek of the first get_sqe makes the further ones of the chain succeed.
THEOREM PeekSuffices == Spec => []PeekHolds
<1>1. UInv => PeekHolds
  BY DEF UInv
<1>. QED
  BY <1>1, UringInvariance, PTL

\* No submission comes between the entries of a chain.
THEOREM ChainsTogether == Spec => []ChainTogether
<1>1. UInv => ChainTogether
  <2>. SUFFICES ASSUME UInv, Busy, NEW k \in 1..(cur.k - 1)
                PROVE  where[<<cur.io, k>>] = "sq"
    BY DEF ChainTogether
  <2>1. cur.k \in 1..3
    BY DEF UInv, TypeOK
  <2>2. k \in 1..3 /\ k < cur.k
    BY <2>1
  <2>. QED
    BY <2>2 DEF UInv, Queueing
<1>. QED
  BY <1>1, UringInvariance, PTL

-----------------------------------------------------------------------------
(* EBUSY.                                                                  *)

\* The entries the kernel has to complete or has completed, and the room they need in
\* the completion queue until the loop gives back what it has reaped.
Gone  == {e \in Entries : where[e] \in {"kernel", "cq", "overflow"}}
Taken == Cardinality(Gone) + count
Slots == Cardinality(ring.ios)

\* An entry that is out belongs to a slot in use, whose coroutine awaits or queues it.
LEMMA OutInRing ==
  ASSUME UInv, NEW e \in Entries, where[e] # "none"
  PROVE  e[1] \in ring.ios /\ e[2] \in 1..3 /\ e = <<e[1], e[2]>>
<1>1. e[1] \in Ios /\ e[2] \in 1..3 /\ e = <<e[1], e[2]>>
  BY DEF Entries
<1>2. CASE cur.io = e[1]
  BY <1>1, <1>2, RingFacts DEF UInv, Queueing, Busy
<1>3. CASE cur.io # e[1]
  <2>1. e[2] \in Out(e[1])
    BY <1>1 DEF Out
  <2>2. tocomplete[e[1]] # 0
    <3>1. Cardinality(Out(e[1])) # 0
      BY <2>1, OutFacts
    <3>. QED
      BY <1>1, <1>3, <3>1 DEF UInv, Accounted, Out
  <2>. QED
    BY <1>1, <2>2 DEF UInv, PoolIdle, Unused
<1>. QED
  BY <1>2, <1>3

\* The number of slots.
LEMMA SlotsFacts ==
  ASSUME TypeOK
  PROVE  /\ IsFiniteSet(ring.ios) /\ Slots \in Nat /\ ring.sq \in Nat /\ ring.cq \in Nat
         /\ Ample => RunSizes /\ 2 * ring.sq >= 5 * Slots
         /\ RunSizes => ring.sq >= 2 * Slots /\ ring.cq = 2 * ring.sq
BY RingFacts, FS_CardinalityType DEF Slots, RunSizes, Ample

\* At most three entries of each slot are gone.
LEMMA GoneFacts ==
  ASSUME UInv
  PROVE  IsFiniteSet(Gone) /\ Cardinality(Gone) \in Nat /\ Cardinality(Gone) <= 3 * Slots
<1>. DEFINE All == ring.ios \X (1..3)
<1>1. IsFiniteSet(ring.ios) /\ Slots \in Nat
  BY SlotsFacts DEF UInv
<1>2. IsFiniteSet(All) /\ Cardinality(All) = Slots * 3
  BY <1>1, ThreeSteps, FS_Product DEF Slots
<1>3. Gone \subseteq All
  BY OutInRing DEF Gone
<1>. HIDE DEF All
<1>4. IsFiniteSet(Gone) /\ Cardinality(Gone) <= Cardinality(All)
  BY <1>2, <1>3, FS_Subset
<1>5. Cardinality(Gone) \in Nat
  BY <1>4, FS_CardinalityType
<1>. QED
  BY <1>1, <1>2, <1>4, <1>5

\* Completions that all have room in the completion queue are no reason for EBUSY.
LEMMA RoomForAll ==
  ASSUME UInv, Taken <= ring.cq
  PROVE  ~Ebusy
<1>. DEFINE o == Cardinality(At("overflow"))
            c == Cardinality(At("cq"))
            g == Cardinality(Gone)
<1>1. /\ IsFiniteSet(At("overflow")) /\ o \in Nat
      /\ IsFiniteSet(At("cq")) /\ c \in Nat
  BY AtFacts
<1>2. IsFiniteSet(Gone) /\ g \in Nat
  BY GoneFacts
<1>3. ring.cq \in Nat /\ count \in Nat
  BY RingFacts DEF UInv, TypeOK
<1>4. At("overflow") \cap At("cq") = {}
  BY DEF At
<1>5. Cardinality(At("overflow") \cup At("cq")) = o + c - 0
  BY <1>1, <1>4, FS_Union, FS_EmptySet
<1>6. At("overflow") \cup At("cq") \subseteq Gone
  BY DEF At, Gone
<1>7. Cardinality(At("overflow") \cup At("cq")) <= g
  BY <1>2, <1>6, FS_Subset
<1>8. CqRoom = ring.cq - (c + count)
  BY DEF CqRoom, CqUsed
<1>9. g + count <= ring.cq
  BY DEF Taken
<1>10. ~(o > CqRoom)
  <2>. HIDE DEF o, c, g
  <2>. QED
    BY <1>1, <1>2, <1>3, <1>5, <1>7, <1>8, <1>9
<1>. QED
  BY <1>10 DEF Ebusy

\* With the ring of fuseuring_run there is room for every completion when the loop goes to
\* wait: at most three for each slot, where the queue holds four.
LEMMA RoomToWait ==
  ASSUME UInv, RunSizes, phase = "submit"
  PROVE  ~Ebusy
<1>1. /\ Slots \in Nat /\ ring.sq \in Nat /\ ring.cq \in Nat
      /\ ring.sq >= 2 * Slots /\ ring.cq = 2 * ring.sq
  BY SlotsFacts DEF UInv
<1>2. count = 0
  BY DEF UInv, NoCount
<1>3. Taken <= ring.cq
  BY <1>1, <1>2, GoneFacts DEF Taken
<1>. QED
  BY <1>3, RoomForAll

\* fuseuring_submit never meets EBUSY on a ring sized by fuseuring_run, for any number of
\* slots.
THEOREM WaitsWithRoom == Spec => []WaitNeverBusy
<1>1. UInv => WaitNeverBusy
  BY RoomToWait DEF WaitNeverBusy
<1>. QED
  BY <1>1, UringInvariance, PTL

\* A step that leaves the submission queue and the coroutine alone leaves the lack of room.
LEMMA LackStays ==
  ASSUME MetEbusy, UNCHANGED <<ring, cur, chain, stray>>, Ebusy',
         \A e \in Entries : where'[e] = "sq" <=> where[e] = "sq"
  PROVE  MetEbusy'
<1>1. At("sq")' = At("sq")
  BY DEF At
<1>2. SqRoom' = SqRoom
  BY <1>1 DEF SqRoom, SqUsed
<1>. QED
  BY <1>2 DEF MetEbusy, Busy, Peeked, Chain

\* Going round again moves as many completions as there is room for, and there are more.
LEMMA RoundAgain ==
  ASSUME UInv, MetEbusy, get_sqe_peek_ebusy, UNCHANGED ring
  PROVE  MetEbusy'
<1>1. PICK S \in SUBSET At("overflow") : Flushable(S) /\ where' = Flushed(S)
  BY DEF get_sqe_peek_ebusy
<1>2. Ebusy /\ Cardinality(S) = CqRoom /\ UNCHANGED <<cur, chain, stray, count>>
  BY <1>1 DEF get_sqe_peek_ebusy, MetEbusy, Flushable
<1>. DEFINE o == Cardinality(At("overflow"))
            c == Cardinality(At("cq"))
            m == Cardinality(S)
<1>3. IsFiniteSet(S) /\ m \in Nat
  BY AtFacts, FS_Subset, FS_CardinalityType
<1>4. /\ At("overflow")' = At("overflow") \ S
      /\ At("cq")' = At("cq") \cup S /\ At("cq") \cap S = {}
      /\ \A e \in Entries : where'[e] = "sq" <=> where[e] = "sq"
  BY <1>1 DEF Flushed, At
<1>5. o \in Nat /\ c \in Nat /\ IsFiniteSet(At("overflow")) /\ IsFiniteSet(At("cq"))
  BY AtFacts
<1>6. Cardinality(At("overflow") \ S) = o - m
  <2>1. At("overflow") \cap S = S
    BY <1>1
  <2>. QED
    BY <1>5, <2>1, FS_Difference
<1>7. Cardinality(At("cq") \cup S) = c + m - 0
  BY <1>3, <1>4, <1>5, FS_Union, FS_EmptySet
<1>8. CqRoom = ring.cq - (c + count) /\ CqRoom' = ring.cq - ((c + m - 0) + count)
  BY <1>2, <1>4, <1>7 DEF CqRoom, CqUsed
<1>9. ring.cq \in Nat /\ count \in Nat
  BY RingFacts DEF UInv, TypeOK
<1>10. o > CqRoom /\ m = CqRoom
  BY <1>2 DEF Ebusy
<1>11. o - m > CqRoom'
  <2>. HIDE DEF o, c, m, CqRoom
  <2>. QED
    BY <1>3, <1>5, <1>8, <1>9, <1>10
<1>12. Ebusy'
  BY <1>4, <1>6, <1>11 DEF Ebusy
<1>. QED
  BY <1>2, <1>4, <1>12, LackStays

\* A further completion takes room in the completion queue, or waits with the others.
LEMMA OneMore ==
  ASSUME UInv, MetEbusy, NEW e \in Entries, Complete(e), UNCHANGED ring
  PROVE  MetEbusy'
<1>1. /\ where[e] = "kernel" /\ UNCHANGED <<cur, chain, stray, count>>
      /\ where' = [where EXCEPT ![e] = IF CqRoom > 0 THEN "cq" ELSE "overflow"]
      /\ where \in [Entries -> Places] /\ Ebusy
  BY DEF Complete, UInv, TypeOK, MetEbusy
<1>2. \A d \in Entries : where'[d] = "sq" <=> where[d] = "sq"
  BY <1>1
<1>. DEFINE o == Cardinality(At("overflow"))
            c == Cardinality(At("cq"))
<1>3. o \in Nat /\ c \in Nat /\ IsFiniteSet(At("overflow")) /\ IsFiniteSet(At("cq"))
  BY AtFacts
<1>4. ring.cq \in Nat /\ count \in Nat /\ CqRoom = ring.cq - (c + count) /\ o > CqRoom
  BY <1>1, RingFacts DEF UInv, TypeOK, CqRoom, CqUsed, Ebusy
<1>5. CASE CqRoom > 0
  <2>1. /\ At("overflow")' = At("overflow")
        /\ At("cq")' = At("cq") \cup {e} /\ e \notin At("cq")
    BY <1>1, <1>5 DEF At
  <2>2. Cardinality(At("cq") \cup {e}) = c + 1
    BY <1>3, <2>1, FS_AddElement
  <2>3. CqRoom' = ring.cq - ((c + 1) + count)
    BY <1>1, <2>1, <2>2 DEF CqRoom, CqUsed
  <2>4. o > CqRoom'
    <3>. HIDE DEF o, c, CqRoom
    <3>. QED
      BY <1>3, <1>4, <2>3
  <2>5. Ebusy'
    BY <2>1, <2>4 DEF Ebusy
  <2>. QED
    BY <1>1, <1>2, <2>5, LackStays
<1>6. CASE ~(CqRoom > 0)
  <2>1. /\ At("overflow")' = At("overflow") \cup {e} /\ e \notin At("overflow")
        /\ At("cq")' = At("cq")
    BY <1>1, <1>6 DEF At
  <2>2. Cardinality(At("overflow") \cup {e}) = o + 1
    BY <1>3, <2>1, FS_AddElement
  <2>3. CqRoom' = CqRoom
    BY <1>1, <2>1 DEF CqRoom, CqUsed
  <2>4. o + 1 > CqRoom
    <3>. HIDE DEF o, c, CqRoom
    <3>. QED
      BY <1>3, <1>4
  <2>5. Ebusy'
    BY <2>1, <2>2, <2>3, <2>4 DEF Ebusy
  <2>. QED
    BY <1>1, <1>2, <2>5, LackStays
<1>. QED
  BY <1>5, <1>6

\* No step of the thread or of the kernel helps a get_sqe that has met EBUSY.
LEMMA MetStays ==
  ASSUME UInv, [Next]_vars, MetEbusy, "submit_error" \notin ring.faults
  PROVE  MetEbusy'
<1>1. Busy /\ phase \in {"fill", "reap", "undefined"} /\ cur.k = 1 /\ Peeked
      /\ SqRoom < ChainLen(Chain) /\ Ebusy /\ SqRoom \in Int /\ ChainLen(Chain) \in 1..3
  BY RoomFacts, ChainFacts DEF UInv, Queueing, MetEbusy
<1>2. CASE Worker
  <2>1. ~Loop
    BY <1>1 DEF Loop, queue_read, filled, fuseuring_submit, fuseuring_submit_ebusy,
       fuseuring_submit_fail, waited, handle_cqe, cq_advance
  <2>2. ~get_sqe_peek
    <3>. HIDE DEF SqRoom
    <3>. QED
      BY <1>1 DEF get_sqe_peek
  <2>3. get_sqe_peek_ebusy /\ UNCHANGED ring
    BY <1>1, <1>2, <2>1, <2>2 DEF Worker, GetSqe, get_sqe_peek_submit, EnterRings,
       get_sqe_peek_fail, get_sqe_peek_fail_submit, get_sqe, get_sqe_submit, get_sqe_fail,
       Single
  <2>. QED
    BY <2>3, RoundAgain
<1>3. CASE \E io \in Ios : Kernel(io)
  <2>1. PICK io \in Ios, k \in 1..3 : Complete(<<io, k>>)
    BY <1>3 DEF Kernel
  <2>2. <<io, k>> \in Entries /\ UNCHANGED ring
    BY <1>3 DEF Entries, Kernel
  <2>. QED
    BY <2>1, <2>2, OneMore
<1>4. CASE UNCHANGED vars
  BY <1>4 DEF vars, slotVars, MetEbusy, Busy, Peeked, Chain, SqRoom, SqUsed, At, Ebusy,
     CqRoom, CqUsed
<1>. QED
  BY <1>2, <1>3, <1>4 DEF Next, Returned

\* On any ring, if submissions do not fail otherwise, a worker that meets EBUSY in the
\* get_sqe of a chain is lost: it never reaps, submits or stops any more.
THEOREM EbusyIsForGood == Spec => BusyForGood
<1>1. UInv /\ [Next]_vars => (MetEbusy /\ "submit_error" \notin ring.faults => MetEbusy')
  BY MetStays
<1>. QED
  BY <1>1, UringInvariance, PTL DEF Spec, BusyForGood

-----------------------------------------------------------------------------
(* Rings with room for every get_sqe.                                      *)
(* A get_sqe without room leaves the slots that have a third step queued:  *)
(* at least sq + 1 - 2n of n.  All but its own are spent by its submission *)
(* for the rest of the batch: they can queue a reply, but no third step.   *)
(* Where that leaves too few for a second get_sqe without room, there is   *)
(* one submission in a batch, which finds no more than 3n entries gone.    *)

Third(io) == \/ where[<<io, 3>>] = "sq"
             \/ cur.io = io /\ ChainLen(Chain) = 3
Long  == {io \in ring.ios : Third(io)}
Spent == {io \in ring.ios : ~Third(io) /\ chain[io] \in {"pool", "reply", "read", "write"}}

\* Only these chains have a third step.
Thirds == \A io \in Ios : where[<<io, 3>>] # "none" => chain[io] \in {"read", "write"}

\* queue_fuse_read is called to fill the submission queue only.
Filling ==
  /\ phase \in {"wait", "reap"} => stray = 0
  /\ Busy /\ phase = "reap" => Chain # "fuse_read"
  /\ Busy /\ phase # "reap" => count = 0

Batch ==
  phase = "reap" => Taken <= 3 * Slots \/ Cardinality(Spent) >= ring.sq - 2 * Slots

BInv == UInv /\ Thirds /\ Filling /\ (Ample => Batch)

\* A slot is not both.
LEMMA LongOrSpent ==
  ASSUME TypeOK
  PROVE  /\ IsFiniteSet(Long) /\ Cardinality(Long) \in Nat
         /\ IsFiniteSet(Spent) /\ Cardinality(Spent) \in Nat
         /\ Cardinality(Long) + Cardinality(Spent) <= Slots
<1>1. IsFiniteSet(ring.ios)
  BY RingFacts
<1>2. Long \subseteq ring.ios /\ Spent \subseteq ring.ios /\ Long \cap Spent = {}
  BY DEF Long, Spent
<1>3. IsFiniteSet(Long) /\ IsFiniteSet(Spent)
  BY <1>1, <1>2, FS_Subset
<1>4. Cardinality(Long) \in Nat /\ Cardinality(Spent) \in Nat
  BY <1>3, FS_CardinalityType
<1>5. Cardinality(Long \cup Spent) = Cardinality(Long) + Cardinality(Spent) - 0
  BY <1>2, <1>3, FS_Union, FS_EmptySet
<1>6. Cardinality(Long \cup Spent) <= Slots
  BY <1>1, <1>2, FS_Subset DEF Slots
<1>. QED
  BY <1>3, <1>4, <1>5, <1>6

\* What a get_sqe without room wants, and what is in the queue before it, are the first
\* two steps of the slots and the third one of the long ones.
LEMMA NoRoomLong ==
  ASSUME UInv, NoRoom, stray = 0
  PROVE  /\ cur.k = 1 /\ cur.io \in ring.ios
         /\ 2 * Slots + Cardinality(Long) >= ring.sq + 1
<1>. DEFINE L    == ChainLen(Chain)
            q    == Cardinality(At("sq"))
            Mine == {cur.io} \X (1..L)
            Two  == ring.ios \X (1..2)
            Rest == Long \X {3}
<1>1. /\ TypeOK /\ Busy /\ cur.io \in ring.ios /\ cur.k \in 1..3 /\ L \in 1..3
      /\ cur.k <= L /\ Chain \in Kinds /\ SqRoom \in Int /\ cur.io \in Ios
      /\ \A k \in 1..3 : where[<<cur.io, k>>] = IF k < cur.k THEN "sq" ELSE "none"
  BY RoomFacts, ChainFacts, RingFacts DEF NoRoom, UInv, Queueing, TypeOK
<1>2. cur.k = 1 /\ SqRoom < L
  <2>1. cur.k > 1 => SqRoom >= L - cur.k + 1
    BY <1>1 DEF UInv, PeekHolds
  <2>2. cur.k = 1 /\ ~Peeked => L = 1
    BY <1>1, ChainFacts DEF Peeked
  <2>3. SqRoom < IF cur.k = 1 /\ Peeked THEN L ELSE 1
    BY DEF NoRoom
  <2>. HIDE DEF SqRoom, L
  <2>. QED
    BY <1>1, <2>1, <2>2, <2>3
<1>3. q \in Nat /\ IsFiniteSet(At("sq")) /\ ring.sq \in Nat /\ Slots \in Nat
      /\ IsFiniteSet(ring.ios) /\ IsFiniteSet(Long) /\ Cardinality(Long) \in Nat
  BY <1>1, AtFacts, SlotsFacts, LongOrSpent
<1>4. q + L >= ring.sq + 1
  <2>1. SqRoom = ring.sq - (q + 0)
    BY DEF SqRoom, SqUsed
  <2>. HIDE DEF q, L, SqRoom
  <2>. QED
    BY <1>1, <1>2, <1>3, <2>1
<1>5. IsFiniteSet(Mine) /\ Cardinality(Mine) = L
  <2>1. 1 \in Int /\ L \in Int /\ ~(1 > L) /\ L - 1 + 1 = L
    BY <1>1
  <2>2. IsFiniteSet(1..L) /\ Cardinality(1..L) = L
    BY <2>1, FS_Interval, Zenon
  <2>3. IsFiniteSet({cur.io}) /\ Cardinality({cur.io}) = 1
    BY FS_Singleton
  <2>4. IsFiniteSet(Mine) /\ Cardinality(Mine) = 1 * L
    <3>. HIDE DEF L
    <3>1. IsFiniteSet(Mine) /\ Cardinality(Mine) = Cardinality({cur.io}) * Cardinality(1..L)
      BY <2>2, <2>3, FS_Product, Zenon
    <3>. QED
      BY <2>2, <2>3, <3>1
  <2>. QED
    BY <2>1, <2>4
<1>6. At("sq") \cap Mine = {}
  BY <1>1, <1>2 DEF At
<1>7. Cardinality(At("sq") \cup Mine) = q + L - 0
  BY <1>3, <1>5, <1>6, FS_Union, FS_EmptySet
<1>8. IsFiniteSet(Two) /\ Cardinality(Two) = Slots * 2
  <2>1. 1 \in Int /\ 2 \in Int /\ ~(1 > 2) /\ 2 - 1 + 1 = 2
    OBVIOUS
  <2>2. IsFiniteSet(1..2) /\ Cardinality(1..2) = 2
    BY <2>1, FS_Interval, Zenon
  <2>. QED
    BY <1>3, <2>2, FS_Product DEF Slots
<1>9. IsFiniteSet(Rest) /\ Cardinality(Rest) = Cardinality(Long) * 1
  <2>1. IsFiniteSet({3}) /\ Cardinality({3}) = 1
    BY FS_Singleton
  <2>. QED
    BY <1>3, <2>1, FS_Product
<1>10. Two \cap Rest = {}
  OBVIOUS
<1>11. /\ IsFiniteSet(Two \cup Rest)
       /\ Cardinality(Two \cup Rest) = Slots * 2 + Cardinality(Long) * 1 - 0
  BY <1>8, <1>9, <1>10, FS_Union, FS_EmptySet
<1>12. At("sq") \cup Mine \subseteq Two \cup Rest
  <2>1. ASSUME NEW e \in At("sq") PROVE e \in Two \cup Rest
    <3>1. e \in Entries /\ where[e] = "sq"
      BY DEF At
    <3>2. e[1] \in ring.ios /\ e[2] \in 1..3 /\ e = <<e[1], e[2]>>
      BY <3>1, OutInRing
    <3>3. e[2] = 3 => e[1] \in Long
      BY <3>1, <3>2 DEF Long, Third
    <3>. QED
      BY <3>2, <3>3
  <2>2. ASSUME NEW k \in 1..L PROVE <<cur.io, k>> \in Two \cup Rest
    <3>1. k \in 1..3 /\ (k = 3 => L = 3)
      BY <1>1
    <3>2. k = 3 => cur.io \in Long
      BY <1>1, <3>1 DEF Long, Third
    <3>. QED
      BY <1>1, <3>1, <3>2
  <2>. QED
    BY <2>1, <2>2
<1>13. Cardinality(At("sq") \cup Mine) <= Cardinality(Two \cup Rest)
  BY <1>11, <1>12, FS_Subset
<1>14. 2 * Slots + Cardinality(Long) >= ring.sq + 1
  <2>. DEFINE l == Cardinality(Long)
  <2>1. l \in Nat /\ q + L - 0 <= Slots * 2 + l * 1 - 0
    BY <1>3, <1>7, <1>11, <1>13
  <2>. HIDE DEF q, L, l
  <2>2. 2 * Slots + l >= ring.sq + 1
    BY <1>1, <1>3, <1>4, <2>1
  <2>. QED
    BY <2>2 DEF l
<1>. QED
  BY <1>1, <1>2, <1>14

\* There is no second one in a batch.
LEMMA OneInABatch ==
  ASSUME BInv, Ample, NoRoom, phase = "reap"
  PROVE  Taken <= 3 * Slots
<1>1. TypeOK /\ UInv /\ stray = 0 /\ Batch
  BY DEF BInv, UInv, Filling
<1>. DEFINE l == Cardinality(Long)
            p == Cardinality(Spent)
<1>2. /\ Slots \in Nat /\ ring.sq \in Nat /\ 2 * ring.sq >= 5 * Slots
      /\ l \in Nat /\ p \in Nat /\ l + p <= Slots
  BY <1>1, SlotsFacts, LongOrSpent
<1>3. 2 * Slots + l >= ring.sq + 1
  BY <1>1, NoRoomLong
<1>4. ~(p >= ring.sq - 2 * Slots)
  <2>. HIDE DEF l, p
  <2>. QED
    BY <1>2, <1>3
<1>. QED
  BY <1>1, <1>4 DEF Batch

\* What the invariant is for.
LEMMA RoomEnough == BInv => GetSqeNeverBusy
<1>. SUFFICES ASSUME BInv, Ample, NoRoom PROVE ~Ebusy
  BY DEF GetSqeNeverBusy
<1>1. UInv /\ TypeOK /\ Busy /\ count \in Nat
  BY DEF BInv, UInv, TypeOK, NoRoom
<1>2. /\ Slots \in Nat /\ ring.sq \in Nat /\ ring.cq \in Nat
      /\ ring.sq >= 2 * Slots /\ ring.cq = 2 * ring.sq
  BY <1>1, SlotsFacts
<1>3. Taken <= 3 * Slots
  <2>1. CASE phase = "reap"
    BY <2>1, OneInABatch
  <2>2. CASE phase # "reap"
    <3>1. count = 0
      BY <1>1, <2>2 DEF BInv, Filling
    <3>. QED
      BY <1>1, <1>2, <3>1, GoneFacts DEF Taken
  <2>. QED
    BY <2>1, <2>2
<1>4. Taken \in Nat
  BY <1>1, GoneFacts DEF Taken
<1>5. Taken <= ring.cq
  <2>. HIDE DEF Taken
  <2>. QED
    BY <1>2, <1>3, <1>4
<1>. QED
  BY <1>1, <1>5, RoomForAll

\* Nothing goes or comes back.
LEMMA GoneKept ==
  ASSUME where \in [Entries -> Places], where' \in [Entries -> Places],
         \A e \in Entries : /\ where'[e] = "none" <=> where[e] = "none"
                            /\ where'[e] = "sq" <=> where[e] = "sq"
  PROVE  Gone' = Gone
<1>1. \A e \in Entries : where'[e] \in {"kernel", "cq", "overflow"}
                            <=> where[e] \in {"kernel", "cq", "overflow"}
  BY DEF Places
<1>. QED
  BY <1>1 DEF Gone

\* Steps inside the reaping loop that take nothing from what is spent.
LEMMA BatchKept ==
  ASSUME BInv, TypeOK', UNCHANGED ring, phase = "reap", Taken' = Taken, Spent \subseteq Spent'
  PROVE  (Ample => Batch)'
<1>1. Ample' = Ample /\ Slots' = Slots
  BY DEF Ample, RunSizes, Slots
<1>. SUFFICES ASSUME Ample, Batch PROVE Batch'
  BY <1>1 DEF BInv
<1>2. CASE Taken <= 3 * Slots
  BY <1>1, <1>2 DEF Batch
<1>3. CASE Cardinality(Spent) >= ring.sq - 2 * Slots
  <2>1. IsFiniteSet(ring.ios) /\ Spent' \subseteq ring.ios
    BY RingFacts DEF BInv, UInv, Spent
  <2>2. IsFiniteSet(Spent')
    BY <2>1, FS_Subset
  <2>3. Cardinality(Spent) <= Cardinality(Spent')
    BY <2>2, FS_Subset
  <2>4. /\ Cardinality(Spent) \in Nat /\ Cardinality(Spent') \in Nat
        /\ Slots \in Nat /\ ring.sq \in Nat
    BY <2>2, FS_CardinalityType, LongOrSpent, SlotsFacts DEF BInv, UInv
  <2>. DEFINE a == Cardinality(Spent)
              b == Cardinality(Spent')
  <2>5. b >= ring.sq - 2 * Slots
    <3>1. a \in Nat /\ b \in Nat /\ a <= b /\ a >= ring.sq - 2 * Slots
      BY <1>3, <2>3, <2>4
    <3>. HIDE DEF a, b
    <3>. QED
      BY <2>4, <3>1
  <2>. QED
    BY <1>1, <2>5 DEF Batch
<1>. QED
  BY <1>2, <1>3 DEF Batch

\* Steps that leave the submission queue and the coroutines alone.
LEMMA QuietB ==
  ASSUME BInv, UInv', UNCHANGED <<ring, chain, cur>>, Filling',
         \A e \in Entries : /\ where'[e] = "none" <=> where[e] = "none"
                            /\ where'[e] = "sq" <=> where[e] = "sq",
         phase' = "reap" => \/ phase = "reap" /\ count' = count
                            \/ count' = 0
  PROVE  BInv'
<1>1. Gone' = Gone /\ Slots' = Slots
  BY GoneKept DEF BInv, UInv, TypeOK, Slots
<1>2. \A io \in Ios : <<io, 3>> \in Entries
  BY DEF Entries
<1>3. Thirds'
  BY <1>2 DEF BInv, Thirds
<1>4. Spent' = Spent
  <2>1. ring.ios \subseteq Ios
    BY RingFacts DEF BInv, UInv
  <2>2. \A io \in ring.ios : Third(io)' <=> Third(io)
    BY <1>2, <2>1 DEF Third, Chain
  <2>. QED
    BY <2>2 DEF Spent
<1>5. (Ample => Batch)'
  <2>. SUFFICES ASSUME phase' = "reap" PROVE (Ample => Batch)'
    BY DEF Batch
  <2>1. CASE phase = "reap" /\ count' = count
    BY <1>1, <1>4, <2>1, BatchKept DEF UInv, Taken
  <2>2. CASE count' = 0
    <3>1. Taken' = Cardinality(Gone) + 0
      BY <1>1, <2>2 DEF Taken
    <3>2. Cardinality(Gone) \in Nat /\ Cardinality(Gone) <= 3 * Slots
      BY GoneFacts DEF BInv
    <3>3. Taken' <= 3 * Slots'
      BY <1>1, <3>1, <3>2
    <3>. QED
      BY <3>3 DEF Batch
  <2>. QED
    BY <2>1, <2>2
<1>. QED
  BY <1>3, <1>5 DEF BInv

\* A submission: the slots whose third step goes are spent.
LEMMA EnterB ==
  ASSUME BInv, UInv', NEW next, EnterRings(next), UNCHANGED <<ring, chain, cur, count>>,
         \/ next = "wait" /\ ~Busy
         \/ next = phase /\ NoRoom
  PROVE  BInv'
<1>1. /\ where' = Entered /\ stray' = 0 /\ phase' = IF stray > 0 THEN "undefined" ELSE next
  BY DEF EnterRings
<1>2. /\ TypeOK /\ stray \in Nat /\ ring.ios \subseteq Ios
      /\ \A io \in Ios : <<io, 3>> \in Entries
  BY RingFacts DEF BInv, UInv, TypeOK, Entries
<1>3. Thirds'
  <2>1. \A io \in Ios : where'[<<io, 3>>] # "none" => where[<<io, 3>>] # "none"
    BY <1>1, <1>2 DEF Entered
  <2>. QED
    BY <2>1 DEF BInv, Thirds
<1>4. Busy => NoRoom /\ next = phase
  OBVIOUS
<1>5. Filling'
  <2>1. phase = "reap" => stray = 0
    BY DEF BInv, Filling
  <2>2. Busy /\ phase' = "reap" => phase = "reap"
    BY <1>1, <1>4
  <2>3. Busy /\ phase' # "reap" => phase # "reap"
    BY <1>1, <1>4, <2>1
  <2>. QED
    BY <1>1, <2>2, <2>3 DEF BInv, Filling, Busy, Chain
<1>6. Batch'
  <2>. SUFFICES ASSUME phase' = "reap"
                PROVE  Cardinality(Spent') >= ring'.sq - 2 * Slots'
    BY DEF Batch
  <2>1. phase = "reap" /\ NoRoom /\ stray = 0
    BY <1>1 DEF BInv, Filling
  <2>2. 2 * Slots + Cardinality(Long) >= ring.sq + 1
    BY <2>1, NoRoomLong DEF BInv
  <2>. DEFINE Others == Long \ {cur.io}
  <2>3. Others \subseteq Spent'
    <3>1. SUFFICES ASSUME NEW io \in ring.ios, Third(io), io # cur.io PROVE io \in Spent'
      BY DEF Long
    <3>2. where[<<io, 3>>] = "sq" /\ io \in Ios
      BY <1>2, <3>1 DEF Third
    <3>3. where'[<<io, 3>>] = "kernel"
      BY <1>1, <1>2, <3>2 DEF Entered
    <3>4. chain[io] \in {"read", "write"}
      BY <3>2 DEF BInv, Thirds
    <3>. QED
      BY <3>1, <3>3, <3>4 DEF Spent, Third
  <2>4. IsFiniteSet(Long) /\ Cardinality(Long) \in Nat /\ Slots \in Nat /\ ring.sq \in Nat
        /\ IsFiniteSet(ring.ios)
    BY <1>2, LongOrSpent, SlotsFacts
  <2>5. IsFiniteSet(Others) /\ Cardinality(Others) >= Cardinality(Long) - 1
    <3>1. CASE cur.io \in Long
      BY <2>4, <3>1, FS_RemoveElement
    <3>2. CASE cur.io \notin Long
      <4>1. Others = Long
        BY <3>2
      <4>. QED
        BY <2>4, <4>1
    <3>. QED
      BY <3>1, <3>2
  <2>6. IsFiniteSet(Spent')
    <3>1. Spent' \subseteq ring.ios
      BY DEF Spent
    <3>. QED
      BY <2>4, <3>1, FS_Subset
  <2>7. Cardinality(Others) <= Cardinality(Spent')
    <3>. HIDE DEF Others
    <3>. QED
      BY <2>3, <2>6, FS_Subset
  <2>8. Cardinality(Others) \in Nat /\ Cardinality(Spent') \in Nat
    <3>. HIDE DEF Others
    <3>. QED
      BY <2>5, <2>6, FS_CardinalityType
  <2>9. Cardinality(Spent') >= ring.sq - 2 * Slots
    <3>. DEFINE l == Cardinality(Long)
                o == Cardinality(Others)
                p == Cardinality(Spent')
    <3>1. /\ l \in Nat /\ o \in Nat /\ p \in Nat /\ o >= l - 1 /\ o <= p
          /\ 2 * Slots + l >= ring.sq + 1
      BY <2>2, <2>4, <2>5, <2>7, <2>8
    <3>2. p >= ring.sq - 2 * Slots
      <4>. HIDE DEF l, o, p
      <4>. QED
        BY <2>4, <3>1
    <3>. QED
      BY <3>2
  <2>. QED
    BY <2>9 DEF Slots
<1>. QED
  BY <1>3, <1>5, <1>6 DEF BInv

\* An entry is taken; a third step makes no other slot long.
LEMMA TakeB ==
  ASSUME BInv, UInv', Busy, TakeSqe, UNCHANGED ring
  PROVE  BInv'
<1>. DEFINE e == <<cur.io, cur.k>>
<1>1. /\ where' = [where EXCEPT ![e] = "sq"]
      /\ cur' = IF cur.k = ChainLen(Chain) THEN Idle ELSE [cur EXCEPT !.k = @ + 1]
      /\ UNCHANGED <<phase, chain, count, stray>>
  BY DEF TakeSqe
<1>2. /\ TypeOK /\ ring.ios \subseteq Ios /\ NoIo \notin Ios /\ cur.io \in Ios
      /\ cur.k \in 1..3 /\ e \in Entries /\ Chain \in Kinds /\ ChainLen(Chain) \in 1..3
      /\ cur.k <= ChainLen(Chain)
      /\ \A k \in 1..3 : where[<<cur.io, k>>] = IF k < cur.k THEN "sq" ELSE "none"
  BY RingFacts, ChainFacts DEF BInv, UInv, Queueing, TypeOK, Entries
<1>3. cur'.io \in {cur.io, NoIo}
  BY <1>1, <1>2 DEF Idle, TypeOK
<1>4. where[e] = "none"
  BY <1>2
<1>. HIDE DEF e
<1>5. /\ where'[e] = "sq"
      /\ \A d \in Entries \ {e} : where'[d] = where[d]
  BY <1>1, <1>2 DEF TypeOK
<1>6. \A io \in Ios : \/ where'[<<io, 3>>] = where[<<io, 3>>]
                      \/ io = cur.io /\ cur.k = 3
  <2>1. SUFFICES ASSUME NEW io \in Ios, ~(io = cur.io /\ cur.k = 3)
                 PROVE  where'[<<io, 3>>] = where[<<io, 3>>]
    OBVIOUS
  <2>2. <<io, 3>> \in Entries /\ <<io, 3>> # e
    BY <2>1 DEF Entries, e
  <2>. QED
    BY <1>5, <2>2
<1>7. cur.k = 3 => ChainLen(Chain) = 3 /\ Chain \in {"read", "write"}
  BY <1>2 DEF ChainLen, Kinds
<1>8. Thirds'
  BY <1>1, <1>6, <1>7 DEF BInv, Thirds, Chain
<1>9. Filling'
  <2>1. Busy' => Chain' = Chain
    BY <1>1, <1>3 DEF Busy, Chain
  <2>. QED
    BY <1>1, <2>1 DEF BInv, Filling
<1>10. Spent \subseteq Spent'
  <2>1. SUFFICES ASSUME NEW io \in ring.ios, ~Third(io) PROVE ~Third(io)'
    BY <1>1 DEF Spent
  <2>2. io \in Ios /\ (io = cur.io => ChainLen(Chain) # 3)
    BY <1>2, <2>1 DEF Third
  <2>3. where'[<<io, 3>>] # "sq"
    BY <1>6, <1>7, <2>1, <2>2 DEF Third
  <2>4. cur'.io = io => ChainLen(Chain') # 3
    BY <1>1, <1>2, <1>3, <2>2 DEF Chain
  <2>. QED
    BY <2>3, <2>4 DEF Third
<1>11. (Ample => Batch)'
  <2>. SUFFICES ASSUME phase' = "reap" PROVE (Ample => Batch)'
    BY DEF Batch
  <2>1. e \notin Gone /\ e \notin Gone'
    BY <1>4, <1>5 DEF Gone
  <2>2. Gone' = Gone
    BY <1>5, <2>1 DEF Gone
  <2>3. Taken' = Taken
    BY <1>1, <2>2 DEF Taken
  <2>. QED
    BY <1>1, <1>10, <2>3, BatchKept DEF UInv
<1>. QED
  BY <1>8, <1>9, <1>11 DEF BInv

\* A coroutine gives up: its slot is spent.
LEMMA FailB ==
  ASSUME BInv, UInv', Busy, cur.k = 1, Return(cur.io, -1), cur' = Idle,
         \A e \in Entries : where'[e] = "none" <=> where[e] = "none",
         UNCHANGED <<ring, count>>, phase' \in {phase, "undefined"},
         phase = "reap" => /\ stray' = stray
                           /\ \A e \in Entries : where'[e] = "sq" <=> where[e] = "sq"
  PROVE  BInv'
<1>1. /\ chain' = [chain EXCEPT ![cur.io] = "pool"] /\ cur'.io = NoIo /\ ~Busy'
  BY DEF Return, Idle, Busy
<1>2. /\ TypeOK /\ ring.ios \subseteq Ios /\ NoIo \notin Ios /\ cur.io \in Ios
      /\ where[<<cur.io, 3>>] = "none" /\ phase # "wait"
      /\ \A io \in Ios : <<io, 3>> \in Entries
  BY RingFacts DEF BInv, UInv, Queueing, Entries
<1>3. Thirds'
  BY <1>1, <1>2 DEF BInv, Thirds, TypeOK
<1>4. Filling'
  BY <1>1, <1>2 DEF BInv, Filling
<1>5. (Ample => Batch)'
  <2>. SUFFICES ASSUME phase' = "reap" PROVE (Ample => Batch)'
    BY DEF Batch
  <2>1. phase = "reap" /\ \A e \in Entries : where'[e] = "sq" <=> where[e] = "sq"
    OBVIOUS
  <2>2. Taken' = Taken
    BY <2>1, GoneKept DEF BInv, UInv, TypeOK, Taken
  <2>3. Spent \subseteq Spent'
    <3>1. SUFFICES ASSUME NEW io \in Spent PROVE io \in Spent'
      OBVIOUS
    <3>2. io \in ring.ios /\ io \in Ios /\ where'[<<io, 3>>] # "sq"
      BY <1>2, <2>1, <3>1 DEF Spent, Third
    <3>3. chain'[io] \in {"pool", "reply", "read", "write"}
      BY <1>1, <1>2, <3>1, <3>2 DEF Spent, TypeOK
    <3>4. cur'.io # io
      BY <1>1, <1>2, <3>2
    <3>. QED
      BY <3>2, <3>3, <3>4 DEF Spent, Third
  <2>. QED
    BY <2>1, <2>2, <2>3, BatchKept DEF UInv
<1>. QED
  BY <1>3, <1>4, <1>5 DEF BInv

\* A chain nothing is out of.
LEMMA NothingOut ==
  ASSUME NEW f, NEW io, Cardinality({k \in 1..3 : f[<<io, k>>] # "none"}) = 0
  PROVE  f[<<io, 3>>] = "none"
<1>. DEFINE S == {k \in 1..3 : f[<<io, k>>] # "none"}
<1>1. IsFiniteSet(S)
  BY ThreeSteps, FS_Subset
<1>2. S = {}
  BY <1>1, FS_EmptySet
<1>. QED
  BY <1>2

\* A completion is reaped: it keeps its room, and what is spent goes to the pool or
\* replies.
LEMMA CqeB ==
  ASSUME BInv, UInv', NEW e \in Entries, handle_cqe(e), UNCHANGED ring
  PROVE  BInv'
<1>. DEFINE io == e[1]
<1>1. /\ TypeOK /\ io \in Ios /\ ring.ios \subseteq Ios /\ NoIo \notin Ios
      /\ phase = "reap" /\ cur.io = NoIo /\ where[e] = "cq" /\ count \in Nat
      /\ where' = [where EXCEPT ![e] = "none"]
      /\ count' = count + 1 /\ UNCHANGED <<phase, stray>>
  BY RingFacts DEF BInv, UInv, handle_cqe, Busy, Entries, TypeOK
<1>2. \/ UNCHANGED <<cur, chain>>
      \/ UNCHANGED cur /\ chain' = [chain EXCEPT ![io] = "pool"]
      \/ \E kind \in Follow(chain[io]) : /\ chain' = [chain EXCEPT ![io] = kind]
                                        /\ cur' = [io |-> io, k |-> 1]
  BY DEF handle_cqe, Return, Begin
<1>. HIDE DEF io
<1>3. /\ where'[e] = "none"
      /\ \A d \in Entries \ {e} : where'[d] = where[d]
  BY <1>1 DEF TypeOK
<1>4. \A i \in Ios : /\ where'[<<i, 3>>] \in {where[<<i, 3>>], "none"}
                     /\ where'[<<i, 3>>] = "sq" => where[<<i, 3>>] = "sq"
  BY <1>3 DEF Entries
<1>5. chain' = chain \/ where'[<<io, 3>>] = "none"
  <2>1. CASE UNCHANGED cur /\ chain' = [chain EXCEPT ![io] = "pool"]
    <3>1. chain'[io] = "pool" /\ cur'.io # io
      BY <1>1, <2>1 DEF TypeOK
    <3>2. tocomplete'[io] = 0
      BY <1>1, <3>1 DEF UInv, PoolIdle
    <3>3. Cardinality({k \in 1..3 : where'[<<io, k>>] # "none"}) = 0
      BY <1>1, <3>1, <3>2 DEF UInv, Accounted
    <3>. QED
      BY <3>3, NothingOut
  <2>2. CASE cur' = [io |-> io, k |-> 1]
    BY <1>1, <2>2 DEF UInv, Queueing, Busy
  <2>. QED
    BY <1>2, <2>1, <2>2
<1>6. \A i \in Ios : i # io => chain'[i] = chain[i]
  BY <1>1, <1>2 DEF TypeOK
<1>7. Thirds'
  <2>1. SUFFICES ASSUME NEW i \in Ios, where'[<<i, 3>>] # "none"
                 PROVE  chain'[i] \in {"read", "write"}
    BY DEF Thirds
  <2>2. chain'[i] = chain[i]
    BY <1>5, <1>6, <2>1
  <2>. QED
    BY <1>4, <2>1, <2>2 DEF BInv, Thirds
<1>8. Filling'
  <2>1. Busy' => Chain' # "fuse_read"
    <3>1. SUFFICES ASSUME NEW kind \in Follow(chain[io]), cur' = [io |-> io, k |-> 1],
                          chain' = [chain EXCEPT ![io] = kind]
                   PROVE  Chain' # "fuse_read"
      BY <1>1, <1>2 DEF Busy
    <3>2. Chain' = kind
      BY <1>1, <3>1 DEF Chain, TypeOK
    <3>. QED
      BY <3>2 DEF Follow
  <2>. QED
    BY <1>1, <2>1 DEF BInv, Filling
<1>9. Spent \subseteq Spent'
  <2>1. SUFFICES ASSUME NEW i \in Spent PROVE i \in Spent'
    OBVIOUS
  <2>2. /\ i \in ring.ios /\ i \in Ios /\ where'[<<i, 3>>] # "sq"
        /\ chain[i] \in {"pool", "reply", "read", "write"}
    BY <1>1, <1>4, <2>1 DEF Spent, Third
  <2>3. /\ chain'[i] \in {"pool", "reply", "read", "write"}
        /\ cur'.io = i => ChainLen(Chain') # 3
    <3>1. CASE i # io \/ UNCHANGED <<cur, chain>>
      BY <1>1, <1>2, <1>6, <2>2, <3>1
    <3>2. CASE i = io /\ UNCHANGED cur /\ chain' = [chain EXCEPT ![io] = "pool"]
      BY <1>1, <2>2, <3>2 DEF TypeOK
    <3>3. ASSUME i = io, NEW kind \in Follow(chain[io]), cur' = [io |-> io, k |-> 1],
                 chain' = [chain EXCEPT ![io] = kind]
          PROVE  /\ chain'[i] \in {"pool", "reply", "read", "write"}
                 /\ ChainLen(Chain') # 3
      <4>1. kind = "reply"
        BY <2>2, <3>3 DEF Follow
      <4>2. chain'[i] = "reply" /\ Chain' = "reply"
        BY <1>1, <3>3, <4>1 DEF Chain, TypeOK
      <4>. QED
        BY <4>2 DEF ChainLen
    <3>. QED
      BY <1>2, <3>1, <3>2, <3>3
  <2>. QED
    BY <2>2, <2>3 DEF Spent, Third
<1>10. Taken' = Taken
  <2>1. Gone' = Gone \ {e} /\ e \in Gone
    BY <1>1, <1>3 DEF Gone
  <2>2. IsFiniteSet(Gone) /\ Cardinality(Gone) \in Nat
    BY GoneFacts DEF BInv
  <2>3. Cardinality(Gone \ {e}) = Cardinality(Gone) - 1
    BY <2>1, <2>2, FS_RemoveElement
  <2>. QED
    BY <1>1, <2>1, <2>2, <2>3 DEF Taken
<1>. QED
  BY <1>1, <1>7, <1>8, <1>9, <1>10, BatchKept DEF BInv, UInv

\* A coroutine is started: it has no chain yet, and the loop is not reaping.
LEMMA QueueReadB ==
  ASSUME BInv, UInv', NEW io \in ring.ios, queue_read(io), UNCHANGED ring
  PROVE  BInv'
<1>1. /\ phase = "fill" /\ chain[io] = "pool" /\ io \in Ios /\ count = 0
      /\ chain' = [chain EXCEPT ![io] = "fuse_read"]
      /\ UNCHANGED <<phase, where, count, stray>>
  BY RingFacts DEF BInv, UInv, NoCount, queue_read, Begin
<1>2. where[<<io, 3>>] = "none"
  BY <1>1 DEF BInv, Thirds
<1>3. Thirds'
  BY <1>1, <1>2 DEF BInv, UInv, TypeOK, Thirds
<1>4. Filling' /\ Batch'
  BY <1>1 DEF Filling, Batch
<1>. QED
  BY <1>3, <1>4 DEF BInv

\* Each call of get_sqe.
LEMMA GetSqeB ==
  ASSUME BInv, UInv', GetSqe, UNCHANGED ring
  PROVE  BInv'
<1>1. /\ UInv /\ TypeOK /\ Busy /\ cur.k \in 1..3 /\ SqRoom \in Int
      /\ where \in [Entries -> Places]
  BY RoomFacts DEF BInv, UInv, TypeOK, GetSqe, get_sqe_peek, get_sqe_peek_submit,
     get_sqe_peek_ebusy, get_sqe_peek_fail, get_sqe_peek_fail_submit, get_sqe,
     get_sqe_submit, get_sqe_fail, Single
<1>. HIDE DEF SqRoom
<1>2. \A S : where' = Flushed(S) /\ S \subseteq At("overflow") =>
        \A e \in Entries : /\ where'[e] = "none" <=> where[e] = "none"
                           /\ where'[e] = "sq" <=> where[e] = "sq"
  BY <1>1 DEF Flushed, At, Places
<1>3. CASE get_sqe_peek \/ get_sqe
  BY <1>1, <1>3, TakeB DEF get_sqe_peek, get_sqe
<1>4. CASE get_sqe_peek_submit \/ get_sqe_submit
  <2>1. EnterRings(phase) /\ UNCHANGED <<cur, chain, count>>
    BY <1>4 DEF get_sqe_peek_submit, get_sqe_submit
  <2>2. NoRoom
    BY <1>1, <1>4 DEF get_sqe_peek_submit, get_sqe_submit, Single, NoRoom
  <2>. QED
    BY <2>1, <2>2, EnterB
<1>5. CASE get_sqe_peek_ebusy
  <2>1. PICK S \in SUBSET At("overflow") : where' = Flushed(S)
    BY <1>5 DEF get_sqe_peek_ebusy
  <2>2. UNCHANGED <<phase, cur, chain, count, stray>>
    BY <1>5 DEF get_sqe_peek_ebusy
  <2>3. Filling'
    BY <2>2 DEF BInv, Filling, Busy, Chain
  <2>. QED
    BY <1>2, <2>1, <2>2, <2>3, QuietB
<1>6. CASE get_sqe_peek_fail
  <2>1. /\ cur.k = 1 /\ Return(cur.io, -1) /\ cur' = Idle /\ UNCHANGED <<phase, count>>
        /\ stray' = IF Chain = "fuse_read" /\ SqRoom > 0 THEN stray + 1 ELSE stray
    BY <1>6 DEF get_sqe_peek_fail
  <2>2. PICK S \in SUBSET At("overflow") : where' = Flushed(S)
    BY <1>6 DEF get_sqe_peek_fail
  <2>3. phase = "reap" => stray' = stray
    BY <1>1, <2>1 DEF BInv, Filling
  <2>. QED
    BY <1>1, <1>2, <2>1, <2>2, <2>3, FailB
<1>7. CASE get_sqe_peek_fail_submit
  <2>1. /\ cur.k = 1 /\ Return(cur.io, -1) /\ cur' = Idle /\ where' = Entered
        /\ phase' \in {phase, "undefined"} /\ UNCHANGED count /\ Chain = "fuse_read"
    BY <1>7 DEF get_sqe_peek_fail_submit
  <2>2. phase # "reap"
    BY <1>1, <2>1 DEF BInv, Filling
  <2>3. \A e \in Entries : where'[e] = "none" <=> where[e] = "none"
    BY <1>1, <2>1 DEF Entered
  <2>. QED
    BY <1>1, <2>1, <2>2, <2>3, FailB
<1>8. CASE get_sqe_fail
  <2>1. /\ Return(cur.io, -1) /\ cur' = Idle /\ UNCHANGED <<count, stray>>
        /\ phase' \in {phase, "undefined"} /\ SqRoom < 1
    BY <1>8 DEF get_sqe_fail
  <2>2. PICK S \in SUBSET At("overflow") : where' = Flushed(S)
    BY <1>8 DEF get_sqe_fail
  <2>3. cur.k = 1
    <3>1. ChainLen(Chain) \in 1..3 /\ cur.k <= ChainLen(Chain)
      BY <1>1, ChainFacts DEF UInv, Queueing
    <3>2. cur.k > 1 => SqRoom >= ChainLen(Chain) - cur.k + 1
      BY <1>1 DEF UInv, PeekHolds
    <3>. QED
      BY <1>1, <2>1, <3>1, <3>2
  <2>. QED
    BY <1>1, <1>2, <2>1, <2>2, <2>3, FailB
<1>. QED
  BY <1>3, <1>4, <1>5, <1>6, <1>7, <1>8 DEF GetSqe

\* The steps of run().
LEMMA LoopB ==
  ASSUME BInv, UInv', Loop, UNCHANGED ring
  PROVE  BInv'
<1>1. /\ UInv /\ where \in [Entries -> Places] /\ Filling
      /\ phase \in {"submit", "wait"} => ~Busy /\ count = 0
  BY DEF BInv, UInv, TypeOK, Queueing, NoCount
<1>2. CASE \E io \in ring.ios : queue_read(io)
  BY <1>2, QueueReadB
<1>3. CASE \E e \in Entries : handle_cqe(e)
  BY <1>3, CqeB
<1>4. CASE fuseuring_submit
  <2>1. EnterRings("wait") /\ UNCHANGED <<cur, chain, count>> /\ ~Busy
    BY <1>1, <1>4 DEF fuseuring_submit
  <2>. QED
    BY <2>1, EnterB
<1>5. CASE fuseuring_submit_ebusy
  <2>1. PICK S \in SUBSET At("overflow") : where' = Flushed(S)
    BY <1>5 DEF fuseuring_submit_ebusy
  <2>2. /\ UNCHANGED <<cur, chain, count, stray>> /\ phase' \in {"submit", "exit"} /\ ~Busy'
    BY <1>1, <1>5 DEF fuseuring_submit_ebusy, Busy
  <2>3. Filling'
    BY <2>2 DEF Filling
  <2>4. \A e \in Entries : /\ where'[e] = "none" <=> where[e] = "none"
                           /\ where'[e] = "sq" <=> where[e] = "sq"
    BY <1>1, <2>1 DEF Flushed, At, Places
  <2>. QED
    BY <2>2, <2>3, <2>4, QuietB
<1>6. CASE filled \/ fuseuring_submit_fail \/ cq_advance
  <2>1. /\ UNCHANGED <<cur, chain, where>> /\ phase' \in {"submit", "exit", "fill"} /\ ~Busy'
    BY <1>1, <1>6 DEF filled, fuseuring_submit_fail, cq_advance, slotVars, Busy
  <2>2. Filling'
    BY <2>1 DEF Filling
  <2>. QED
    BY <2>1, <2>2, QuietB
<1>7. CASE waited
  <2>1. /\ phase = "wait" /\ count' = 0 /\ UNCHANGED <<cur, chain, where, stray>> /\ ~Busy'
    BY <1>1, <1>7 DEF waited, slotVars, Busy
  <2>2. Filling'
    BY <1>1, <2>1 DEF Filling
  <2>. QED
    BY <2>1, <2>2, QuietB
<1>. QED
  BY <1>2, <1>3, <1>4, <1>5, <1>6, <1>7 DEF Loop

\* Every step keeps it.
LEMMA NextB == BInv /\ UInv' /\ [Next]_vars => BInv'
<1>. SUFFICES ASSUME BInv, UInv', [Next]_vars PROVE BInv'
  OBVIOUS
<1>1. CASE Worker
  BY <1>1, GetSqeB, LoopB DEF Worker
<1>2. CASE \E io \in Ios : Kernel(io)
  <2>1. PICK io \in Ios, k \in 1..3 : Complete(<<io, k>>)
    BY <1>2 DEF Kernel
  <2>. DEFINE e == <<io, k>>
  <2>2. /\ UNCHANGED <<ring, phase, cur, chain, count, stray>> /\ where[e] = "kernel"
        /\ where' = [where EXCEPT ![e] = IF CqRoom > 0 THEN "cq" ELSE "overflow"]
        /\ where \in [Entries -> Places]
    BY <1>2, <2>1 DEF Complete, Kernel, BInv, UInv, TypeOK
  <2>. HIDE DEF e
  <2>3. \A d \in Entries : /\ where'[d] = "none" <=> where[d] = "none"
                           /\ where'[d] = "sq" <=> where[d] = "sq"
    BY <2>2
  <2>4. Filling'
    BY <2>2 DEF BInv, Filling, Busy, Chain
  <2>. QED
    BY <2>2, <2>3, <2>4, QuietB
<1>3. CASE UNCHANGED vars
  <2>1. UNCHANGED <<ring, phase, cur, chain, where, count, stray>>
    BY <1>3 DEF vars, slotVars
  <2>2. Filling'
    BY <2>1 DEF BInv, Filling, Busy, Chain
  <2>. QED
    BY <2>1, <2>2, QuietB
<1>. QED
  BY <1>1, <1>2, <1>3 DEF Next, Returned

\* Nothing has gone at first.
LEMMA InitB == Init => BInv
<1>. SUFFICES ASSUME Init PROVE BInv
  OBVIOUS
<1>1. UInv
  BY InitUring
<1>2. Thirds
  BY DEF Init, Thirds, Entries
<1>3. Filling /\ Batch
  BY DEF Init, Filling, Batch
<1>. QED
  BY <1>1, <1>2, <1>3 DEF BInv

\* With five entries for every two slots get_sqe never meets EBUSY, for any number of
\* slots, whatever requests they serve and whatever else fails: no worker is lost the way
\* BusyForGood says.
THEOREM GetSqeMeetsNoEbusy == Spec => []GetSqeNeverBusy
<1>1. UInv /\ BInv /\ [Next]_vars => BInv'
  BY NextUring, NextB
<1>2. Init => BInv
  BY InitB
<1>3. BInv => GetSqeNeverBusy
  BY RoomEnough
<1>4. BInv => UInv
  BY DEF BInv
<1>. QED
  BY <1>1, <1>2, <1>3, <1>4, PTL DEF Spec
=============================================================================
