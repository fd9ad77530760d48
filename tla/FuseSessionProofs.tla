-------------------------- MODULE FuseSessionProofs --------------------------
(***************************************************************************)
(* The session keeps its promise: the queue is one of pending requests     *)
(* without a repetition, no two slots work on one request, and a request   *)
(* the kernel waits for is in the hands of a slot.  FuseRequestRefine-     *)
(* Proofs brings this down to FuseRequest.                                 *)
(***************************************************************************)
EXTENDS FuseSession, TLAPS

\* The elements of the queue.
LEMMA QueueFacts ==
  ASSUME NEW S, NEW s \in Seq(S)
  PROVE  /\ Len(s) \in Nat
         /\ \A i \in 1..Len(s) : s[i] \in S
         /\ s # <<>> => /\ Head(s) = s[1] /\ 1 \in 1..Len(s)
                        /\ Tail(s) \in Seq(S) /\ Len(Tail(s)) = Len(s) - 1
                        /\ \A i \in 1..(Len(s) - 1) : Tail(s)[i] = s[i + 1]
OBVIOUS

\* The queue with one more.
LEMMA AppendFacts ==
  ASSUME NEW S, NEW s \in Seq(S), NEW u \in S
  PROVE  /\ Append(s, u) \in Seq(S) /\ Len(Append(s, u)) = Len(s) + 1
         /\ \A i \in 1..Len(s) : Append(s, u)[i] = s[i]
         /\ Append(s, u)[Len(s) + 1] = u
OBVIOUS

\* Nothing is queued, held or waited for at first.
LEMMA InitSession == Init => SessionInv
<1>. SUFFICES ASSUME Init PROVE SessionInv
  OBVIOUS
<1>1. TypeOK
  <2>1. kstate \in [Reqs -> States] /\ excused \subseteq Reqs
    BY DEF Init, States
  <2>2. queue \in Seq(Reqs)
    BY DEF Init
  <2>3. work \in [Slots -> Reqs \cup {NoReq}]
    BY DEF Init
  <2>. QED
    BY <2>1, <2>2, <2>3 DEF Init, TypeOK
<1>2. QueuedOnce
  BY DEF Init, QueuedOnce
<1>3. OneHolder /\ NothingLost
  BY DEF Init, OneHolder, NothingLost
<1>. QED
  BY <1>1, <1>2, <1>3 DEF SessionInv

\* A new request goes to the end of the queue, and was not in it.
LEMMA SendKeeps ==
  ASSUME NoReq \notin Reqs, SessionInv, NEW u \in Reqs, Send(u)
  PROVE  SessionInv'
<1>1. /\ TypeOK /\ QueuedOnce /\ OneHolder /\ NothingLost
      /\ kstate[u] = "none" /\ queue' = Append(queue, u)
      /\ kstate' = [kstate EXCEPT ![u] = "pending"]
      /\ excused' \in SUBSET Reqs /\ excused' \ {u} = excused \ {u}
      /\ UNCHANGED <<running, failed, mounted, work>>
  BY DEF SessionInv, Send, Renewed
<1>2. /\ queue' \in Seq(Reqs) /\ Len(queue') = Len(queue) + 1 /\ Len(queue) \in Nat
      /\ \A i \in 1..Len(queue) : queue'[i] = queue[i] /\ queue[i] \in Reqs
      /\ queue'[Len(queue) + 1] = u
  BY <1>1, AppendFacts, QueueFacts DEF TypeOK
<1>3. TypeOK'
  BY <1>1, <1>2 DEF TypeOK, States
<1>4. QueuedOnce'
  <2>1. \A i \in 1..Len(queue) : queue[i] # u
    BY <1>1 DEF QueuedOnce
  <2>2. ASSUME NEW w \in Reqs
        PROVE  kstate'[w] = "pending" <=> \E i \in 1..Len(queue') : queue'[i] = w
    <3>1. kstate[w] = "pending" <=> \E i \in 1..Len(queue) : queue[i] = w
      BY <1>1 DEF QueuedOnce
    <3>2. kstate'[w] = "pending" <=> w = u \/ kstate[w] = "pending"
      BY <1>1 DEF TypeOK
    <3>3. (\E i \in 1..Len(queue') : queue'[i] = w)
          <=> w = u \/ \E i \in 1..Len(queue) : queue[i] = w
      BY <1>2
    <3>. QED
      BY <3>1, <3>2, <3>3
  <2>3. ASSUME NEW i \in 1..Len(queue'), NEW j \in 1..Len(queue'), queue'[i] = queue'[j]
        PROVE  i = j
    <3>1. i \in 1..Len(queue) \/ i = Len(queue) + 1
      BY <1>2
    <3>2. j \in 1..Len(queue) \/ j = Len(queue) + 1
      BY <1>2
    <3>. QED
      BY <1>1, <1>2, <2>1, <2>3, <3>1, <3>2 DEF QueuedOnce
  <2>. QED
    BY <2>2, <2>3 DEF QueuedOnce
<1>5. OneHolder'
  BY <1>1 DEF OneHolder, TypeOK
<1>6. NothingLost'
  BY <1>1 DEF NothingLost, TypeOK
<1>. QED
  BY <1>3, <1>4, <1>5, <1>6 DEF SessionInv

\* The oldest request goes to a slot without one.
LEMMA TakeKeeps ==
  ASSUME NoReq \notin Reqs, SessionInv, NEW s \in Slots, Take(s)
  PROVE  SessionInv'
<1>. DEFINE u == Head(queue)
<1>1. /\ TypeOK /\ QueuedOnce /\ OneHolder /\ NothingLost
      /\ queue # <<>> /\ work[s] = NoReq /\ queue' = Tail(queue)
      /\ work' = [work EXCEPT ![s] = u]
      /\ UNCHANGED <<running, failed, mounted, excused>>
  BY DEF SessionInv, Take
<1>2. PICK k \in {"processing", "noreply"} : kstate' = [kstate EXCEPT ![u] = k]
  BY DEF Take
<1>3. /\ u = queue[1] /\ 1 \in 1..Len(queue) /\ Len(queue) \in Nat
      /\ \A i \in 1..Len(queue) : queue[i] \in Reqs
      /\ queue' \in Seq(Reqs) /\ Len(queue') = Len(queue) - 1
      /\ \A i \in 1..(Len(queue) - 1) : queue'[i] = queue[i + 1]
  BY <1>1, QueueFacts DEF TypeOK
<1>4. u \in Reqs /\ u # NoReq /\ kstate[u] = "pending"
  BY <1>1, <1>3 DEF QueuedOnce
<1>. HIDE DEF u
<1>5. TypeOK'
  BY <1>1, <1>2, <1>3, <1>4 DEF TypeOK, States
<1>6. QueuedOnce'
  <2>1. \A i \in 1..Len(queue') : i + 1 \in 1..Len(queue) /\ i + 1 # 1
    BY <1>3
  <2>2. ASSUME NEW w \in Reqs
        PROVE  kstate'[w] = "pending" <=> \E i \in 1..Len(queue') : queue'[i] = w
    <3>1. kstate[w] = "pending" <=> \E i \in 1..Len(queue) : queue[i] = w
      BY <1>1 DEF QueuedOnce
    <3>2. kstate'[w] = "pending" <=> w # u /\ kstate[w] = "pending"
      BY <1>1, <1>2, <1>4 DEF TypeOK
    <3>3. ASSUME NEW i \in 1..Len(queue), queue[i] = w, w # u
          PROVE  \E j \in 1..Len(queue') : queue'[j] = w
      <4>1. i - 1 \in 1..Len(queue') /\ queue'[i - 1] = queue[i - 1 + 1]
        BY <1>3, <3>3
      <4>2. i - 1 + 1 = i
        OBVIOUS
      <4>. QED
        BY <3>3, <4>1, <4>2
    <3>4. ASSUME NEW j \in 1..Len(queue'), queue'[j] = w
          PROVE  w # u /\ \E i \in 1..Len(queue) : queue[i] = w
      <4>1. queue[j + 1] = w
        BY <1>3, <3>4
      <4>2. w # u
        BY <1>1, <1>3, <2>1, <4>1 DEF QueuedOnce
      <4>. QED
        BY <2>1, <4>1, <4>2
    <3>. QED
      BY <3>1, <3>2, <3>3, <3>4
  <2>3. ASSUME NEW i \in 1..Len(queue'), NEW j \in 1..Len(queue'), queue'[i] = queue'[j]
        PROVE  i = j
    <3>1. queue[i + 1] = queue[j + 1]
      BY <1>3, <2>3
    <3>2. i + 1 = j + 1
      BY <1>1, <2>1, <3>1 DEF QueuedOnce
    <3>. QED
      BY <3>2
  <2>. QED
    BY <2>2, <2>3 DEF QueuedOnce
<1>7. OneHolder'
  <2>1. \A t \in Slots : work[t] # u
    BY <1>1, <1>4 DEF OneHolder
  <2>. QED
    BY <1>1, <1>2, <1>4, <2>1 DEF OneHolder, TypeOK
<1>8. NothingLost'
  <2>1. SUFFICES ASSUME ~failed, NEW w \in Reqs \ excused, kstate'[w] = "processing"
                 PROVE  \E t \in Slots : work'[t] = w
    BY <1>1 DEF NothingLost
  <2>2. CASE w = u
    BY <1>1, <2>2 DEF TypeOK
  <2>3. CASE w # u
    <3>1. kstate[w] = "processing"
      BY <1>1, <1>2, <1>4, <2>1, <2>3 DEF TypeOK
    <3>2. PICK t \in Slots : work[t] = w
      BY <1>1, <2>1, <3>1 DEF NothingLost
    <3>3. t # s
      BY <1>1, <2>1, <3>2
    <3>. QED
      BY <1>1, <3>2, <3>3 DEF TypeOK
  <2>. QED
    BY <2>2, <2>3
<1>. QED
  BY <1>5, <1>6, <1>7, <1>8 DEF SessionInv

\* A slot that is given back leaves no request behind that the kernel waits for.
LEMMA ReleaseKeeps ==
  ASSUME NoReq \notin Reqs, SessionInv, NEW s \in Slots, Release(s)
  PROVE  SessionInv'
<1>1. /\ TypeOK /\ QueuedOnce /\ OneHolder /\ NothingLost
      /\ work[s] # NoReq /\ work' = [work EXCEPT ![s] = NoReq]
      /\ failed' \in {failed, TRUE} /\ (Over(work[s]) \/ failed')
      /\ UNCHANGED <<running, mounted, queue, kstate, excused>>
  BY DEF SessionInv, Release
<1>2. TypeOK' /\ QueuedOnce'
  BY <1>1 DEF TypeOK, QueuedOnce
<1>3. OneHolder'
  BY <1>1 DEF OneHolder, TypeOK
<1>4. NothingLost'
  <2>1. SUFFICES ASSUME ~failed', NEW w \in Reqs \ excused, kstate[w] = "processing"
                 PROVE  \E t \in Slots : work'[t] = w
    BY <1>1 DEF NothingLost
  <2>2. ~failed
    BY <1>1, <2>1
  <2>3. PICK t \in Slots : work[t] = w
    BY <1>1, <2>1, <2>2 DEF NothingLost
  <2>4. t # s
    BY <1>1, <2>1, <2>3 DEF Over
  <2>. QED
    BY <1>1, <2>3, <2>4 DEF TypeOK
<1>. QED
  BY <1>2, <1>3, <1>4 DEF SessionInv

\* Every step keeps the invariant.
LEMMA NextSession ==
  ASSUME NoReq \notin Reqs, SessionInv, [Next]_vars
  PROVE  SessionInv'
<1>1. TypeOK /\ QueuedOnce /\ OneHolder /\ NothingLost
  BY DEF SessionInv
<1>2. ASSUME NEW u \in Reqs, Send(u) PROVE SessionInv'
  BY <1>2, SendKeeps
<1>3. ASSUME NEW u \in Reqs, Recycle(u) PROVE SessionInv'
  BY <1>1, <1>3 DEF SessionInv, Recycle, Renewed, TypeOK, States, QueuedOnce, OneHolder,
     NothingLost
<1>4. ASSUME NEW s \in Slots, Take(s) PROVE SessionInv'
  BY <1>4, TakeKeeps
<1>5. ASSUME NEW s \in Slots, Answer(s) PROVE SessionInv'
  <2>1. work[s] \in Reqs
    BY <1>1, <1>5 DEF Answer, TypeOK
  <2>2. TypeOK' /\ QueuedOnce'
    BY <1>1, <1>5, <2>1 DEF Answer, TypeOK, States, QueuedOnce
  <2>3. OneHolder' /\ NothingLost'
    BY <1>1, <1>5, <2>1 DEF Answer, TypeOK, OneHolder, NothingLost
  <2>. QED
    BY <2>2, <2>3 DEF SessionInv
<1>6. ASSUME NEW s \in Slots, Release(s) PROVE SessionInv'
  BY <1>6, ReleaseKeeps
<1>7. CASE Fail \/ Stop \/ UNCHANGED vars
  <2>1. UNCHANGED <<mounted, queue, kstate, excused, work>>
        /\ running' \in BOOLEAN /\ failed' \in BOOLEAN /\ (failed => failed')
    BY <1>1, <1>7 DEF Fail, Stop, vars, TypeOK
  <2>. QED
    BY <1>1, <2>1 DEF SessionInv, TypeOK, QueuedOnce, OneHolder, NothingLost
<1>8. CASE Unmount
  <2>1. TypeOK'
    <3>1. kstate' \in [Reqs -> States]
      BY <1>1, <1>8 DEF Unmount, TypeOK, States
    <3>2. queue' \in Seq(Reqs)
      BY <1>8 DEF Unmount
    <3>. QED
      BY <1>1, <1>8, <3>1, <3>2 DEF Unmount, TypeOK
  <2>2. QueuedOnce'
    <3>1. queue' = <<>> /\ \A u \in Reqs : kstate'[u] # "pending"
      BY <1>8 DEF Unmount
    <3>. QED
      BY <3>1 DEF QueuedOnce
  <2>3. OneHolder'
    BY <1>1, <1>8 DEF Unmount, TypeOK, OneHolder
  <2>4. NothingLost'
    BY <1>8 DEF Unmount, NothingLost
  <2>. QED
    BY <2>1, <2>2, <2>3, <2>4 DEF SessionInv
<1>. QED
  BY <1>2, <1>3, <1>4, <1>5, <1>6, <1>7, <1>8 DEF Next, Stopped

\* Whatever the slots and requests: each request is queued once, held once and, while the
\* kernel waits for it and the worker is not about to stop, never lost.
THEOREM SessionCorrect ==
  ASSUME NoReq \notin Reqs
  PROVE  Spec => []SessionInv
<1>1. SessionInv /\ [Next]_vars => SessionInv'
  BY NextSession
<1>. QED
  BY <1>1, InitSession, PTL DEF Spec
=============================================================================
