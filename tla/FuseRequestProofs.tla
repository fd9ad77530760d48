-------------------------- MODULE FuseRequestProofs --------------------------
(***************************************************************************)
(* TLAPS proofs about FuseRequest, for every set of slots, requests and    *)
(* messages and every size: IInv of FuseRequestInv is inductive.           *)
(***************************************************************************)
EXTENDS FuseRequestInv, TLAPS, SequenceTheorems

\* The first n elements of a sequence.
LEMMA TakeFacts ==
  ASSUME NEW S, NEW s \in Seq(S), NEW n \in 0..Len(s)
  PROVE  /\ Take(s, n) \in Seq(S)
         /\ Len(Take(s, n)) = n
         /\ \A i \in 1..n : Take(s, n)[i] = s[i]
BY DEF Take

\* What is left of a sequence without its first n elements.
LEMMA DropFacts ==
  ASSUME NEW S, NEW s \in Seq(S), NEW n \in 0..Len(s)
  PROVE  /\ Drop(s, n) \in Seq(S)
         /\ Len(Drop(s, n)) = Len(s) - n
         /\ \A i \in 1..(Len(s) - n) : Drop(s, n)[i] = s[n + i]
BY DEF Drop

\* An empty sequence is the one of length 0.
LEMMA LenZero ==
  ASSUME NEW S, NEW s \in Seq(S)
  PROVE  s = <<>> <=> Len(s) = 0
OBVIOUS

\* Appending a second result.
LEMMA SecondResult ==
  ASSUME NEW S, NEW a \in S, NEW b \in S
  PROVE  <<a>> \o <<b>> = <<a, b>>
<1>. DEFINE s == <<a>>
            t == <<b>>
<1>1. s \in Seq(S) /\ t \in Seq(S) /\ Len(s) = 1 /\ Len(t) = 1
  OBVIOUS
<1>2. /\ s \o t \in Seq(S) /\ Len(s \o t) = 2
      /\ (s \o t)[1] = a /\ (s \o t)[2] = b
  BY <1>1, ConcatProperties
<1>3. <<a, b>> \in Seq(S) /\ Len(<<a, b>>) = 2
  OBVIOUS
<1>. DEFINE x == s \o t
            y == <<a, b>>
<1>4. \A i \in 1..2 : x[i] = y[i]
  BY <1>2
<1>5. x \in Seq(S) /\ y \in Seq(S) /\ Len(x) = 2 /\ Len(y) = 2
  BY <1>2, <1>3
<1>6. x = y
  <2>. HIDE DEF x, y
  <2>. QED
    BY <1>4, <1>5, SeqEqual
<1>. QED
  BY <1>6

\* A remainder is below its modulus, and a number below the modulus is its
\* own remainder.
LEMMA ModFacts ==
  ASSUME NEW a \in Int, NEW b \in Nat \ {0}
  PROVE  /\ a % b \in 0..(b - 1)
         /\ a \in 0..(b - 1) => a % b = a
OBVIOUS

\* The cells of a message, a reply and a stretch of file data.
LEMMA CellFacts ==
  /\ \A u \in Reqs, i \in Nat : ReqCell(u, i) \in Cell
  /\ \A r \in Reply, i \in Nat : r.req \in Reqs => ReplyCell(r, i) \in Cell
  /\ \A u, i : ReqCell(u, i).req = u
  /\ \A r, i : ReplyCell(r, i).req = r.req
BY DEF ReqCell, ReplyCell, Cell, Parts, Reply

\* The fields of the message of a request, and its length.
LEMMA MessageFacts ==
  ASSUME TypeOK, NEW u \in Reqs
  PROVE  /\ msg[u].op \in Opcodes
         /\ msg[u].node \in Nat /\ msg[u].fh \in Nat /\ msg[u].body \in Nat
         /\ msg[u].off \in Nat /\ msg[u].size \in Nat
         /\ OutHeader + msg[u].size < SizeMod
         /\ ReqLen(u) \in Nat /\ ReqLen(u) = InHeader + msg[u].body
         /\ ReqLen(u) >= InHeader /\ InHeader \in Nat /\ InHeader > 0
<1>1. msg[u] \in Messages
  BY DEF TypeOK
<1>2. msg[u] \in Message /\ OutHeader + msg[u].size < SizeMod
  BY <1>1, ConstAssumption
<1>3. InHeader \in Nat /\ InHeader > 0
  BY ConstAssumption
<1>4. /\ msg[u].op \in Opcodes
      /\ msg[u].node \in Nat /\ msg[u].fh \in Nat /\ msg[u].body \in Nat
      /\ msg[u].off \in Nat /\ msg[u].size \in Nat
  BY <1>2 DEF Message
<1>. QED
  BY <1>2, <1>3, <1>4 DEF ReqLen

-----------------------------------------------------------------------------
(* Slots that a step leaves alone.                                         *)

\* A busy slot holds the request whose message it reads.
LEMMA HoldsReading ==
  ASSUME TypeOK, NEW io \in Ios, NEW u \in Reqs, pc[io] # "pool",
         Reading(io, u) \/ HeaderOf(io, u)
  PROVE  Holds(io, u)
<1>. DEFINE c == ReqCell(u, 1)
<1>1. c.req = u
  BY DEF ReqCell
<1>2. Len(header_buf[io]) \in Nat /\ Len(pipe[io]) \in Nat
  BY DEF TypeOK
<1>3. ReqLen(u) > 0
  BY MessageFacts, ConstAssumption
<1>4. CASE Len(header_buf[io]) = 0
  <2>1. Reading(io, u)
    BY <1>4, MessageFacts DEF HeaderOf, init_read
  <2>2. Len(pipe[io]) > 0 /\ pipe[io][1] = ReqCell(u, 0 + 1)
    BY <1>2, <1>3, <1>4, <2>1 DEF Reading
  <2>3. c \in Cells(pipe[io])
    BY <1>2, <2>2 DEF Cells
  <2>. QED
    BY <1>1, <2>3 DEF Holds
<1>5. CASE Len(header_buf[io]) # 0
  <2>1. 1 \in 1..Len(header_buf[io])
    BY <1>2, <1>5
  <2>2. header_buf[io][1] = c
    BY <2>1 DEF Reading, HeaderOf
  <2>3. c \in Cells(header_buf[io])
    BY <2>1, <2>2 DEF Cells
  <2>. QED
    BY <1>1, <2>3 DEF Holds
<1>. QED
  BY <1>4, <1>5

\* The state of a slot depends on its own variables, on the messages of the
\* requests it holds and, while it is free, on whether a task has failed.
LEMMA SlotStable ==
  ASSUME TypeOK, NEW io \in Ios, SlotInv(io),
         last_rc' = 0 => last_rc = 0,
         pc'[io] = pc[io], sqes'[io] = sqes[io], res'[io] = res[io],
         pipe'[io] = pipe[io], header_buf'[io] = header_buf[io],
         rbytes'[io] = rbytes[io], read_done'[io] = read_done[io],
         reply'[io] = reply[io],
         \A u \in Reqs : Holds(io, u) => msg'[u] = msg[u]
  PROVE  SlotInv(io)'
<1>. DEFINE Same(u) == msg'[u] = msg[u]
<1>1. CASE pc[io] = "pool"
  BY <1>1 DEF SlotInv, InPool
<1>2. CASE pc[io] = "fuse_read"
  <2>1. \A u \in Reqs : Reading(io, u) => Reading(io, u)' /\ ReqLen(u)' = ReqLen(u)
    BY <1>2, HoldsReading DEF Reading, ReqLen
  <2>. QED
    BY <1>2, <2>1 DEF SlotInv, InFuseRead
<1>3. CASE pc[io] = "fuse_header"
  <2>1. PICK u \in Reqs : InFuseHeader(io, u)
    BY <1>3 DEF SlotInv
  <2>2. Same(u)
    BY <1>3, <2>1, HoldsReading DEF InFuseHeader
  <2>3. InFuseHeader(io, u)'
    BY <2>1, <2>2 DEF InFuseHeader, Reading, ReqLen, init_read
  <2>. QED
    BY <1>3, <2>3 DEF SlotInv
<1>4. CASE pc[io] = "rbytes"
  <2>1. PICK u \in Reqs : InRbytes(io, u)
    BY <1>4 DEF SlotInv
  <2>2. Same(u)
    BY <1>4, <2>1, HoldsReading DEF InRbytes
  <2>3. InRbytes(io, u)'
    BY <2>1, <2>2 DEF InRbytes, HeaderOf, init_read, ReqLen
  <2>. QED
    BY <1>4, <2>3 DEF SlotInv
<1>5. CASE pc[io] = "reply"
  <2>1. PICK u \in Reqs : InReply(io, u)
    BY <1>5 DEF SlotInv
  <2>2. InReply(io, u)'
    BY <2>1 DEF InReply, HeaderOf, init_read
  <2>. QED
    BY <1>5, <2>2 DEF SlotInv
<1>6. CASE pc[io] = "read"
  <2>1. PICK u \in Reqs : InRead(io, u)
    BY <1>6 DEF SlotInv
  <2>2. Same(u)
    BY <1>6, <2>1, HoldsReading DEF InRead
  <2>3. InRead(io, u)'
    BY <2>1, <2>2 DEF InRead, HeaderOf, init_read
  <2>. QED
    BY <1>6, <2>3 DEF SlotInv
<1>7. CASE pc[io] = "write"
  <2>1. PICK u \in Reqs : InWrite(io, u)
    BY <1>7 DEF SlotInv
  <2>2. Same(u)
    BY <1>7, <2>1, HoldsReading DEF InWrite
  <2>3. InWrite(io, u)'
    BY <2>1, <2>2 DEF InWrite, HeaderOf, init_read
  <2>. QED
    BY <1>7, <2>3 DEF SlotInv
<1>. QED
  BY <1>1, <1>2, <1>3, <1>4, <1>5, <1>6, <1>7 DEF SlotInv, TypeOK, Labels

\* A step of one slot leaves the variables of the others alone.
OnlySlot(io) ==
  \A j \in Ios \ {io} :
    /\ pc'[j] = pc[j] /\ sqes'[j] = sqes[j] /\ res'[j] = res[j]
    /\ pipe'[j] = pipe[j] /\ header_buf'[j] = header_buf[j]
    /\ rbytes'[j] = rbytes[j] /\ read_done'[j] = read_done[j]
    /\ reply'[j] = reply[j]

\* A step that gives no slot a request it did not hold, and that answers
\* requests at most, keeps the queue's order and the owners of requests.
LEMMA QueueStable ==
  ASSUME TypeOK, QueueInv, OneSlotPerRequest, UNCHANGED pending,
         \A io \in Ios, u \in Reqs : Holds(io, u)' => Holds(io, u),
         \A u \in Reqs : \/ kstate'[u] = kstate[u]
                         \/ kstate[u] = "processing" /\ kstate'[u] = "answered"
  PROVE  QueueInv' /\ OneSlotPerRequest'
<1>1. \A i \in 1..Len(pending) : pending[i] \in Reqs
  BY DEF TypeOK
<1>2. OneSlotPerRequest'
  BY DEF OneSlotPerRequest
<1>3. QueueInv'
  BY <1>1 DEF QueueInv
<1>. QED
  BY <1>2, <1>3

\* A coroutine's step copies nothing into a pipe: it holds what it held.
LEMMA ResumeHolds ==
  ASSUME TypeOK, UNCHANGED <<pipe, header_buf>>,
         \A j \in Ios : pc'[j] # "pool" => pc[j] # "pool"
  PROVE  \A j \in Ios, u \in Reqs : Holds(j, u)' => Holds(j, u)
BY DEF Holds

\* The other slots are as they were when one slot takes a step.
LEMMA OtherSlots ==
  ASSUME IInv, NEW io \in Ios, OnlySlot(io), UNCHANGED msg,
         last_rc' = 0 => last_rc = 0, SlotInv(io)'
  PROVE  \A j \in Ios : SlotInv(j)'
<1>. SUFFICES ASSUME NEW j \in Ios, j # io
              PROVE  SlotInv(j)'
  OBVIOUS
<1>1. TypeOK /\ SlotInv(j)
  BY DEF IInv
<1>. QED
  BY <1>1, SlotStable DEF OnlySlot

-----------------------------------------------------------------------------
(* The steps of coroutines.                                                *)

\* co_return, with a pipe that is empty if the task did not fail.
LEMMA ReturnStep ==
  ASSUME IInv, NEW io \in Ios, NEW rc \in {0, -1}, Return(io, rc),
         phase = "reap", pc[io] # "pool", sqes[io] = <<>>,
         UNCHANGED <<phase, kernelVars, pipe, header_buf>>,
         rc = 0 => pipe[io] = <<>>
  PROVE  IInv'
<1>. USE DEF kernelVars
<1>1. TypeOK'
  <2>1. pc' \in [Ios -> Labels] /\ last_rc' \in {0, -1}
    BY DEF IInv, TypeOK, Return, Labels
  <2>2. res' \in [Ios -> Seq(Results)] /\ reply' \in [Ios -> Reply]
    BY DEF IInv, TypeOK, Return, Reply, NoReply
  <2>3. /\ rbytes' \in [Ios -> Nat] /\ read_done' \in [Ios -> Nat]
        /\ body_at' \in [Ios -> {"none", "header", "scratch", "heap"}]
    BY DEF IInv, TypeOK, Return
  <2>. QED
    BY <2>1, <2>2, <2>3 DEF IInv, TypeOK, Return
<1>2. PhaseInv'
  BY DEF PhaseInv
<1>3. QueueInv' /\ OneSlotPerRequest'
  <2>1. \A j \in Ios : pc'[j] # "pool" => pc[j] # "pool"
    BY DEF IInv, TypeOK, Return
  <2>. QED
    BY <2>1, ResumeHolds, QueueStable DEF IInv
<1>4. OnlySlot(io)
  BY DEF OnlySlot, IInv, TypeOK, Return
<1>5. SlotInv(io)'
  <2>1. pc'[io] = "pool" /\ sqes'[io] = <<>> /\ (last_rc' = 0 => rc = 0)
    BY DEF IInv, TypeOK, Return
  <2>. QED
    BY <2>1 DEF SlotInv, InPool
<1>6. last_rc' = 0 => last_rc = 0
  BY DEF Return
<1>. QED
  BY <1>1, <1>2, <1>3, <1>4, <1>5, <1>6, OtherSlots DEF IInv

\* co_await, at label l, of a chain.
LEMMA AwaitStep ==
  ASSUME IInv, NEW io \in Ios, NEW l \in Labels, NEW chain \in Seq(SqeSet),
         Await(io, l, chain), phase = "reap", pc[io] # "pool",
         UNCHANGED <<phase, kernelVars, pipe, header_buf>>,
         rbytes' \in [Ios -> Nat], read_done' \in [Ios -> Nat],
         reply' \in [Ios -> Reply], scratch_len' \in [Ios -> Nat],
         body_at' \in [Ios -> {"none", "header", "scratch", "heap"}],
         \A j \in Ios \ {io} : /\ rbytes'[j] = rbytes[j]
                              /\ read_done'[j] = read_done[j]
                              /\ reply'[j] = reply[j],
         SlotInv(io)'
  PROVE  IInv'
<1>. USE DEF kernelVars
<1>1. TypeOK'
  <2>1. pc' \in [Ios -> Labels] /\ last_rc' \in {0, -1}
    BY DEF IInv, TypeOK, Await
  <2>2. sqes' \in [Ios -> Seq(SqeSet)] /\ res' \in [Ios -> Seq(Results)]
    BY DEF IInv, TypeOK, Await
  <2>. QED
    BY <2>1, <2>2 DEF IInv, TypeOK
<1>2. PhaseInv'
  BY DEF PhaseInv
<1>3. QueueInv' /\ OneSlotPerRequest'
  <2>1. \A j \in Ios : pc'[j] # "pool" => pc[j] # "pool"
    BY DEF IInv, TypeOK, Await
  <2>. QED
    BY <2>1, ResumeHolds, QueueStable DEF IInv
<1>4. OnlySlot(io)
  BY DEF OnlySlot, IInv, TypeOK, Await
<1>. QED
  BY <1>1, <1>2, <1>3, <1>4, OtherSlots DEF IInv, Await

\* The chains the coroutines submit are well-formed.
LEMMA ChainTypes ==
  ASSUME NEW size \in Nat, NEW len \in Nat
  PROVE  /\ FuseReadChain \in Seq(SqeSet)
         /\ HeaderChain(len) \in Seq(SqeSet) /\ BodyChain(len) \in Seq(SqeSet)
         /\ ReplyChain(len) \in Seq(SqeSet)
         /\ ReadChain(size, len) \in Seq(SqeSet)
         /\ WriteChain(size, len) \in Seq(SqeSet)
<1>1. \A op \in SqeOps, n \in Nat, k \in Links : Sqe(op, n, k) \in SqeSet
  BY DEF Sqe, SqeSet
<1>2. InHeader + WriteIn \in Nat /\ OutHeader \in Nat
  BY ConstAssumption DEF OutHeader
<1>. QED
  BY <1>1, <1>2 DEF FuseReadChain, HeaderChain, BodyChain, ReplyChain, ReadChain,
                    WriteChain, SqeOps, Links

\* The sizes of a body, of a READ's data and of a reply.
LEMMA SizeFacts ==
  ASSUME TypeOK, NEW u \in Reqs
  PROVE  /\ ReadSize(msg[u]) \in Nat
         /\ (OutHeader + ReadSize(msg[u])) % SizeMod \in Nat
         /\ BodySize(msg[u], ReqLen(u)) \in Nat
         /\ ReplyLen(msg[u]) \in Nat \ {0}
<1>1. SizeMod \in Nat \ {0} /\ FileSize \in Nat /\ WriteIn \in Nat
  BY ConstAssumption
<1>2. (FileSize - msg[u].off) % SizeMod \in Nat
  <2>1. FileSize - msg[u].off \in Int
    BY <1>1, MessageFacts
  <2>. QED
    BY <1>1, <2>1, ModFacts
<1>3. ReadSize(msg[u]) \in Nat
  BY <1>2, MessageFacts DEF ReadSize
<1>4. (OutHeader + ReadSize(msg[u])) % SizeMod \in Nat
  BY <1>1, <1>3, ModFacts DEF OutHeader
<1>5. BodySize(msg[u], ReqLen(u)) \in Nat
  BY <1>1, MessageFacts DEF BodySize
<1>6. ReplyLen(msg[u]) \in Nat \ {0}
  BY DEF ReplyLen, OutHeader, OutBody
<1>. QED
  BY <1>3, <1>4, <1>5, <1>6

\* A handler, called with the whole header and body read: what is left in the
\* pipe is the payload of a WRITE.
LEMMA HandleStep ==
  ASSUME IInv, NEW io \in Ios, NEW u \in Reqs, Handle(io, u),
         phase = "reap", pc[io] # "pool",
         UNCHANGED <<phase, kernelVars, pipe, header_buf>>,
         rbytes' \in [Ios -> Nat], read_done' \in [Ios -> Nat],
         body_at' \in [Ios -> {"none", "header", "scratch", "heap"}],
         \A j \in Ios \ {io} : /\ rbytes'[j] = rbytes[j]
                              /\ read_done'[j] = read_done[j],
         HeaderOf(io, u), BodyCells(pipe[io], u),
         msg[u].op # "WRITE" => pipe[io] = <<>>,
         msg[u].op = "WRITE" => Len(pipe[io]) = msg[u].body - WriteIn
  PROVE  IInv'
<1>. USE DEF kernelVars
<1>1. TypeOK /\ scratch_len[io] \in Nat
  BY DEF IInv, TypeOK
<1>2. HeaderOf(io, u)' /\ BodyCells(pipe'[io], u)
  BY DEF HeaderOf, init_read
<1>3. ASSUME NEW err \in BOOLEAN, NEW len \in Nat, send_reply(io, u, err, len),
             scratch_len' \in [Ios -> Nat], len = 0 => pipe[io] = <<>>
      PROVE  IInv'
  <2>1. reply' \in [Ios -> Reply] /\ \A j \in Ios \ {io} : reply'[j] = reply[j]
    BY <1>1, <1>3 DEF TypeOK, send_reply, Reply
  <2>2. reply'[io] = [req |-> u, err |-> err, len |-> len]
    BY <1>1, <1>3 DEF TypeOK, send_reply
  <2>3. pc'[io] = "reply" /\ sqes'[io] = ReplyChain(len) /\ res'[io] = <<>>
    BY <1>1, <1>3 DEF TypeOK, send_reply, Await
  <2>4. InReply(io, u)'
    BY <1>2, <1>3, <2>2, <2>3 DEF InReply
  <2>5. SlotInv(io)'
    BY <2>3, <2>4 DEF SlotInv
  <2>. QED
    BY <1>3, <2>1, <2>5, ChainTypes, AwaitStep DEF send_reply, Labels
<1>4. ASSUME NEW err \in BOOLEAN, NEW len \in Nat \ {0}, send_scratch(io, u, err, len)
      PROVE  IInv'
  <2>1. scratch_len' \in [Ios -> Nat]
    BY <1>1, <1>4 DEF TypeOK, send_scratch
  <2>. QED
    BY <1>3, <1>4, <2>1 DEF send_scratch
<1>5. CASE handle_simple(io, u)
  <2>. DEFINE err == ReplyErr(msg[u])
              len == ReplyLen(msg[u])
              old == found_len(io, u)
  <2>1. err \in BOOLEAN /\ len \in Nat \ {0} /\ old \in Nat
    BY <1>1, SizeFacts, MessageFacts DEF ReplyErr, found_len
  <2>. HIDE DEF err, len, old
  <2>2. CASE msg[u].op = "READDIR"
    <3>1. /\ send_reply(io, u, err, len)
          /\ scratch_len' = [scratch_len EXCEPT ![io] = old]
      BY <1>5, <2>2 DEF handle_simple, err, len, old
    <3>2. scratch_len' \in [Ios -> Nat]
      BY <1>1, <2>1, <3>1 DEF TypeOK
    <3>. QED
      BY <1>3, <2>1, <3>1, <3>2
  <2>3. CASE msg[u].op # "READDIR"
    <3>1. send_scratch(io, u, err, len)
      BY <1>5, <2>3 DEF handle_simple, err, len
    <3>. QED
      BY <1>4, <2>1, <3>1
  <2>. QED
    BY <2>2, <2>3
<1>6. CASE handle_read_noent(io, u)
  <2>. DEFINE len == found_len(io, u)
  <2>1. len \in Nat
    BY <1>1, MessageFacts DEF found_len
  <2>. HIDE DEF len
  <2>2. /\ send_reply(io, u, TRUE, len) /\ pipe[io] = <<>> /\ TRUE \in BOOLEAN
        /\ scratch_len' = [scratch_len EXCEPT ![io] = len]
    BY <1>6 DEF handle_read_noent, send_scratch, len
  <2>3. scratch_len' \in [Ios -> Nat]
    BY <1>1, <2>1, <2>2 DEF TypeOK
  <2>. QED
    BY <1>3, <2>1, <2>2, <2>3
<1>7. CASE handle_write_refused(io, u)
  <2>1. OutHeader \in Nat \ {0} /\ TRUE \in BOOLEAN
    BY DEF OutHeader
  <2>2. send_scratch(io, u, TRUE, OutHeader)
    BY <1>7 DEF handle_write_refused
  <2>. QED
    BY <1>4, <2>1, <2>2
<1>8. CASE handle_read(io, u)
  <2>. DEFINE size == ReadSize(msg[u])
              len  == (OutHeader + size) % SizeMod
  <2>1. size \in Nat /\ len \in Nat
    BY <1>1, SizeFacts
  <2>. HIDE DEF size, len
  <2>2. /\ Await(io, "read", ReadChain(size, len))
        /\ reply' = [reply EXCEPT ![io] = [req |-> u, err |-> FALSE, len |-> len]]
        /\ scratch_len' = [scratch_len EXCEPT ![io] = len]
        /\ msg[u].op = "READ"
    BY <1>8 DEF handle_read, size, len
  <2>3. /\ scratch_len' \in [Ios -> Nat] /\ reply' \in [Ios -> Reply]
        /\ \A j \in Ios \ {io} : reply'[j] = reply[j]
    BY <1>1, <2>1, <2>2 DEF TypeOK, Reply
  <2>4. /\ reply'[io] = [req |-> u, err |-> FALSE, len |-> len]
        /\ pc'[io] = "read" /\ sqes'[io] = ReadChain(size, len) /\ res'[io] = <<>>
    BY <1>1, <2>2 DEF TypeOK, Await
  <2>5. InRead(io, u)'
    BY <1>2, <2>2, <2>4 DEF InRead, size, len, CellsOf
  <2>6. SlotInv(io)'
    BY <2>4, <2>5 DEF SlotInv
  <2>. QED
    BY <2>1, <2>2, <2>3, <2>6, ChainTypes, AwaitStep DEF Labels
<1>9. CASE handle_write(io, u)
  <2>. DEFINE size == msg[u].size
              len  == OutHeader + OutBody
  <2>1. size \in Nat /\ len \in Nat
    BY <1>1, MessageFacts DEF OutHeader, OutBody
  <2>2. Len(pipe[io]) = size
    BY <1>1, <1>9, MessageFacts, ConstAssumption DEF handle_write
  <2>. HIDE DEF size, len
  <2>3. /\ Await(io, "write", WriteChain(size, len))
        /\ reply' = [reply EXCEPT ![io] = [req |-> u, err |-> FALSE, len |-> len]]
        /\ scratch_len' = [scratch_len EXCEPT ![io] = len]
        /\ msg[u].op = "WRITE"
    BY <1>9 DEF handle_write, size, len
  <2>4. /\ scratch_len' \in [Ios -> Nat] /\ reply' \in [Ios -> Reply]
        /\ \A j \in Ios \ {io} : reply'[j] = reply[j]
    BY <1>1, <2>1, <2>3 DEF TypeOK, Reply
  <2>5. /\ reply'[io] = [req |-> u, err |-> FALSE, len |-> len]
        /\ pc'[io] = "write" /\ sqes'[io] = WriteChain(size, len) /\ res'[io] = <<>>
    BY <1>1, <2>3 DEF TypeOK, Await
  <2>6. CellsOf(pipe'[io], u)
    BY <1>2 DEF CellsOf, BodyCells
  <2>7. InWrite(io, u)'
    BY <1>2, <2>2, <2>3, <2>5, <2>6 DEF InWrite, size, len
  <2>8. SlotInv(io)'
    BY <2>5, <2>7 DEF SlotInv
  <2>. QED
    BY <2>1, <2>3, <2>4, <2>8, ChainTypes, AwaitStep DEF Labels
<1>. QED
  BY <1>5, <1>6, <1>7, <1>8, <1>9 DEF Handle

\* A chain that has completed is none of the chains still to run.
LEMMA ChainsRemain ==
  ASSUME NEW size, NEW len
  PROVE  /\ FuseReadChain # <<>> /\ Tail(FuseReadChain) # <<>>
         /\ HeaderChain(len) # <<>> /\ BodyChain(len) # <<>>
         /\ ReplyChain(len) # <<>> /\ Tail(ReplyChain(len)) # <<>>
         /\ ReadChain(size, len) # <<>> /\ Tail(ReadChain(size, len)) # <<>>
         /\ Tail(Tail(ReadChain(size, len))) # <<>>
         /\ WriteChain(size, len) # <<>> /\ Tail(WriteChain(size, len)) # <<>>
         /\ Tail(Tail(WriteChain(size, len))) # <<>>
BY DEF FuseReadChain, HeaderChain, BodyChain, ReplyChain, ReadChain, WriteChain

\* From a complete header to the handler, or to the first read of the body.
LEMMA DispatchStep ==
  ASSUME IInv, NEW io \in Ios, NEW u \in Reqs, Dispatch(io, ReqLen(u)),
         Reading(io, u), init_read(io) >= InHeader,
         init_read(io) <= InHeader + WriteIn,
         phase = "reap", pc[io] # "pool", sqes[io] = <<>>,
         UNCHANGED <<phase, kernelVars, pipe, header_buf>>
  PROVE  IInv'
<1>. DEFINE n == ReqLen(u)
            need == BodySize(msg[u], n)
            have == init_read(io) - InHeader
            match == need = 0 \/ msg[u].op = "WRITE" \/ need = n - InHeader
<1>1. TypeOK
  BY DEF IInv
<1>2. /\ n \in Nat /\ n = InHeader + msg[u].body /\ msg[u].body \in Nat
      /\ InHeader \in Nat \ {0} /\ WriteIn \in Nat \ {0} /\ need \in Nat
      /\ Len(header_buf[io]) \in Nat /\ Len(pipe[io]) \in Nat
  <2>1. /\ n \in Nat /\ n = InHeader + msg[u].body /\ msg[u].body \in Nat
    BY <1>1, MessageFacts
  <2>2. need \in Nat
    BY <1>1, SizeFacts
  <2>3. Len(header_buf[io]) \in Nat /\ Len(pipe[io]) \in Nat
    BY <1>1 DEF TypeOK
  <2>. QED
    BY <2>1, <2>2, <2>3, ConstAssumption
<1>3. HeaderOf(io, u) /\ fheader(io) = u
  <2>1. 1 \in 1..Len(header_buf[io])
    BY <1>2 DEF init_read
  <2>2. header_buf[io][1] = ReqCell(u, 1)
    BY <2>1 DEF Reading
  <2>. QED
    BY <2>2 DEF Reading, HeaderOf, fheader, ReqCell
<1>4. BodyCells(pipe[io], u)
  <2>. SUFFICES ASSUME NEW i \in 1..Len(pipe[io])
                PROVE  pipe[io][i] = [req |-> u, part |-> "body"]
    BY DEF BodyCells
  <2>1. pipe[io][i] = ReqCell(u, Len(header_buf[io]) + i)
    BY DEF Reading
  <2>2. ~(Len(header_buf[io]) + i <= InHeader)
    BY <1>2 DEF init_read
  <2>. QED
    BY <2>1, <2>2 DEF ReqCell
<1>5. Len(pipe[io]) + have = msg[u].body /\ have \in Nat /\ have <= WriteIn
  <2>. DEFINE h == Len(header_buf[io])
              p == Len(pipe[io])
  <2>1. h + p = InHeader + msg[u].body
    BY <1>2 DEF Reading
  <2>2. h >= InHeader /\ h <= InHeader + WriteIn /\ have = h - InHeader
    BY DEF init_read
  <2>3. h \in Nat /\ p \in Nat /\ InHeader \in Nat /\ WriteIn \in Nat /\ msg[u].body \in Nat
    BY <1>2
  <2>. HIDE DEF n, need, have, match, h, p
  <2>4. p + have = msg[u].body /\ have \in Nat /\ have <= WriteIn
    BY <2>1, <2>2, <2>3
  <2>. QED
    BY <2>4 DEF p
<1>6. msg[u].op = "WRITE" => need = WriteIn
  BY DEF BodySize, FixedBody
<1>7. need = 0 => msg[u].body = 0
  BY <1>1, <1>2, MessageFacts DEF BodySize
<1>8. CASE ~match
  <2>1. Return(io, -1)
    BY <1>3, <1>8 DEF Dispatch
  <2>. QED
    BY <2>1, ReturnStep
<1>9. CASE match
  <2>1. rbytes' = [rbytes EXCEPT ![io] = n] /\ read_rbytes(io, u, need)
    BY <1>3, <1>9 DEF Dispatch
  <2>2. rbytes' \in [Ios -> Nat] /\ \A j \in Ios \ {io} : rbytes'[j] = rbytes[j]
    BY <1>1, <1>2, <2>1 DEF TypeOK
  <2>3. read_done \in [Ios -> Nat] /\ body_at \in [Ios -> {"none", "header", "scratch", "heap"}]
    BY <1>1 DEF TypeOK
  <2>4. msg[u].op # "WRITE" => need = msg[u].body
    BY <1>2, <1>7, <1>9
  <2>. HIDE DEF n, need, match
  <2>5. CASE need = 0
    <3>1. Handle(io, u) /\ UNCHANGED <<body_at, read_done>>
      BY <1>2, <2>1, <2>5 DEF read_rbytes
    <3>2. pipe[io] = <<>> /\ msg[u].op # "WRITE"
      <4>1. msg[u].body = 0 /\ msg[u].op # "WRITE"
        BY <1>2, <1>6, <1>7, <2>5
      <4>2. Len(pipe[io]) = 0
        <5>. HIDE DEF have
        <5>. QED
          BY <1>2, <1>5, <4>1
      <4>. QED
        BY <1>1, <4>1, <4>2, LenZero DEF TypeOK
    <3>. QED
      BY <1>3, <1>4, <2>2, <2>3, <3>1, <3>2, HandleStep
  <2>6. CASE need > 0 /\ have = need
    <3>1. /\ Handle(io, u) /\ read_done' = read_done
          /\ body_at' = [body_at EXCEPT ![io] =
                           IF AddZero(msg[u]) THEN CopyTo(msg[u], need)
                           ELSE "header"]
      BY <1>2, <2>1, <2>6 DEF read_rbytes
    <3>2. body_at' \in [Ios -> {"none", "header", "scratch", "heap"}]
      BY <2>3, <3>1 DEF CopyTo
    <3>3. msg[u].op # "WRITE" => pipe[io] = <<>>
      BY <1>1, <1>2, <1>5, <2>4, <2>6, LenZero DEF TypeOK
    <3>4. msg[u].op = "WRITE" => Len(pipe[io]) = msg[u].body - WriteIn
      BY <1>2, <1>5, <1>6, <2>6
    <3>. QED
      BY <1>3, <1>4, <2>2, <2>3, <3>1, <3>2, <3>3, <3>4, HandleStep
  <2>7. CASE need > 0 /\ have # need
    <3>1. /\ body_at' = [body_at EXCEPT ![io] = CopyTo(msg[u], need)]
          /\ read_done' = [read_done EXCEPT ![io] = have]
          /\ Await(io, "rbytes", BodyChain(need - have))
          /\ UNCHANGED <<reply, scratch_len>>
      BY <1>2, <2>1, <2>7 DEF read_rbytes
    <3>2. /\ body_at' \in [Ios -> {"none", "header", "scratch", "heap"}]
          /\ read_done' \in [Ios -> Nat]
          /\ \A j \in Ios \ {io} : read_done'[j] = read_done[j]
      BY <1>5, <2>3, <3>1 DEF CopyTo
    <3>3. reply' \in [Ios -> Reply] /\ scratch_len' \in [Ios -> Nat]
      BY <1>1, <3>1 DEF TypeOK
    <3>4. have < need /\ need - have \in Nat
      <4>1. need = WriteIn \/ need = msg[u].body
        BY <1>6, <2>4
      <4>2. /\ have \in Nat /\ need \in Nat /\ have # need /\ have <= WriteIn
            /\ WriteIn \in Nat /\ Len(pipe[io]) \in Nat /\ msg[u].body \in Nat
            /\ Len(pipe[io]) + have = msg[u].body
        BY <1>2, <1>5, <2>7
      <4>. HIDE DEF have
      <4>3. have <= need
        BY <4>1, <4>2
      <4>. QED
        BY <4>2, <4>3
    <3>5. /\ pc'[io] = "rbytes" /\ sqes'[io] = BodyChain(need - have)
          /\ res'[io] = <<>> /\ rbytes'[io] = n /\ read_done'[io] = have
      BY <1>1, <2>1, <3>1 DEF TypeOK, Await
    <3>6. InRbytes(io, u)'
      <4>1. HeaderOf(io, u)' /\ BodyCells(pipe'[io], u) /\ ReqLen(u)' = n
        BY <1>3, <1>4 DEF HeaderOf, init_read, kernelVars, ReqLen, n
      <4>2. BodySize(msg'[u], rbytes'[io]) = need
        BY <3>5 DEF kernelVars, need
      <4>. HIDE DEF have
      <4>. QED
        BY <1>2, <1>5, <2>4, <3>4, <3>5, <4>1, <4>2 DEF InRbytes, kernelVars
    <3>7. SlotInv(io)'
      BY <3>5, <3>6 DEF SlotInv
    <3>. QED
      <4>1. BodyChain(need - have) \in Seq(SqeSet)
        BY <3>4, ChainTypes
      <4>2. \A j \in Ios \ {io} : reply'[j] = reply[j]
        BY <3>1
      <4>. HIDE DEF have
      <4>. QED
        BY <2>2, <3>1, <3>2, <3>3, <3>7, <4>1, <4>2, AwaitStep DEF Labels
  <2>. QED
    BY <1>2, <2>5, <2>6, <2>7 DEF need
<1>. QED
  BY <1>8, <1>9

\* What holds of a slot whose coroutine is resumed.
LEMMA ResumedFacts ==
  ASSUME IInv, NEW io \in Ios, NEW l, Resumed(io, l)
  PROVE  /\ phase = "reap" /\ pc[io] = l /\ pc[io] # "pool" /\ sqes[io] = <<>>
         /\ UNCHANGED <<phase, kernelVars, pipe, header_buf>>
         /\ TypeOK /\ SlotInv(io)
BY DEF Resumed, Completed, IInv

\* The end of the first chain: the request fails, its header is read on, or it is
\* dispatched with the whole header in header_buf.
LEMMA StepFuseRead ==
  ASSUME IInv, NEW io \in Ios, ResumeFuseRead(io)
  PROVE  IInv'
<1>1. Resumed(io, "fuse_read")
  BY DEF ResumeFuseRead
<1>2. InFuseRead(io) /\ sqes[io] = <<>> /\ TypeOK
  BY <1>1, ResumedFacts DEF SlotInv
<1>3. /\ Len(res[io]) = 2 /\ Len(header_buf[io]) <= InHeader + WriteIn
      /\ \/ res[io][1] = Err /\ pipe[io] = <<>>
         \/ \E u \in Reqs : Reading(io, u) /\ res[io][1] = ReqLen(u)
  BY <1>2, ChainsRemain DEF InFuseRead
<1>4. Len(header_buf[io]) \in Nat /\ InHeader \in Nat \ {0}
  BY <1>2, ConstAssumption DEF TypeOK
<1>5. CASE Return(io, -1)
  BY <1>1, <1>5, ResumedFacts, ReturnStep
<1>6. ASSUME res[io][1] >= InHeader
      PROVE  \E u \in Reqs : Reading(io, u) /\ res[io][1] = ReqLen(u)
  BY <1>3, <1>4, <1>6 DEF Err
<1>7. CASE /\ res[io][1] >= InHeader /\ init_read(io) < InHeader
           /\ rbytes' = [rbytes EXCEPT ![io] = res[io][1]]
           /\ Await(io, "fuse_header", HeaderChain(InHeader - init_read(io)))
           /\ UNCHANGED <<read_done, body_at, reply, scratch_len>>
  <2>1. PICK u \in Reqs : Reading(io, u) /\ res[io][1] = ReqLen(u)
    BY <1>6, <1>7
  <2>2. ReqLen(u) \in Nat
    BY <1>2, MessageFacts
  <2>3. /\ rbytes' \in [Ios -> Nat] /\ rbytes'[io] = ReqLen(u)
        /\ \A j \in Ios \ {io} : rbytes'[j] = rbytes[j]
    BY <1>2, <1>7, <2>1, <2>2 DEF TypeOK
  <2>4. /\ pc'[io] = "fuse_header" /\ res'[io] = <<>>
        /\ sqes'[io] = HeaderChain(InHeader - init_read(io))
    BY <1>2, <1>7 DEF TypeOK, Await
  <2>5. InHeader - init_read(io) \in Nat
    BY <1>4, <1>7 DEF init_read
  <2>6. UNCHANGED <<header_buf, pipe, msg>>
    BY <1>1, ResumedFacts DEF kernelVars
  <2>7. InFuseHeader(io, u)'
    <3>1. Reading(io, u)' /\ ReqLen(u)' = ReqLen(u)
      BY <2>1, <2>6 DEF Reading, ReqLen
    <3>2. init_read(io)' = init_read(io)
      BY <2>6 DEF init_read
    <3>. QED
      BY <1>7, <2>3, <2>4, <3>1, <3>2 DEF InFuseHeader
  <2>8. SlotInv(io)'
    BY <2>4, <2>7 DEF SlotInv
  <2>9. /\ read_done' \in [Ios -> Nat] /\ reply' \in [Ios -> Reply]
        /\ scratch_len' \in [Ios -> Nat]
        /\ body_at' \in [Ios -> {"none", "header", "scratch", "heap"}]
    BY <1>2, <1>7 DEF TypeOK
  <2>. QED
    BY <1>1, <1>7, <2>3, <2>5, <2>8, <2>9, ResumedFacts, ChainTypes, AwaitStep
       DEF Labels
<1>8. CASE res[io][1] >= InHeader /\ init_read(io) >= InHeader /\ Dispatch(io, res[io][1])
  <2>1. PICK u \in Reqs : Reading(io, u) /\ res[io][1] = ReqLen(u)
    BY <1>6, <1>8
  <2>2. init_read(io) <= InHeader + WriteIn
    BY <1>3 DEF init_read
  <2>. QED
    BY <1>1, <1>8, <2>1, <2>2, ResumedFacts, DispatchStep
<1>. QED
  BY <1>5, <1>7, <1>8 DEF ResumeFuseRead

\* A turn of the loop that reads the rest of a short header.
LEMMA StepFuseHeader ==
  ASSUME IInv, NEW io \in Ios, ResumeFuseHeader(io)
  PROVE  IInv'
<1>1. Resumed(io, "fuse_header")
  BY DEF ResumeFuseHeader
<1>2. PICK u \in Reqs : InFuseHeader(io, u)
  BY <1>1, ResumedFacts DEF SlotInv
<1>3. sqes[io] = <<>> /\ TypeOK
  BY <1>1, ResumedFacts
<1>4. Reading(io, u) /\ rbytes[io] = ReqLen(u) /\ init_read(io) <= InHeader
  BY <1>2, <1>3, ChainsRemain DEF InFuseHeader
<1>5. Len(header_buf[io]) \in Nat /\ InHeader \in Nat \ {0} /\ WriteIn \in Nat
  BY <1>3, ConstAssumption DEF TypeOK
<1>6. CASE Return(io, -1)
  BY <1>1, <1>6, ResumedFacts, ReturnStep
<1>7. CASE /\ init_read(io) < InHeader
           /\ Await(io, "fuse_header", HeaderChain(InHeader - init_read(io)))
           /\ UNCHANGED <<localVars, scratch_len>>
  <2>1. /\ pc'[io] = "fuse_header" /\ res'[io] = <<>>
        /\ sqes'[io] = HeaderChain(InHeader - init_read(io))
    BY <1>3, <1>7 DEF TypeOK, Await
  <2>2. InHeader - init_read(io) \in Nat
    BY <1>5, <1>7 DEF init_read
  <2>3. UNCHANGED <<header_buf, pipe, msg>>
    BY <1>1, ResumedFacts DEF kernelVars
  <2>4. /\ UNCHANGED rbytes /\ rbytes' \in [Ios -> Nat]
        /\ read_done' \in [Ios -> Nat] /\ reply' \in [Ios -> Reply]
        /\ scratch_len' \in [Ios -> Nat]
        /\ body_at' \in [Ios -> {"none", "header", "scratch", "heap"}]
        /\ UNCHANGED <<read_done, reply>>
    BY <1>3, <1>7 DEF TypeOK, localVars
  <2>5. InFuseHeader(io, u)'
    <3>1. Reading(io, u)' /\ ReqLen(u)' = ReqLen(u)
      BY <1>4, <2>3 DEF Reading, ReqLen
    <3>2. init_read(io)' = init_read(io)
      BY <2>3 DEF init_read
    <3>. QED
      BY <1>4, <1>7, <2>1, <2>4, <3>1, <3>2 DEF InFuseHeader
  <2>6. SlotInv(io)'
    BY <2>1, <2>5 DEF SlotInv
  <2>. QED
    BY <1>1, <1>7, <2>2, <2>4, <2>6, ResumedFacts, ChainTypes, AwaitStep DEF Labels
<1>8. CASE init_read(io) >= InHeader /\ Dispatch(io, rbytes[io])
  <2>1. init_read(io) <= InHeader + WriteIn
    BY <1>4, <1>5 DEF init_read
  <2>. QED
    BY <1>1, <1>4, <1>8, <2>1, ResumedFacts, DispatchStep
<1>. QED
  BY <1>6, <1>7, <1>8 DEF ResumeFuseHeader

\* A turn of the loop of read_rbytes, and the handler once the body is complete.
LEMMA StepRbytes ==
  ASSUME IInv, NEW io \in Ios, ResumeRbytes(io)
  PROVE  IInv'
<1>1. Resumed(io, "rbytes")
  BY DEF ResumeRbytes
<1>2. PICK u \in Reqs : InRbytes(io, u)
  BY <1>1, ResumedFacts DEF SlotInv
<1>3. sqes[io] = <<>> /\ TypeOK /\ UNCHANGED <<header_buf, pipe, msg>>
  BY <1>1, ResumedFacts DEF kernelVars
<1>. DEFINE n    == ReqLen(u)
            need == BodySize(msg[u], n)
            done == read_done[io] + res[io][1]
            p    == Len(pipe[io])
<1>4. /\ HeaderOf(io, u) /\ BodyCells(pipe[io], u) /\ rbytes[io] = n
      /\ msg[u].op # "WRITE" => need = msg[u].body
      /\ res[io][1] <= need - read_done[io] /\ Len(res[io]) = 1
      /\ res[io][1] > 0 => p + read_done[io] + res[io][1] = msg[u].body
  BY <1>2, <1>3, ChainsRemain DEF InRbytes
<1>5. fheader(io) = u
  <2>1. 1 \in 1..Len(header_buf[io])
    BY <1>3, <1>4, ConstAssumption DEF TypeOK, HeaderOf, init_read
  <2>2. header_buf[io][1] = ReqCell(u, 1)
    BY <1>4, <2>1 DEF HeaderOf
  <2>. QED
    BY <2>2 DEF fheader, ReqCell
<1>6. /\ read_done[io] \in Nat /\ res[io][1] \in Int /\ need \in Nat
      /\ p \in Nat /\ msg[u].body \in Nat /\ WriteIn \in Nat
  <2>1. res[io] \in Seq(Results) /\ 1 \in 1..Len(res[io])
    BY <1>3, <1>4 DEF TypeOK
  <2>2. res[io][1] \in Results
    BY <2>1, ElementOfSeq
  <2>3. need \in Nat
    BY <1>3, SizeFacts
  <2>4. read_done[io] \in Nat /\ p \in Nat
    BY <1>3 DEF TypeOK
  <2>5. msg[u].body \in Nat
    BY <1>3, MessageFacts
  <2>. QED
    BY <2>2, <2>3, <2>4, <2>5, ConstAssumption DEF Results, Err
<1>7. CASE Return(io, -1)
  BY <1>1, <1>7, ResumedFacts, ReturnStep
<1>9. \/ Return(io, -1)
      \/ /\ res[io][1] > 0
         /\ read_done' = [read_done EXCEPT ![io] = done]
         /\ UNCHANGED <<rbytes, body_at>>
         /\ \/ /\ done < need /\ Await(io, "rbytes", BodyChain(need - done))
               /\ UNCHANGED <<reply, scratch_len>>
            \/ done >= need /\ Handle(io, u)
  BY <1>4, <1>5 DEF ResumeRbytes
<1>. HIDE DEF need, p
<1>8. CASE /\ res[io][1] > 0
           /\ read_done' = [read_done EXCEPT ![io] = done]
           /\ UNCHANGED <<rbytes, body_at>>
  <2>1. done \in Nat
    BY <1>6, <1>8
  <2>2. p + done = msg[u].body
    BY <1>4, <1>6, <1>8
  <2>3. /\ read_done' \in [Ios -> Nat] /\ read_done'[io] = done
        /\ \A j \in Ios \ {io} : read_done'[j] = read_done[j]
    BY <1>3, <1>8, <2>1 DEF TypeOK
  <2>4. /\ rbytes' \in [Ios -> Nat]
        /\ body_at' \in [Ios -> {"none", "header", "scratch", "heap"}]
    BY <1>3, <1>8 DEF TypeOK
  <2>. HIDE DEF done
  <2>5. CASE /\ done < need /\ Await(io, "rbytes", BodyChain(need - done))
             /\ UNCHANGED <<reply, scratch_len>>
    <3>1. need - done \in Nat
      BY <1>6, <2>1, <2>5
    <3>2. reply' \in [Ios -> Reply] /\ scratch_len' \in [Ios -> Nat]
      BY <1>3, <2>5 DEF TypeOK
    <3>3. /\ pc'[io] = "rbytes" /\ sqes'[io] = BodyChain(need - done)
          /\ res'[io] = <<>>
      BY <1>3, <2>5 DEF TypeOK, Await
    <3>4. /\ HeaderOf(io, u)' /\ BodyCells(pipe'[io], u) /\ ReqLen(u)' = n
          /\ BodySize(msg'[u], rbytes'[io]) = need /\ Len(pipe'[io]) = p
      BY <1>3, <1>4, <1>8 DEF HeaderOf, init_read, ReqLen, need, p
    <3>. HIDE DEF n
    <3>5. InRbytes(io, u)'
      BY <1>3, <1>4, <1>8, <2>2, <2>3, <2>5, <3>3, <3>4 DEF InRbytes
    <3>6. SlotInv(io)'
      BY <3>3, <3>5 DEF SlotInv
    <3>. QED
      BY <1>1, <1>8, <2>3, <2>4, <2>5, <3>1, <3>2, <3>6, ResumedFacts,
         ChainTypes, AwaitStep DEF Labels
  <2>6. CASE done >= need /\ Handle(io, u)
    <3>1. done = need
      BY <1>4, <1>6, <2>6 DEF done
    <3>2. p = msg[u].body - need
      BY <1>6, <2>1, <2>2, <3>1
    <3>3. msg[u].op = "WRITE" => Len(pipe[io]) = msg[u].body - WriteIn
      BY <3>2 DEF need, p, BodySize, FixedBody
    <3>4. msg[u].op # "WRITE" => p = 0
      BY <1>4, <1>6, <3>2
    <3>5. msg[u].op # "WRITE" => pipe[io] = <<>>
      BY <1>3, <3>4, LenZero DEF p, TypeOK
    <3>. QED
      BY <1>1, <1>4, <1>8, <2>3, <2>4, <2>6, <3>3, <3>5, ResumedFacts, HandleStep
  <2>. QED
    BY <1>7, <1>9, <2>5, <2>6
<1>. QED
  BY <1>7, <1>8, <1>9

\* send_reply succeeds only when the device took the whole reply.
LEMMA StepReply ==
  ASSUME IInv, NEW io \in Ios, ResumeReply(io)
  PROVE  IInv'
<1>1. Resumed(io, "reply")
  BY DEF ResumeReply
<1>2. PICK u \in Reqs : InReply(io, u)
  BY <1>1, ResumedFacts DEF SlotInv
<1>. DEFINE rc == IF res[io][1] # reply[io].len \/ res[io][2] # reply[io].len
                  THEN -1 ELSE 0
<1>3. rc = 0 => pipe[io] = <<>>
  BY <1>1, <1>2, ResumedFacts, ChainsRemain DEF InReply
<1>4. Return(io, rc) /\ rc \in {0, -1}
  BY DEF ResumeReply
<1>. HIDE DEF rc
<1>. QED
  BY <1>1, <1>3, <1>4, ResumedFacts, ReturnStep

\* handle_read succeeds only when the device took header and data.
LEMMA StepRead ==
  ASSUME IInv, NEW io \in Ios, ResumeRead(io)
  PROVE  IInv'
<1>1. Resumed(io, "read")
  BY DEF ResumeRead
<1>2. PICK u \in Reqs : InRead(io, u)
  BY <1>1, ResumedFacts DEF SlotInv
<1>. DEFINE r  == res[io]
            rc == IF \/ \E i \in 1..3 : r[i] < 0
                     \/ r[1] < OutHeader
                     \/ r[2] < ReadSize(msg[reply[io].req])
                     \/ r[3] < reply[io].len
                  THEN -1 ELSE 0
<1>3. pipe[io] = <<>> \/ r[3] = Err
  BY <1>1, <1>2, ResumedFacts, ChainsRemain DEF InRead
<1>4. rc = 0 => pipe[io] = <<>>
  BY <1>3 DEF Err
<1>5. Return(io, rc) /\ rc \in {0, -1}
  BY DEF ResumeRead
<1>. HIDE DEF rc
<1>. QED
  BY <1>1, <1>4, <1>5, ResumedFacts, ReturnStep

\* handle_write replies once more when the backing file took less than it should,
\* with the rest of the payload still in the pipe.
LEMMA StepWrite ==
  ASSUME IInv, NEW io \in Ios, ResumeWrite(io)
  PROVE  IInv'
<1>1. Resumed(io, "write")
  BY DEF ResumeWrite
<1>2. PICK u \in Reqs : InWrite(io, u)
  BY <1>1, ResumedFacts DEF SlotInv
<1>3. sqes[io] = <<>> /\ TypeOK /\ UNCHANGED <<header_buf, pipe, msg>>
  BY <1>1, ResumedFacts DEF kernelVars
<1>. DEFINE r    == res[io]
            size == msg[u].size
            len  == reply[io].len
            rc   == IF r[2] # len \/ r[3] # len THEN -1 ELSE 0
<1>4. /\ HeaderOf(io, u) /\ reply[io].req = u /\ len = OutHeader + OutBody
      /\ \/ r[1] < size /\ BodyCells(pipe[io], u)
         \/ r[1] = size /\ (pipe[io] = <<>> \/ r[3] = Err)
  BY <1>2, <1>3, ChainsRemain DEF InWrite
<1>5. size \in Nat /\ len \in Nat \ {0} /\ OutHeader \in Nat \ {0}
  BY <1>3, <1>4, MessageFacts DEF OutHeader, OutBody
<1>6. ASSUME NEW err \in BOOLEAN, NEW n \in Nat \ {0}, r[1] < size,
             send_scratch(io, u, err, n), UNCHANGED <<rbytes, read_done, body_at>>
      PROVE  IInv'
  <2>1. BodyCells(pipe[io], u)
    BY <1>4, <1>5, <1>6
  <2>. HIDE DEF r, size, len
  <2>2. /\ reply' = [reply EXCEPT ![io] = [req |-> u, err |-> err, len |-> n]]
        /\ scratch_len' = [scratch_len EXCEPT ![io] = n]
        /\ Await(io, "reply", ReplyChain(n))
    BY <1>6 DEF send_scratch, send_reply
  <2>3. /\ reply' \in [Ios -> Reply] /\ scratch_len' \in [Ios -> Nat]
        /\ reply'[io] = [req |-> u, err |-> err, len |-> n]
        /\ \A j \in Ios \ {io} : reply'[j] = reply[j]
    BY <1>3, <2>2 DEF TypeOK, Reply
  <2>4. /\ pc'[io] = "reply" /\ sqes'[io] = ReplyChain(n) /\ res'[io] = <<>>
    BY <1>3, <2>2 DEF TypeOK, Await
  <2>5. InReply(io, u)'
    BY <1>3, <1>4, <2>1, <2>3, <2>4 DEF InReply, HeaderOf, init_read
  <2>6. SlotInv(io)'
    BY <2>4, <2>5 DEF SlotInv
  <2>7. /\ rbytes' \in [Ios -> Nat] /\ read_done' \in [Ios -> Nat]
        /\ body_at' \in [Ios -> {"none", "header", "scratch", "heap"}]
    BY <1>3, <1>6 DEF TypeOK
  <2>. QED
    BY <1>1, <1>6, <2>2, <2>3, <2>6, <2>7, ResumedFacts, ChainTypes, AwaitStep
       DEF Labels
<1>7. CASE r[1] < 0 /\ send_scratch(io, u, TRUE, OutHeader) /\ UNCHANGED <<rbytes, read_done, body_at>>
  <2>1. r[1] < size
    <3>1. r[1] \in Int
      BY <1>2, <1>3, ChainsRemain DEF InWrite, TypeOK, Results, Err
    <3>. QED
      BY <1>5, <1>7, <3>1
  <2>2. TRUE \in BOOLEAN
    OBVIOUS
  <2>. QED
    BY <1>5, <1>6, <1>7, <2>1, <2>2
<1>8. CASE r[1] < size /\ send_scratch(io, u, FALSE, len) /\ UNCHANGED <<rbytes, read_done, body_at>>
  <2>1. FALSE \in BOOLEAN
    OBVIOUS
  <2>. QED
    BY <1>5, <1>6, <1>8, <2>1
<1>9. CASE r[1] >= size /\ Return(io, rc)
  <2>1. rc = 0 => pipe[io] = <<>>
    <3>1. Len(res[io]) = 3 /\ res[io] \in Seq(Results)
      <4>. DEFINE left == WriteChain(size, len)
      <4>1. left # <<>> /\ Tail(left) # <<>> /\ Tail(Tail(left)) # <<>>
        BY ChainsRemain
      <4>2. sqes[io] # left /\ sqes[io] # Tail(left) /\ sqes[io] # Tail(Tail(left))
        BY <1>3, <4>1
      <4>3. Len(res[io]) = 3
        BY <1>2, <4>2 DEF InWrite
      <4>. QED
        BY <1>3, <4>3 DEF TypeOK
    <3>2. r[1] \in Int
      BY <3>1, ElementOfSeq DEF Results, Err
    <3>. HIDE DEF size, len
    <3>. QED
      BY <1>4, <1>5, <1>9, <3>2 DEF Err
  <2>2. rc \in {0, -1}
    OBVIOUS
  <2>. HIDE DEF rc
  <2>. QED
    BY <1>1, <1>9, <2>1, <2>2, ResumedFacts, ReturnStep
<1>. QED
  BY <1>4, <1>7, <1>8, <1>9 DEF ResumeWrite

-----------------------------------------------------------------------------
(* The steps of the kernel on a chain.                                     *)

\* Posting a completion: the chain goes on, or is cancelled to its end.
LEMMA PostFacts ==
  ASSUME TypeOK, NEW io \in Ios, sqes[io] # <<>>, NEW rc \in Results, Post(io, rc)
  PROVE  /\ sqes' \in [Ios -> Seq(SqeSet)] /\ res' \in [Ios -> Seq(Results)]
         /\ \A j \in Ios \ {io} : sqes'[j] = sqes[j] /\ res'[j] = res[j]
         /\ sqes[io][1].link # "link" \/ rc = sqes[io][1].len =>
              sqes'[io] = Tail(sqes[io]) /\ res'[io] = res[io] \o <<rc>>
         /\ sqes[io][1].link = "link" /\ rc # sqes[io][1].len =>
              /\ sqes'[io] = <<>>
              /\ Len(res'[io]) = Len(res[io]) + Len(sqes[io])
              /\ res'[io][Len(res[io]) + 1] = rc
              /\ \A i \in (Len(res[io]) + 2)..(Len(res[io]) + Len(sqes[io])) :
                   res'[io][i] = Err
<1>. DEFINE broken == sqes[io][1].link = "link" /\ rc # sqes[io][1].len
            n      == Len(sqes[io]) - 1
            rest   == [i \in 1..n |-> Err]
            r      == res[io] \o <<rc>>
<1>1. /\ sqes[io] \in Seq(SqeSet) /\ res[io] \in Seq(Results)
      /\ sqes \in [Ios -> Seq(SqeSet)] /\ res \in [Ios -> Seq(Results)]
  BY DEF TypeOK
<1>2. Len(sqes[io]) \in Nat /\ Len(sqes[io]) > 0 /\ n \in Nat /\ Tail(sqes[io]) \in Seq(SqeSet)
  BY <1>1
<1>3. rest \in Seq(Results) /\ Len(rest) = n
  BY <1>2 DEF Results
<1>4. r \in Seq(Results) /\ Len(r) = Len(res[io]) + 1 /\ r[Len(res[io]) + 1] = rc
  BY <1>1
<1>7. /\ sqes' = [sqes EXCEPT ![io] = IF broken THEN <<>> ELSE Tail(@)]
      /\ res'  = [res EXCEPT ![io] = r \o (IF broken THEN rest ELSE <<>>)]
  BY DEF Post
<1>. HIDE DEF rest, r
<1>5. /\ r \o rest \in Seq(Results) /\ Len(r \o rest) = Len(r) + n
      /\ \A i \in 1..(Len(r) + n) :
           (r \o rest)[i] = IF i <= Len(r) THEN r[i] ELSE rest[i - Len(r)]
  <2>1. /\ r \o rest \in Seq(Results) /\ Len(r \o rest) = Len(r) + Len(rest)
        /\ \A i \in 1..(Len(r) + Len(rest)) :
             (r \o rest)[i] = IF i <= Len(r) THEN r[i] ELSE rest[i - Len(r)]
    BY <1>3, <1>4, ConcatProperties
  <2>. QED
    BY <1>3, <2>1
<1>6. r \o <<>> = r
  BY <1>4
<1>8. CASE broken
  <2>1. /\ sqes' = [sqes EXCEPT ![io] = <<>>] /\ res' = [res EXCEPT ![io] = r \o rest]
    BY <1>7, <1>8
  <2>2. <<>> \in Seq(SqeSet)
    OBVIOUS
  <2>3. /\ sqes' \in [Ios -> Seq(SqeSet)] /\ res' \in [Ios -> Seq(Results)]
        /\ \A j \in Ios \ {io} : sqes'[j] = sqes[j] /\ res'[j] = res[j]
        /\ sqes'[io] = <<>> /\ res'[io] = r \o rest
    BY <1>1, <1>5, <2>1, <2>2
  <2>4. Len(res'[io]) = Len(res[io]) + Len(sqes[io])
    <3>. DEFINE a == Len(res[io])
                b == Len(sqes[io])
    <3>1. a \in Nat /\ b \in Nat
      BY <1>1, <1>2
    <3>2. Len(r \o rest) = (a + 1) + (b - 1)
      BY <1>4, <1>5
    <3>. HIDE DEF a, b
    <3>3. (a + 1) + (b - 1) = a + b
      BY <3>1
    <3>. QED
      BY <2>3, <3>2, <3>3 DEF a, b
  <2>6. res'[io][Len(res[io]) + 1] = rc
    <3>1. Len(res[io]) + 1 \in 1..(Len(r) + n) /\ Len(res[io]) + 1 <= Len(r)
      BY <1>1, <1>2, <1>4
    <3>2. res'[io][Len(res[io]) + 1] = r[Len(res[io]) + 1]
      BY <1>5, <2>3, <3>1
    <3>. QED
      BY <1>4, <3>2
  <2>5. ASSUME NEW i \in (Len(res[io]) + 2)..(Len(res[io]) + Len(sqes[io]))
        PROVE  res'[io][i] = Err
    <3>1. i \in 1..(Len(r) + n) /\ ~(i <= Len(r)) /\ i - Len(r) \in 1..n
      BY <1>1, <1>2, <1>4
    <3>2. res'[io][i] = rest[i - Len(r)]
      BY <1>5, <2>3, <3>1
    <3>. QED
      BY <3>1, <3>2 DEF rest
  <2>. QED
    BY <1>8, <2>3, <2>4, <2>5, <2>6
<1>9. CASE ~broken
  <2>1. sqes' = [sqes EXCEPT ![io] = Tail(@)] /\ res' = [res EXCEPT ![io] = r]
    BY <1>6, <1>7, <1>9
  <2>. QED
    BY <1>1, <1>2, <1>4, <1>9, <2>1 DEF r
<1>. QED
  BY <1>8, <1>9

\* The heads of the chains, and what follows them.
LEMMA ChainHeads ==
  ASSUME NEW size, NEW len
  PROVE  /\ FuseReadChain[1] = Sqe("splice_from_fuse", 0, "hardlink")
         /\ Tail(FuseReadChain)[1] = Sqe("read_header", InHeader + WriteIn, "none")
         /\ Tail(Tail(FuseReadChain)) = <<>> /\ Len(FuseReadChain) = 2
         /\ HeaderChain(len)[1] = Sqe("read_header", len, "none")
         /\ Tail(HeaderChain(len)) = <<>>
         /\ BodyChain(len)[1] = Sqe("read_body", len, "none")
         /\ Tail(BodyChain(len)) = <<>>
         /\ ReplyChain(len)[1] = Sqe("write_pipe", len, "link")
         /\ Tail(ReplyChain(len))[1] = Sqe("splice_to_fuse", len, "none")
         /\ Tail(Tail(ReplyChain(len))) = <<>>
         /\ ReadChain(size, len)[1] = Sqe("write_pipe", OutHeader, "link")
         /\ Tail(ReadChain(size, len))[1] = Sqe("splice_from_backing", size, "link")
         /\ Len(Tail(ReadChain(size, len))) = 2
         /\ Tail(Tail(ReadChain(size, len)))[1] = Sqe("splice_to_fuse", len, "none")
         /\ Tail(Tail(Tail(ReadChain(size, len)))) = <<>>
         /\ WriteChain(size, len)[1] = Sqe("splice_to_backing", size, "link")
         /\ Len(WriteChain(size, len)) = 3
         /\ Tail(WriteChain(size, len))[1] = Sqe("write_pipe", len, "link")
         /\ Tail(Tail(WriteChain(size, len)))[1] = Sqe("splice_to_fuse", len, "none")
         /\ Tail(Tail(Tail(WriteChain(size, len)))) = <<>>
BY DEF FuseReadChain, HeaderChain, BodyChain, ReplyChain, ReadChain, WriteChain

\* The fields of a submission queue entry.
LEMMA SqeFields ==
  ASSUME NEW op, NEW len, NEW link
  PROVE  /\ Sqe(op, len, link).op = op /\ Sqe(op, len, link).len = len
         /\ Sqe(op, len, link).link = link
BY DEF Sqe

\* Where a slot is, by the operation at the head of its chain.
LEMMA HeadStage ==
  ASSUME IInv, NEW io \in Ios, sqes[io] # <<>>
  PROVE  /\ sqes[io][1].op = "splice_from_fuse" =>
              /\ pc[io] = "fuse_read" /\ sqes[io] = FuseReadChain /\ res[io] = <<>>
              /\ header_buf[io] = <<>> /\ pipe[io] = <<>>
         /\ sqes[io][1].op = "read_header" =>
              \/ pc[io] = "fuse_read" /\ sqes[io] = Tail(FuseReadChain)
              \/ /\ pc[io] = "fuse_header" /\ init_read(io) < InHeader
                 /\ sqes[io] = HeaderChain(InHeader - init_read(io)) /\ res[io] = <<>>
         /\ sqes[io][1].op = "read_body" => pc[io] = "rbytes"
         /\ sqes[io][1].op = "write_pipe" =>
              \E u \in Reqs :
                \/ /\ pc[io] = "reply" /\ InReply(io, u)
                   /\ sqes[io] = ReplyChain(reply[io].len)
                \/ /\ pc[io] = "read" /\ InRead(io, u)
                   /\ sqes[io] = ReadChain(ReadSize(msg[u]), reply[io].len)
                \/ /\ pc[io] = "write" /\ InWrite(io, u)
                   /\ sqes[io] = Tail(WriteChain(msg[u].size, reply[io].len))
         /\ sqes[io][1].op = "splice_from_backing" =>
              \E u \in Reqs :
                /\ pc[io] = "read" /\ InRead(io, u)
                /\ sqes[io] = Tail(ReadChain(ReadSize(msg[u]), reply[io].len))
         /\ sqes[io][1].op = "splice_to_backing" =>
              \E u \in Reqs :
                /\ pc[io] = "write" /\ InWrite(io, u)
                /\ sqes[io] = WriteChain(msg[u].size, reply[io].len)
         /\ sqes[io][1].op = "splice_to_fuse" =>
              \E u \in Reqs :
                \/ /\ pc[io] = "reply" /\ InReply(io, u)
                   /\ sqes[io] = Tail(ReplyChain(reply[io].len))
                \/ /\ pc[io] = "read" /\ InRead(io, u)
                   /\ sqes[io] = Tail(Tail(ReadChain(ReadSize(msg[u]), reply[io].len)))
                \/ /\ pc[io] = "write" /\ InWrite(io, u)
                   /\ sqes[io] = Tail(Tail(WriteChain(msg[u].size, reply[io].len)))
<1>. DEFINE op == sqes[io][1].op
<1>1. SlotInv(io) /\ pc[io] \in Labels
  BY DEF IInv, TypeOK
<1>2. pc[io] # "pool"
  BY <1>1 DEF SlotInv, InPool
<1>3. CASE pc[io] = "fuse_read"
  BY <1>1, <1>3 DEF SlotInv, InFuseRead, FuseReadChain, Sqe
<1>4. CASE pc[io] = "fuse_header"
  <2>1. PICK u \in Reqs : InFuseHeader(io, u)
    BY <1>1, <1>4 DEF SlotInv
  <2>. QED
    BY <1>4, <2>1 DEF InFuseHeader, HeaderChain, Sqe
<1>5. CASE pc[io] = "rbytes"
  <2>1. PICK u \in Reqs : InRbytes(io, u)
    BY <1>1, <1>5 DEF SlotInv
  <2>2. op = "read_body"
    BY <2>1 DEF InRbytes, BodyChain, Sqe
  <2>. QED
    BY <1>5, <2>2
<1>6. CASE pc[io] = "reply"
  <2>1. PICK u \in Reqs : InReply(io, u)
    BY <1>1, <1>6 DEF SlotInv
  <2>2. \/ sqes[io] = ReplyChain(reply[io].len) /\ op = "write_pipe"
        \/ sqes[io] = Tail(ReplyChain(reply[io].len)) /\ op = "splice_to_fuse"
    BY <2>1 DEF InReply, ReplyChain, Sqe
  <2>. QED
    BY <1>6, <2>1, <2>2
<1>7. CASE pc[io] = "read"
  <2>1. PICK u \in Reqs : InRead(io, u)
    BY <1>1, <1>7 DEF SlotInv
  <2>. DEFINE chain == ReadChain(ReadSize(msg[u]), reply[io].len)
  <2>2. \/ sqes[io] = chain /\ op = "write_pipe"
        \/ sqes[io] = Tail(chain) /\ op = "splice_from_backing"
        \/ sqes[io] = Tail(Tail(chain)) /\ op = "splice_to_fuse"
    BY <2>1 DEF InRead, ReadChain, Sqe
  <2>. QED
    BY <1>7, <2>1, <2>2
<1>8. CASE pc[io] = "write"
  <2>1. PICK u \in Reqs : InWrite(io, u)
    BY <1>1, <1>8 DEF SlotInv
  <2>. DEFINE chain == WriteChain(msg[u].size, reply[io].len)
  <2>2. \/ sqes[io] = chain /\ op = "splice_to_backing"
        \/ sqes[io] = Tail(chain) /\ op = "write_pipe"
        \/ sqes[io] = Tail(Tail(chain)) /\ op = "splice_to_fuse"
    BY <2>1 DEF InWrite, WriteChain, Sqe
  <2>. QED
    BY <1>8, <2>1, <2>2
<1>. QED
  BY <1>1, <1>2, <1>3, <1>4, <1>5, <1>6, <1>7, <1>8 DEF Labels

\* The frame of a kernel step on the chain of one slot.
LEMMA ExecuteStep ==
  ASSUME IInv, NEW io \in Ios, NEW rc \in Results, Post(io, rc), sqes[io] # <<>>,
         UNCHANGED <<phase, last_rc, mounted, msg, pc, localVars, scratch_len>>,
         pipe' \in [Ios -> Seq(Cell)], header_buf' \in [Ios -> Seq(Cell)],
         \A j \in Ios \ {io} : pipe'[j] = pipe[j] /\ header_buf'[j] = header_buf[j],
         pending' \in Seq(Reqs),
         kstate' \in [Reqs -> {"none", "pending", "processing", "answered",
                              "noreply", "aborted"}],
         QueueInv', OneSlotPerRequest', SlotInv(io)'
  PROVE  IInv'
<1>1. TypeOK
  BY DEF IInv
<1>2. /\ sqes' \in [Ios -> Seq(SqeSet)] /\ res' \in [Ios -> Seq(Results)]
      /\ \A j \in Ios \ {io} : sqes'[j] = sqes[j] /\ res'[j] = res[j]
  BY <1>1, PostFacts
<1>3. TypeOK'
  BY <1>1, <1>2 DEF TypeOK, localVars
<1>4. PhaseInv'
  BY DEF IInv, PhaseInv
<1>5. OnlySlot(io)
  BY <1>2 DEF OnlySlot, localVars
<1>6. \A j \in Ios : SlotInv(j)'
  BY <1>5, OtherSlots
<1>. QED
  BY <1>3, <1>4, <1>6 DEF IInv

\* A step after which a slot holds cells of the request it held before only.
LEMMA OwnerHolds ==
  ASSUME TypeOK, NEW io \in Ios, NEW u \in Reqs, pc[io] # "pool", UNCHANGED pc,
         \A j \in Ios \ {io} : pipe'[j] = pipe[j] /\ header_buf'[j] = header_buf[j],
         Reading(io, u) \/ HeaderOf(io, u),
         CellsOf(pipe'[io], u), CellsOf(header_buf'[io], u)
  PROVE  \A j \in Ios, w \in Reqs : Holds(j, w)' => Holds(j, w)
<1>1. Holds(io, u)
  BY HoldsReading
<1>2. ASSUME NEW w \in Reqs, Holds(io, w)'
      PROVE  w = u
  BY <1>2 DEF Holds, Cells, CellsOf
<1>3. ASSUME NEW j \in Ios \ {io}, NEW w \in Reqs, Holds(j, w)'
      PROVE  Holds(j, w)
  BY <1>3 DEF Holds
<1>. QED
  BY <1>1, <1>2, <1>3

\* All the cells of a message belong to its request.
LEMMA OwnCells ==
  ASSUME NEW io \in Ios, NEW u \in Reqs
  PROVE  /\ Reading(io, u) => CellsOf(pipe[io], u) /\ CellsOf(header_buf[io], u)
         /\ HeaderOf(io, u) => CellsOf(header_buf[io], u)
         /\ BodyCells(pipe[io], u) => CellsOf(pipe[io], u)
<1>1. Reading(io, u) => CellsOf(pipe[io], u)
  BY CellFacts DEF Reading, CellsOf
<1>2. Reading(io, u) => CellsOf(header_buf[io], u)
  BY CellFacts DEF Reading, CellsOf
<1>3. HeaderOf(io, u) => CellsOf(header_buf[io], u)
  BY CellFacts DEF HeaderOf, CellsOf
<1>4. BodyCells(pipe[io], u) => CellsOf(pipe[io], u)
  BY DEF BodyCells, CellsOf
<1>. QED
  BY <1>1, <1>2, <1>3, <1>4

\* splice_from_fuse: the oldest request goes into an empty pipe, whole, and out of
\* the queue; no other slot can hold it.
LEMMA StepSpliceFromFuse ==
  ASSUME IInv, NEW io \in Ios, SpliceFromFuse(io)
  PROVE  IInv'
<1>1. /\ sqes[io] # <<>> /\ sqes[io][1].op = "splice_from_fuse"
      /\ UNCHANGED <<phase, last_rc, mounted, msg, pc, localVars, scratch_len>>
      /\ UNCHANGED header_buf /\ TypeOK
  BY DEF SpliceFromFuse, Heads, IInv
<1>2. /\ pc[io] = "fuse_read" /\ sqes[io] = FuseReadChain /\ res[io] = <<>>
      /\ header_buf[io] = <<>> /\ pipe[io] = <<>>
  BY <1>1, HeadStage
<1>3. header_buf' \in [Ios -> Seq(Cell)]
  BY <1>1 DEF TypeOK
<1>4. sqes[io][1].link = "hardlink"
  BY <1>2 DEF FuseReadChain, Sqe
<1>5. \A rc \in Results : Post(io, rc) =>
        sqes'[io] = Tail(FuseReadChain) /\ res'[io] = <<rc>>
  <2>1. ASSUME NEW rc \in Results, Post(io, rc)
        PROVE  sqes'[io] = Tail(sqes[io]) /\ res'[io] = res[io] \o <<rc>>
    BY <1>1, <1>4, <2>1, PostFacts
  <2>2. \A rc \in Results : res[io] \o <<rc>> = <<rc>>
    BY <1>2
  <2>. QED
    BY <1>2, <2>1, <2>2
<1>6. CASE /\ ~mounted /\ Post(io, Err) /\ UNCHANGED <<pipe, kstate, pending>>
  <2>1. Err \in Results
    BY DEF Results
  <2>2. /\ pipe' \in [Ios -> Seq(Cell)] /\ pending' \in Seq(Reqs)
        /\ kstate' \in [Reqs -> {"none", "pending", "processing", "answered",
                                "noreply", "aborted"}]
    BY <1>1, <1>6 DEF TypeOK
  <2>3. QueueInv' /\ OneSlotPerRequest'
    <3>1. \A j \in Ios, w \in Reqs : Holds(j, w)' => Holds(j, w)
      BY <1>1, <1>6 DEF Holds
    <3>. QED
      BY <1>6, <3>1, QueueStable DEF IInv
  <2>4. SlotInv(io)'
    <3>1. sqes'[io] = Tail(FuseReadChain) /\ res'[io] = <<Err>>
      BY <1>5, <1>6, <2>1
    <3>2. header_buf'[io] = <<>> /\ pipe'[io] = <<>> /\ pc'[io] = "fuse_read"
      BY <1>1, <1>2, <1>6
    <3>3. InFuseRead(io)'
      BY <3>1, <3>2 DEF InFuseRead
    <3>. QED
      BY <3>2, <3>3 DEF SlotInv
  <2>. QED
    BY <1>1, <1>3, <1>6, <2>1, <2>2, <2>3, <2>4, ExecuteStep
<1>7. CASE /\ pending # <<>>
           /\ pipe' = [pipe EXCEPT ![io] = @ \o ReqCells(pending[1])]
           /\ kstate' = [kstate EXCEPT ![pending[1]] =
                           IF msg[pending[1]].op \in NoReplyOps THEN "noreply"
                           ELSE "processing"]
           /\ Post(io, ReqLen(pending[1])) /\ pending' = Tail(pending)
  <2>1. /\ Len(pending) \in Nat /\ Len(pending) > 0 /\ pending \in Seq(Reqs)
        /\ pending[1] \in Reqs
    BY <1>1, <1>7 DEF TypeOK
  <2>. PICK u \in Reqs : u = pending[1]
    BY <2>1
  <2>2. ReqLen(u) \in Nat /\ ReqLen(u) \in Results
    BY <1>1, <2>1, MessageFacts DEF Results
  <2>3. /\ ReqCells(u) \in Seq(Cell) /\ Len(ReqCells(u)) = ReqLen(u)
        /\ \A i \in 1..ReqLen(u) : ReqCells(u)[i] = ReqCell(u, i)
    BY <2>1, <2>2, CellFacts DEF ReqCells
  <2>4. pipe' \in [Ios -> Seq(Cell)] /\ pipe'[io] = ReqCells(u)
    BY <1>1, <1>2, <1>7, <2>3 DEF TypeOK
  <2>5. \A j \in Ios \ {io} : pipe'[j] = pipe[j] /\ header_buf'[j] = header_buf[j]
    BY <1>1, <1>7 DEF TypeOK
  <2>6. /\ pending' \in Seq(Reqs) /\ Len(pending') = Len(pending) - 1
        /\ \A i \in 1..Len(pending') : i + 1 \in 1..Len(pending) /\ pending'[i] = pending[i + 1]
    BY <1>7, <2>1
  <2>7. /\ kstate' \in [Reqs -> {"none", "pending", "processing", "answered",
                                "noreply", "aborted"}]
        /\ kstate'[u] \notin {"none", "pending"}
        /\ \A w \in Reqs \ {u} : kstate'[w] = kstate[w]
    BY <1>1, <1>7, <2>1 DEF TypeOK
  <2>8. kstate[u] = "pending" /\ \A j \in Ios : ~Holds(j, u)
    BY <2>1 DEF IInv, QueueInv
  <2>9. ASSUME NEW w \in Reqs, Holds(io, w)' PROVE w = u
    <3>1. header_buf'[io] = <<>>
      BY <1>1, <1>2
    <3>2. Cells(header_buf'[io]) = {}
      BY <3>1 DEF Cells
    <3>3. \A c \in Cells(pipe'[io]) : c.req = u
      BY <2>2, <2>3, <2>4, CellFacts DEF Cells
    <3>. QED
      BY <2>9, <3>2, <3>3 DEF Holds
  <2>10. \A j \in Ios \ {io}, w \in Reqs : Holds(j, w)' => Holds(j, w)
    BY <1>1, <2>5 DEF Holds
  <2>11. OneSlotPerRequest'
    BY <2>8, <2>9, <2>10 DEF IInv, OneSlotPerRequest
  <2>12. QueueInv'
    <3>1. \A i \in 1..Len(pending') : pending'[i] \in Reqs /\ pending'[i] # u
                                     /\ kstate[pending'[i]] = "pending"
      BY <2>1, <2>6 DEF IInv, QueueInv
    <3>2. \A i \in 1..Len(pending') : kstate'[pending'[i]] = "pending"
      BY <2>7, <3>1
    <3>3. \A i, j \in 1..Len(pending') : pending'[i] = pending'[j] => i = j
      <4>. SUFFICES ASSUME NEW i \in 1..Len(pending'), NEW j \in 1..Len(pending'),
                           pending'[i] = pending'[j]
                    PROVE  i = j
        OBVIOUS
      <4>1. /\ i + 1 \in 1..Len(pending) /\ j + 1 \in 1..Len(pending)
            /\ pending[i + 1] = pending[j + 1]
        BY <2>6
      <4>2. i + 1 = j + 1
        BY <4>1 DEF IInv, QueueInv
      <4>. QED
        BY <4>2
    <3>4. \A j \in Ios, w \in Reqs : Holds(j, w)' => kstate'[w] \notin {"none", "pending"}
      BY <2>7, <2>8, <2>9, <2>10 DEF IInv, QueueInv
    <3>. QED
      BY <3>2, <3>3, <3>4 DEF QueueInv
  <2>13. SlotInv(io)'
    <3>1. sqes'[io] = Tail(FuseReadChain) /\ res'[io] = <<ReqLen(u)>>
      BY <1>5, <1>7, <2>2
    <3>2. header_buf'[io] = <<>> /\ ReqLen(u)' = ReqLen(u)
      BY <1>1, <1>2 DEF ReqLen
    <3>3. Reading(io, u)'
      <4>1. Len(header_buf'[io]) = 0
        BY <3>2
      <4>2. \A i \in 1..ReqLen(u) : i = 0 + i
        BY <2>2
      <4>. QED
        BY <2>3, <2>4, <3>2, <4>1, <4>2 DEF Reading
    <3>4. InFuseRead(io)'
      BY <2>1, <3>1, <3>2, <3>3 DEF InFuseRead
    <3>. QED
      BY <1>1, <1>2, <3>4 DEF SlotInv
  <2>. QED
    BY <1>1, <1>3, <1>7, <2>2, <2>4, <2>5, <2>6, <2>7, <2>11, <2>12, <2>13,
       ExecuteStep
<1>. QED
  BY <1>6, <1>7 DEF SpliceFromFuse

\* A read of the pipe moves the head of what is left behind what was read.
LEMMA ReadingMore ==
  ASSUME TypeOK, NEW io \in Ios, NEW u \in Reqs, Reading(io, u), UNCHANGED msg,
         NEW k \in 1..Len(pipe[io]), pipe'[io] = Drop(pipe[io], k),
         header_buf'[io] = header_buf[io] \o Take(pipe[io], k)
  PROVE  /\ Reading(io, u)'
         /\ Len(header_buf'[io]) = Len(header_buf[io]) + k
         /\ CellsOf(pipe'[io], u) /\ CellsOf(header_buf'[io], u)
<1>. DEFINE h == header_buf[io]
            p == pipe[io]
            t == Take(p, k)
            d == Drop(p, k)
<1>1. h \in Seq(Cell) /\ p \in Seq(Cell) /\ Len(h) \in Nat /\ Len(p) \in Nat /\ k \in 0..Len(p)
  BY DEF TypeOK
<1>2. t \in Seq(Cell) /\ Len(t) = k /\ \A i \in 1..k : t[i] = p[i]
  BY <1>1, TakeFacts
<1>3. d \in Seq(Cell) /\ Len(d) = Len(p) - k /\ \A i \in 1..(Len(p) - k) : d[i] = p[k + i]
  BY <1>1, DropFacts
<1>. HIDE DEF h, p, t, d
<1>4. /\ Len(h \o t) = Len(h) + Len(t)
      /\ \A i \in 1..(Len(h) + Len(t)) :
           (h \o t)[i] = IF i <= Len(h) THEN h[i] ELSE t[i - Len(h)]
  BY <1>1, <1>2, ConcatProperties
<1>5. pipe'[io] = d /\ header_buf'[io] = h \o t
  BY DEF h, p, t, d
<1>6. /\ Len(h) + Len(p) = ReqLen(u)
      /\ \A i \in 1..Len(h) : h[i] = ReqCell(u, i)
      /\ \A i \in 1..Len(p) : p[i] = ReqCell(u, Len(h) + i)
  BY DEF Reading, h, p
<1>7. \A i \in 1..Len(h \o t) : (h \o t)[i] = ReqCell(u, i)
  <2>. SUFFICES ASSUME NEW i \in 1..Len(h \o t) PROVE (h \o t)[i] = ReqCell(u, i)
    OBVIOUS
  <2>1. i \in 1..(Len(h) + k)
    BY <1>2, <1>4
  <2>2. CASE i <= Len(h)
    BY <1>1, <1>2, <1>4, <1>6, <2>1, <2>2
  <2>3. CASE ~(i <= Len(h))
    <3>1. i - Len(h) \in 1..k /\ i - Len(h) \in 1..Len(p) /\ Len(h) + (i - Len(h)) = i
      BY <1>1, <2>1, <2>3
    <3>2. (h \o t)[i] = t[i - Len(h)]
      BY <1>2, <1>4, <2>1, <2>3
    <3>3. t[i - Len(h)] = p[i - Len(h)]
      BY <1>2, <3>1
    <3>4. p[i - Len(h)] = ReqCell(u, Len(h) + (i - Len(h)))
      BY <1>6, <3>1
    <3>. QED
      BY <3>1, <3>2, <3>3, <3>4
  <2>. QED
    BY <2>2, <2>3
<1>8. \A i \in 1..Len(d) : d[i] = ReqCell(u, Len(h \o t) + i)
  <2>. SUFFICES ASSUME NEW i \in 1..Len(d) PROVE d[i] = ReqCell(u, Len(h \o t) + i)
    OBVIOUS
  <2>1. i \in 1..(Len(p) - k) /\ k + i \in 1..Len(p)
    BY <1>1, <1>3
  <2>2. d[i] = ReqCell(u, Len(h) + (k + i))
    BY <1>3, <1>6, <2>1
  <2>3. Len(h \o t) = Len(h) + k
    BY <1>2, <1>4
  <2>4. Len(h) + (k + i) = Len(h \o t) + i
    BY <1>1, <2>1, <2>3
  <2>. QED
    BY <2>2, <2>4
<1>9. Len(h \o t) = Len(h) + k
  BY <1>2, <1>4
<1>10. Len(h \o t) + Len(d) = ReqLen(u)
  BY <1>1, <1>3, <1>6, <1>9
<1>11. ReqLen(u)' = ReqLen(u)
  BY DEF ReqLen
<1>12. Reading(io, u)'
  BY <1>5, <1>7, <1>8, <1>10, <1>11 DEF Reading
<1>13. CellsOf(d, u) /\ CellsOf(h \o t, u)
  BY <1>7, <1>8, CellFacts DEF CellsOf
<1>. QED
  BY <1>5, <1>9, <1>12, <1>13 DEF h

\* The end of a pipe of body cells is one.
LEMMA BodyDrop ==
  ASSUME NEW u \in Reqs, NEW p \in Seq(Cell), NEW k \in 0..Len(p), BodyCells(p, u)
  PROVE  /\ BodyCells(Drop(p, k), u) /\ Len(Drop(p, k)) = Len(p) - k
         /\ Drop(p, k) \in Seq(Cell)
<1>1. Len(Drop(p, k)) = Len(p) - k /\ Drop(p, k) \in Seq(Cell)
  BY DropFacts
<1>2. \A i \in 1..(Len(p) - k) : Drop(p, k)[i] = p[k + i] /\ k + i \in 1..Len(p)
  BY DropFacts
<1>. QED
  BY <1>1, <1>2 DEF BodyCells

\* A read of the pipe, whole, short or of nothing, is the last step of its chain.
LEMMA StepReadPipe ==
  ASSUME IInv, NEW io \in Ios, ReadPipe(io)
  PROVE  IInv'
<1>1. /\ sqes[io] # <<>> /\ sqes[io][1].op \in {"read_header", "read_body"}
      /\ UNCHANGED <<phase, last_rc, mounted, msg, pc, localVars, scratch_len>>
      /\ UNCHANGED <<pending, kstate>> /\ TypeOK
      /\ UNCHANGED <<rbytes, read_done, reply>>
  BY DEF ReadPipe, Heads, IInv, localVars
<1>. DEFINE rh == sqes[io][1].op = "read_header"
<1>2. /\ pending' \in Seq(Reqs)
      /\ kstate' \in [Reqs -> {"none", "pending", "processing", "answered",
                              "noreply", "aborted"}]
      /\ pipe \in [Ios -> Seq(Cell)] /\ header_buf \in [Ios -> Seq(Cell)]
      /\ pipe[io] \in Seq(Cell) /\ header_buf[io] \in Seq(Cell)
      /\ Len(pipe[io]) \in Nat /\ Len(header_buf[io]) \in Nat
  BY <1>1 DEF TypeOK
<1>3. SlotInv(io) /\ InHeader \in Nat \ {0} /\ WriteIn \in Nat
  BY ConstAssumption DEF IInv
\* Whatever the read returns, the chain is over: only its last step reads.
<1>4. ASSUME NEW rc \in Results, Post(io, rc)
      PROVE  sqes'[io] = <<>> /\ res'[io] = res[io] \o <<rc>>
  <2>1. SlotInv(io) /\ pc[io] \in Labels
    BY <1>1, <1>3 DEF TypeOK
  <2>2. sqes[io][1].link = "none" /\ Tail(sqes[io]) = <<>>
    <3>1. CASE pc[io] = "rbytes"
      <4>1. PICK u \in Reqs : InRbytes(io, u)
        BY <1>3, <3>1 DEF SlotInv
      <4>. QED
        <5>. DEFINE left == BodySize(msg[u], rbytes[io]) - read_done[io]
        <5>1. sqes[io] = BodyChain(left)
          BY <1>1, <4>1 DEF InRbytes
        <5>. HIDE DEF left
        <5>. QED
          BY <5>1 DEF BodyChain, Sqe
    <3>2. CASE sqes[io] = Tail(FuseReadChain)
      BY <3>2 DEF FuseReadChain, Sqe
    <3>3. CASE sqes[io] = HeaderChain(InHeader - init_read(io))
      BY <3>3 DEF HeaderChain, Sqe
    <3>. QED
      BY <1>1, <3>1, <3>2, <3>3, HeadStage
  <2>. QED
    BY <1>1, <1>4, <2>2, PostFacts
<1>5. CASE pipe[io] = <<>> /\ Post(io, Err) /\ UNCHANGED <<pipe, header_buf>>
  <2>1. Err \in Results
    BY DEF Results
  <2>2. sqes'[io] = <<>> /\ res'[io] = res[io] \o <<Err>>
    BY <1>4, <1>5, <2>1
  <2>3. QueueInv' /\ OneSlotPerRequest'
    <3>1. \A j \in Ios, w \in Reqs : Holds(j, w)' => Holds(j, w)
      BY <1>1, <1>5 DEF Holds
    <3>. QED
      BY <1>1, <3>1, QueueStable DEF IInv
  <2>4. SlotInv(io)'
    <3>1. CASE pc[io] = "fuse_read" /\ rh
      <4>1. /\ Len(res[io]) = 1 /\ header_buf[io] = <<>>
            /\ \/ res[io][1] = Err /\ pipe[io] = <<>>
               \/ \E u \in Reqs : Reading(io, u) /\ res[io][1] = ReqLen(u)
        <5>1. sqes[io] = Tail(FuseReadChain)
          BY <1>1, <3>1, HeadStage
        <5>2. sqes[io] # FuseReadChain
          BY <5>1 DEF FuseReadChain
        <5>. QED
          BY <1>1, <1>3, <3>1, <5>2 DEF SlotInv, InFuseRead
      <4>2. Len(res'[io]) = 2 /\ res'[io][1] = res[io][1]
        <5>1. res[io] \in Seq(Results)
          BY <1>1 DEF TypeOK
        <5>. QED
          BY <2>1, <2>2, <4>1, <5>1
      <4>3. \A u \in Reqs : Reading(io, u)' = Reading(io, u) /\ ReqLen(u)' = ReqLen(u)
        BY <1>1, <1>5 DEF Reading, ReqLen
      <4>4. Len(header_buf[io]) <= InHeader + WriteIn
        BY <1>3, <4>1
      <4>5. InFuseRead(io)'
        BY <1>5, <2>2, <4>1, <4>2, <4>3, <4>4 DEF InFuseRead
      <4>. QED
        BY <1>1, <3>1, <4>5 DEF SlotInv
    <3>2. CASE pc[io] = "fuse_header"
      <4>1. PICK u \in Reqs : InFuseHeader(io, u)
        BY <1>3, <3>2 DEF SlotInv
      <4>2. res[io] = <<>> /\ init_read(io) < InHeader
        BY <1>1, <4>1 DEF InFuseHeader
      <4>3. Len(res'[io]) = 1
        BY <2>2, <4>2
      <4>4. InFuseHeader(io, u)'
        BY <1>1, <1>2, <1>3, <1>5, <2>2, <4>1, <4>2, <4>3
           DEF InFuseHeader, Reading, ReqLen, init_read
      <4>. QED
        BY <1>1, <3>2, <4>4 DEF SlotInv
    <3>3. CASE pc[io] = "rbytes"
      <4>1. PICK u \in Reqs : InRbytes(io, u)
        BY <1>3, <3>3 DEF SlotInv
      <4>2. res[io] = <<>>
        BY <1>1, <4>1 DEF InRbytes
      <4>3. res'[io] = <<Err>>
        BY <2>2, <4>2
      <4>4. read_done[io] \in Nat /\ BodySize(msg[u], rbytes[io]) \in Nat
        BY <1>1, <4>1, SizeFacts DEF TypeOK, InRbytes
      <4>5. Err <= BodySize(msg[u], rbytes[io]) - read_done[io] /\ ~(Err > 0)
        BY <4>1, <4>4 DEF Err, InRbytes
      <4>6. HeaderOf(io, u)' /\ ReqLen(u)' = ReqLen(u)
        BY <1>1, <1>5, <4>1 DEF InRbytes, HeaderOf, init_read, ReqLen
      <4>7. InRbytes(io, u)'
        BY <1>1, <1>5, <2>2, <4>1, <4>3, <4>5, <4>6 DEF InRbytes
      <4>. QED
        BY <1>1, <3>3, <4>7 DEF SlotInv
    <3>. QED
      BY <1>1, <3>1, <3>2, <3>3, HeadStage
  <2>. QED
    BY <1>1, <1>2, <1>5, <2>1, <2>3, <2>4, ExecuteStep
<1>6. ASSUME NEW k \in 1..Least(sqes[io][1].len, Len(pipe[io])), Post(io, k),
             pipe' = [pipe EXCEPT ![io] = Drop(@, k)],
             header_buf' = IF rh THEN [header_buf EXCEPT ![io] = @ \o Take(pipe[io], k)]
                                 ELSE header_buf
      PROVE  IInv'
  <2>1. /\ sqes[io][1].len \in Nat /\ k \in Results /\ k \in Nat \ {0}
        /\ k \in 1..Len(pipe[io]) /\ k <= sqes[io][1].len
    <3>1. sqes[io] \in Seq(SqeSet) /\ Len(sqes[io]) # 0
      BY <1>1 DEF TypeOK
    <3>2. sqes[io][1] \in SqeSet
      BY <3>1, ElementOfSeq
    <3>3. sqes[io][1].len \in Nat
      BY <3>2 DEF SqeSet
    <3>. QED
      BY <1>2, <1>6, <3>3 DEF Least, Results
  <2>2. sqes'[io] = <<>> /\ res'[io] = res[io] \o <<k>>
    BY <1>4, <1>6, <2>1
  <2>3. Take(pipe[io], k) \in Seq(Cell) /\ Drop(pipe[io], k) \in Seq(Cell)
    BY <1>2, <2>1, TakeFacts, DropFacts
  <2>4. header_buf[io] \o Take(pipe[io], k) \in Seq(Cell)
    BY <1>2, <2>3, ConcatProperties
  <2>5. /\ pipe' \in [Ios -> Seq(Cell)] /\ header_buf' \in [Ios -> Seq(Cell)]
        /\ \A j \in Ios \ {io} : pipe'[j] = pipe[j] /\ header_buf'[j] = header_buf[j]
        /\ pipe'[io] = Drop(pipe[io], k)
        /\ rh => header_buf'[io] = header_buf[io] \o Take(pipe[io], k)
        /\ ~rh => header_buf'[io] = header_buf[io]
    BY <1>2, <1>6, <2>3, <2>4
  <2>6. pipe[io] # <<>>
    BY <2>1
  <2>7. pc[io] # "pool"
    BY <1>1, HeadStage
  <2>8. ASSUME NEW u \in Reqs, Reading(io, u) \/ HeaderOf(io, u), SlotInv(io)',
               CellsOf(pipe'[io], u), CellsOf(header_buf'[io], u)
        PROVE  IInv'
    <3>1. \A j \in Ios, w \in Reqs : Holds(j, w)' => Holds(j, w)
      BY <1>1, <2>5, <2>7, <2>8, OwnerHolds
    <3>2. QueueInv' /\ OneSlotPerRequest'
      BY <1>1, <3>1, QueueStable DEF IInv
    <3>. QED
      BY <1>1, <1>2, <1>6, <2>1, <2>5, <2>8, <3>2, ExecuteStep
  <2>9. CASE pc[io] = "fuse_read" /\ rh
    <3>1. sqes[io] = Tail(FuseReadChain) /\ sqes[io] # FuseReadChain
      <4>1. sqes[io] = Tail(FuseReadChain)
        BY <1>1, <2>9, HeadStage
      <4>. QED
        BY <4>1 DEF FuseReadChain
    <3>2. /\ Len(res[io]) = 1 /\ header_buf[io] = <<>>
          /\ \E u \in Reqs : Reading(io, u) /\ res[io][1] = ReqLen(u)
      BY <1>1, <1>3, <2>6, <2>9, <3>1 DEF SlotInv, InFuseRead
    <3>3. PICK u \in Reqs : Reading(io, u) /\ res[io][1] = ReqLen(u)
      BY <3>2
    <3>4. /\ Reading(io, u)' /\ Len(header_buf'[io]) = Len(header_buf[io]) + k
          /\ CellsOf(pipe'[io], u) /\ CellsOf(header_buf'[io], u)
      BY <1>1, <2>1, <2>5, <2>9, <3>3, ReadingMore
    <3>5. sqes[io][1].len = InHeader + WriteIn
      BY <3>1 DEF FuseReadChain, Sqe
    <3>6. Len(header_buf'[io]) <= InHeader + WriteIn
      <4>1. Len(header_buf[io]) = 0
        BY <3>2
      <4>. QED
        BY <1>3, <2>1, <3>4, <3>5, <4>1
    <3>7. Len(res'[io]) = 2 /\ res'[io][1] = res[io][1]
      <4>1. res[io] \in Seq(Results)
        BY <1>1 DEF TypeOK
      <4>. QED
        <5>1. <<k>> \in Seq(Results) /\ Len(<<k>>) = 1
          BY <2>1
        <5>2. /\ Len(res'[io]) = Len(res[io]) + Len(<<k>>)
              /\ \A i \in 1..(Len(res[io]) + Len(<<k>>)) :
                   res'[io][i] = IF i <= Len(res[io]) THEN res[io][i]
                                 ELSE <<k>>[i - Len(res[io])]
          BY <2>2, <4>1, <5>1, ConcatProperties
        <5>3. Len(res'[io]) = 1 + 1 /\ 1 \in 1..(Len(res[io]) + Len(<<k>>))
          BY <3>2, <5>1, <5>2
        <5>. QED
          BY <3>2, <5>2, <5>3
    <3>8. ReqLen(u)' = ReqLen(u)
      BY <1>1 DEF ReqLen
    <3>9. InFuseRead(io)'
      BY <2>2, <3>3, <3>4, <3>6, <3>7, <3>8 DEF InFuseRead
    <3>10. SlotInv(io)'
      BY <1>1, <2>9, <3>9 DEF SlotInv
    <3>. QED
      BY <2>8, <3>3, <3>4, <3>10
  <2>10. CASE pc[io] = "fuse_header" /\ rh
    <3>1. PICK u \in Reqs : InFuseHeader(io, u)
      BY <1>3, <2>10 DEF SlotInv
    <3>2. /\ res[io] = <<>> /\ Reading(io, u) /\ rbytes[io] = ReqLen(u)
          /\ sqes[io] = HeaderChain(InHeader - init_read(io))
      BY <1>1, <3>1 DEF InFuseHeader
    <3>3. /\ Reading(io, u)' /\ Len(header_buf'[io]) = Len(header_buf[io]) + k
          /\ CellsOf(pipe'[io], u) /\ CellsOf(header_buf'[io], u)
      BY <1>1, <2>1, <2>5, <2>10, <3>2, ReadingMore
    <3>4. sqes[io][1].len = InHeader - Len(header_buf[io])
      BY <3>2 DEF HeaderChain, Sqe, init_read
    <3>5. Len(header_buf'[io]) <= InHeader
      <4>. DEFINE h == Len(header_buf[io])
      <4>1. k <= InHeader - h /\ h \in Nat /\ Len(header_buf'[io]) = h + k
        BY <1>2, <2>1, <3>3, <3>4
      <4>. HIDE DEF h
      <4>2. h + k <= InHeader
        BY <1>3, <2>1, <4>1
      <4>. QED
        BY <4>1, <4>2
    <3>6. Len(res'[io]) = 1
      BY <2>2, <3>2
    <3>7. ReqLen(u)' = ReqLen(u)
      BY <1>1 DEF ReqLen
    <3>8. InFuseHeader(io, u)'
      BY <1>1, <2>2, <3>2, <3>3, <3>5, <3>6, <3>7 DEF InFuseHeader, init_read
    <3>9. SlotInv(io)'
      BY <1>1, <2>10, <3>8 DEF SlotInv
    <3>. QED
      BY <2>8, <3>2, <3>3, <3>9
  <2>11. CASE pc[io] = "rbytes" /\ ~rh
    <3>1. PICK u \in Reqs : InRbytes(io, u)
      BY <1>3, <2>11 DEF SlotInv
    <3>. DEFINE need == BodySize(msg[u], rbytes[io])
                done == read_done[io]
                p    == Len(pipe[io])
                b    == msg[u].body
    <3>2. /\ res[io] = <<>> /\ HeaderOf(io, u) /\ BodyCells(pipe[io], u)
          /\ sqes[io] = BodyChain(need - done) /\ p + done = b
          /\ rbytes[io] = ReqLen(u)
      BY <1>1, <3>1 DEF InRbytes
    <3>3. /\ BodyCells(pipe'[io], u) /\ Len(pipe'[io]) = p - k
          /\ CellsOf(pipe'[io], u) /\ CellsOf(header_buf'[io], u)
      <4>1. k \in 0..Len(pipe[io])
        BY <2>1
      <4>2. BodyCells(pipe'[io], u) /\ Len(pipe'[io]) = p - k
        BY <1>2, <2>5, <3>2, <4>1, BodyDrop
      <4>3. CellsOf(pipe'[io], u)
        BY <4>2 DEF BodyCells, CellsOf
      <4>4. CellsOf(header_buf[io], u)
        BY <3>2, OwnCells
      <4>. QED
        BY <2>5, <2>11, <4>2, <4>3, <4>4
    <3>4. k <= need - done
      <4>1. sqes[io][1].len = need - done
        BY <3>2 DEF BodyChain, Sqe
      <4>. QED
        BY <2>1, <4>1
    <3>5. res'[io] = <<k>>
      BY <2>2, <3>2
    <3>6. p \in Nat /\ done \in Nat /\ b \in Nat
      BY <1>1, <1>2, MessageFacts DEF TypeOK
    <3>7. (p - k + done) + k = b
      <4>. HIDE DEF p, done, b
      <4>. QED
        BY <2>1, <3>2, <3>6
    <3>8. HeaderOf(io, u)' /\ ReqLen(u)' = ReqLen(u) /\ msg' = msg
      BY <1>1, <2>5, <2>11, <3>2 DEF HeaderOf, init_read, ReqLen
    <3>9. InRbytes(io, u)'
      BY <1>1, <2>2, <3>1, <3>3, <3>4, <3>5, <3>7, <3>8 DEF InRbytes
    <3>10. SlotInv(io)'
      BY <1>1, <2>11, <3>9 DEF SlotInv
    <3>. QED
      BY <2>8, <3>2, <3>3, <3>10
  <2>. QED
    <3>1. rh => pc[io] \in {"fuse_read", "fuse_header"}
      BY <1>1, HeadStage
    <3>2. ~rh => pc[io] = "rbytes"
      BY <1>1, HeadStage
    <3>. QED
      BY <2>9, <2>10, <2>11, <3>1, <3>2
<1>. QED
  BY <1>5, <1>6 DEF ReadPipe

\* A kernel step on the chain of a handler that has read its request.
LEMMA HandlerExecuteStep ==
  ASSUME IInv, NEW io \in Ios, NEW u \in Reqs, NEW rc \in Results, Post(io, rc),
         sqes[io] # <<>>, pc[io] # "pool", HeaderOf(io, u),
         UNCHANGED <<phase, last_rc, mounted, msg, pc, localVars, scratch_len>>,
         UNCHANGED <<header_buf, pending>>,
         \A w \in Reqs : \/ kstate'[w] = kstate[w]
                         \/ kstate[w] = "processing" /\ kstate'[w] = "answered",
         kstate' \in [Reqs -> {"none", "pending", "processing", "answered",
                              "noreply", "aborted"}],
         pipe' \in [Ios -> Seq(Cell)],
         \A j \in Ios \ {io} : pipe'[j] = pipe[j],
         CellsOf(pipe'[io], u), SlotInv(io)'
  PROVE  IInv'
<1>1. TypeOK
  BY DEF IInv
<1>2. header_buf' \in [Ios -> Seq(Cell)] /\ pending' \in Seq(Reqs)
  BY <1>1 DEF TypeOK
<1>3. CellsOf(header_buf'[io], u)
  BY OwnCells
<1>4. \A j \in Ios, w \in Reqs : Holds(j, w)' => Holds(j, w)
  BY <1>1, <1>3, OwnerHolds
<1>5. QueueInv' /\ OneSlotPerRequest'
  BY <1>1, <1>4, QueueStable DEF IInv
<1>. QED
  BY <1>2, <1>5, ExecuteStep

\* The cells of a reply.
LEMMA ReplyCellsFacts ==
  ASSUME NEW r \in Reply, r.req \in Reqs, NEW n \in Nat
  PROVE  /\ ReplyCells(r, n) \in Seq(Cell) /\ Len(ReplyCells(r, n)) = n
         /\ \A i \in 1..n : ReplyCells(r, n)[i] = ReplyCell(r, i)
<1>1. \A i \in 1..n : ReplyCell(r, i) \in Cell
  BY CellFacts
<1>. QED
  BY <1>1 DEF ReplyCells

\* A write to the pipe appends the cells of the reply.
LEMMA AppendReply ==
  ASSUME TypeOK, NEW io \in Ios, reply[io].req \in Reqs, NEW n \in Nat,
         pipe' = [pipe EXCEPT ![io] = @ \o ReplyCells(reply[io], n)]
  PROVE  /\ pipe' \in [Ios -> Seq(Cell)]
         /\ \A j \in Ios \ {io} : pipe'[j] = pipe[j]
         /\ Len(pipe'[io]) = Len(pipe[io]) + n
         /\ \A i \in 1..(Len(pipe[io]) + n) :
              pipe'[io][i] = IF i <= Len(pipe[io]) THEN pipe[io][i]
                             ELSE ReplyCell(reply[io], i - Len(pipe[io]))
<1>. DEFINE p == pipe[io]
            t == ReplyCells(reply[io], n)
<1>1. reply[io] \in Reply /\ p \in Seq(Cell) /\ Len(p) \in Nat
  BY DEF TypeOK
<1>2. t \in Seq(Cell) /\ Len(t) = n /\ \A i \in 1..n : t[i] = ReplyCell(reply[io], i)
  BY <1>1, ReplyCellsFacts
<1>. HIDE DEF t, p
<1>3. /\ p \o t \in Seq(Cell) /\ Len(p \o t) = Len(p) + Len(t)
      /\ \A i \in 1..(Len(p) + Len(t)) :
           (p \o t)[i] = IF i <= Len(p) THEN p[i] ELSE t[i - Len(p)]
  BY <1>1, <1>2, ConcatProperties
<1>4. /\ pipe' \in [Ios -> Seq(Cell)] /\ pipe'[io] = p \o t
      /\ \A j \in Ios \ {io} : pipe'[j] = pipe[j]
  BY <1>3 DEF TypeOK, p, t
<1>5. ASSUME NEW i \in 1..(Len(p) + n)
      PROVE  (p \o t)[i] = IF i <= Len(p) THEN p[i] ELSE ReplyCell(reply[io], i - Len(p))
  <2>1. CASE i <= Len(p)
    BY <1>2, <1>3, <2>1
  <2>2. CASE ~(i <= Len(p))
    <3>1. i - Len(p) \in 1..n
      BY <1>1, <2>2
    <3>. QED
      BY <1>2, <1>3, <2>2, <3>1
  <2>. QED
    BY <2>1, <2>2
<1>. QED
  BY <1>2, <1>3, <1>4, <1>5 DEF p

\* write_pipe: the reply goes behind what is left of the request.
LEMMA StepWritePipe ==
  ASSUME IInv, NEW io \in Ios, WritePipe(io)
  PROVE  IInv'
<1>. DEFINE n   == sqes[io][1].len
            len == reply[io].len
<1>1. /\ sqes[io] # <<>> /\ sqes[io][1].op = "write_pipe" /\ TypeOK
      /\ UNCHANGED <<phase, last_rc, mounted, msg, pc, localVars, scratch_len>>
      /\ UNCHANGED <<header_buf, pending, kstate>>
      /\ UNCHANGED <<rbytes, read_done, reply>>
      /\ pipe' = [pipe EXCEPT ![io] = @ \o ReplyCells(reply[io], n)]
      /\ Post(io, n)
  BY DEF WritePipe, Heads, IInv, localVars
<1>2. PICK u \in Reqs :
        \/ /\ pc[io] = "reply" /\ InReply(io, u)
           /\ sqes[io] = ReplyChain(len)
        \/ /\ pc[io] = "read" /\ InRead(io, u)
           /\ sqes[io] = ReadChain(ReadSize(msg[u]), len)
        \/ /\ pc[io] = "write" /\ InWrite(io, u)
           /\ sqes[io] = Tail(WriteChain(msg[u].size, len))
  BY <1>1, HeadStage
<1>3. HeaderOf(io, u) /\ reply[io].req = u
  BY <1>2 DEF InReply, InRead, InWrite
<1>4. len \in Nat /\ pipe[io] \in Seq(Cell) /\ Len(pipe[io]) \in Nat
      /\ res[io] \in Seq(Results)
  BY <1>1 DEF TypeOK, Reply
<1>5. n \in Nat /\ n \in Results
  <2>1. sqes[io] \in Seq(SqeSet) /\ Len(sqes[io]) # 0
    BY <1>1 DEF TypeOK
  <2>2. sqes[io][1] \in SqeSet
    BY <2>1, ElementOfSeq
  <2>. QED
    BY <2>2 DEF SqeSet, Results
<1>6. sqes'[io] = Tail(sqes[io]) /\ res'[io] = res[io] \o <<n>>
  BY <1>1, <1>5, PostFacts
<1>. HIDE DEF n, len
<1>7. /\ pipe' \in [Ios -> Seq(Cell)]
      /\ \A j \in Ios \ {io} : pipe'[j] = pipe[j]
      /\ Len(pipe'[io]) = Len(pipe[io]) + n
      /\ \A i \in 1..(Len(pipe[io]) + n) :
           pipe'[io][i] = IF i <= Len(pipe[io]) THEN pipe[io][i]
                          ELSE ReplyCell(reply[io], i - Len(pipe[io]))
  BY <1>1, <1>3, <1>5, AppendReply
<1>8. HeaderOf(io, u)'
  BY <1>1, <1>3 DEF HeaderOf, init_read
<1>9. kstate' \in [Reqs -> {"none", "pending", "processing", "answered",
                          "noreply", "aborted"}]
  BY <1>1 DEF TypeOK
<1>10. CellsOf(pipe[io], u) => CellsOf(pipe'[io], u)
  <2>. SUFFICES ASSUME CellsOf(pipe[io], u), NEW i \in 1..(Len(pipe[io]) + n)
                PROVE  pipe'[io][i].req = u
    BY <1>7 DEF CellsOf
  <2>1. CASE i <= Len(pipe[io])
    <3>1. pipe'[io][i] = pipe[io][i]
      BY <1>7, <2>1
    <3>2. i \in 1..Len(pipe[io])
      BY <1>4, <1>5, <2>1
    <3>. QED
      BY <3>1, <3>2 DEF CellsOf
  <2>2. CASE ~(i <= Len(pipe[io]))
    BY <1>3, <1>7, <2>2, CellFacts
  <2>. QED
    BY <2>1, <2>2
<1>11. CASE pc[io] = "reply"
  <2>1. InReply(io, u) /\ sqes[io] = ReplyChain(len)
    BY <1>2, <1>11
  <2>2. n = len /\ sqes[io] # <<>> /\ ReplyChain(len) # Tail(ReplyChain(len))
    BY <2>1 DEF ReplyChain, Sqe, n
  <2>3. /\ res[io] = <<>> /\ BodyCells(pipe[io], u) /\ (len = 0 => pipe[io] = <<>>)
    BY <2>1, <2>2 DEF InReply, len
  <2>4. CellsOf(pipe'[io], u)
    BY <1>10, <2>3, OwnCells
  <2>. DEFINE p == Len(pipe[io])
              q == Len(pipe'[io])
  <2>5. p \in Nat /\ q = p + len /\ res'[io] = <<len>>
    BY <1>4, <1>6, <1>7, <2>2, <2>3
  <2>6. q - len = p /\ q - len >= 0
    <3>. HIDE DEF p, q
    <3>. QED
      BY <1>4, <2>5
  <2>7. \A i \in 1..q : pipe'[io][i] = IF i <= p THEN [req |-> u, part |-> "body"]
                                      ELSE ReplyCell(reply[io], i - p)
    BY <1>4, <1>7, <2>2, <2>3, <2>5 DEF BodyCells
  <2>8. len = 0 => pipe'[io] = <<>>
    BY <1>4, <1>7, <2>2, <2>3, LenZero
  <2>9. InReply(io, u)'
    <3>1. reply' = reply /\ sqes'[io] = Tail(ReplyChain(reply[io].len))
      BY <1>1, <1>6, <2>1 DEF len
    <3>2. HeaderOf(io, u)' /\ reply'[io].req = u
      BY <1>3, <1>8, <3>1
    <3>. QED
      BY <2>5, <2>6, <2>7, <2>8, <3>1, <3>2 DEF InReply, len
  <2>10. SlotInv(io)'
    BY <1>1, <1>11, <2>9 DEF SlotInv
  <2>. QED
    BY <1>1, <1>3, <1>5, <1>7, <1>9, <1>11, <2>4, <2>10, HandlerExecuteStep
<1>12. CASE pc[io] = "read"
  <2>. DEFINE size  == ReadSize(msg[u])
              chain == ReadChain(size, len)
  <2>1. InRead(io, u) /\ sqes[io] = chain
    BY <1>2, <1>12
  <2>2. n = OutHeader /\ chain # Tail(chain) /\ chain # Tail(Tail(chain)) /\ chain # <<>>
    BY <2>1 DEF ReadChain, Sqe, n
  <2>3. res[io] = <<>> /\ pipe[io] = <<>> /\ msg[u].op = "READ" /\ len = (OutHeader + size) % SizeMod
    BY <2>1, <2>2 DEF InRead, len
  <2>4. CellsOf(pipe'[io], u)
    BY <1>10, <2>3 DEF CellsOf
  <2>5. Len(pipe'[io]) = OutHeader /\ res'[io] = <<OutHeader>>
    BY <1>4, <1>6, <1>7, <2>2, <2>3 DEF OutHeader
  <2>. HIDE DEF size
  <2>6. InRead(io, u)'
    BY <1>1, <1>3, <1>6, <1>8, <2>1, <2>3, <2>4, <2>5 DEF InRead, len, size
  <2>7. SlotInv(io)'
    BY <1>1, <1>12, <2>6 DEF SlotInv
  <2>. QED
    BY <1>1, <1>3, <1>5, <1>7, <1>9, <1>12, <2>4, <2>7, HandlerExecuteStep
<1>13. CASE pc[io] = "write"
  <2>. DEFINE size  == msg[u].size
              chain == WriteChain(size, len)
  <2>1. InWrite(io, u) /\ sqes[io] = Tail(chain)
    BY <1>2, <1>13
  <2>2. n = len /\ Tail(chain) # chain /\ Tail(chain) # Tail(Tail(chain)) /\ Tail(chain) # <<>>
    BY <2>1 DEF WriteChain, Sqe, n
  <2>3. res[io] = <<size>> /\ pipe[io] = <<>> /\ msg[u].op = "WRITE" /\ len = OutHeader + OutBody
    BY <2>1, <2>2 DEF InWrite, len
  <2>4. CellsOf(pipe'[io], u)
    BY <1>10, <2>3 DEF CellsOf
  <2>. HIDE DEF size
  <2>4a. Len(pipe'[io]) = len
    <3>1. Len(pipe[io]) = 0 /\ 0 + len = len
      BY <1>4, <2>3
    <3>. QED
      BY <1>7, <2>2, <3>1
  <2>4b. res'[io] = <<size, len>>
    <3>1. res'[io] = <<size>> \o <<len>>
      BY <1>6, <2>2, <2>3
    <3>2. size \in Nat
      BY <1>1, MessageFacts DEF size
    <3>. QED
      BY <1>4, <3>1, <3>2, SecondResult
  <2>5. Len(pipe'[io]) = len /\ res'[io] = <<size, len>>
    BY <2>4a, <2>4b
  <2>6. InWrite(io, u)'
    BY <1>1, <1>3, <1>6, <1>8, <2>1, <2>3, <2>4, <2>5 DEF InWrite, len, size
  <2>7. SlotInv(io)'
    BY <1>1, <1>13, <2>6 DEF SlotInv
  <2>. QED
    BY <1>1, <1>3, <1>5, <1>7, <1>9, <1>13, <2>4, <2>7, HandlerExecuteStep
<1>. QED
  BY <1>2, <1>11, <1>12, <1>13

\* splice_from_backing: a short or failed read cancels the rest of the chain, with
\* the header in the pipe; a whole one leaves the whole reply there.
LEMMA StepSpliceFromBacking ==
  ASSUME IInv, NEW io \in Ios, SpliceFromBacking(io)
  PROVE  IInv'
<1>. DEFINE len   == reply[io].len
            v     == reply[io].req
            avail == IF msg[v].off < FileSize THEN FileSize - msg[v].off ELSE 0
            whole == Least(sqes[io][1].len, avail)
<1>1. /\ sqes[io] # <<>> /\ sqes[io][1].op = "splice_from_backing" /\ TypeOK
      /\ UNCHANGED <<phase, last_rc, mounted, msg, pc, localVars, scratch_len>>
      /\ UNCHANGED <<header_buf, pending, kstate>>
      /\ UNCHANGED <<rbytes, read_done, reply>>
  BY DEF SpliceFromBacking, Heads, IInv, localVars
<1>2. PICK u \in Reqs : /\ pc[io] = "read" /\ InRead(io, u)
                       /\ sqes[io] = Tail(ReadChain(ReadSize(msg[u]), len))
  BY <1>1, HeadStage
<1>. DEFINE size == ReadSize(msg[u])
<1>3. size \in Nat /\ len \in Nat /\ len = (OutHeader + size) % SizeMod
  BY <1>1, <1>2, SizeFacts DEF InRead, TypeOK, Reply
<1>4. sqes[io][1].len = size /\ sqes[io][1].link = "link" /\ Len(sqes[io]) = 2
  <2>. HIDE DEF size, len
  <2>1. sqes[io] = Tail(ReadChain(size, len))
    BY <1>2 DEF size, len
  <2>. QED
    BY <2>1 DEF ReadChain, Sqe
<1>5. v = u /\ HeaderOf(io, u) /\ CellsOf(pipe[io], u) /\ msg[u].op = "READ"
  BY <1>2 DEF InRead
<1>6. res[io] = <<OutHeader>> /\ Len(pipe[io]) = OutHeader
  <2>. HIDE DEF size, len
  <2>1. sqes[io] = Tail(ReadChain(size, len))
    BY <1>2 DEF size, len
  <2>2. /\ sqes[io] # ReadChain(size, len) /\ sqes[io] # Tail(Tail(ReadChain(size, len)))
        /\ sqes[io] # <<>>
    BY <2>1 DEF ReadChain, Sqe
  <2>. QED
    BY <1>2, <2>2 DEF InRead, size, len
<1>7. pipe[io] \in Seq(Cell) /\ kstate' \in [Reqs -> {"none", "pending", "processing", "answered",
                          "noreply", "aborted"}]
  BY <1>1 DEF TypeOK
<1>8. HeaderOf(io, u)'
  BY <1>1, <1>5 DEF HeaderOf, init_read
<1>9. FileSize \in Nat /\ SizeMod \in Nat \ {0} /\ msg[u].off \in Nat /\ msg[u].size \in Nat
      /\ OutHeader + msg[u].size < SizeMod
  BY <1>1, ConstAssumption, MessageFacts
<1>10. avail \in Nat /\ whole \in Nat /\ whole <= size /\ whole <= avail
  <2>1. avail \in Nat
    BY <1>5, <1>9
  <2>. HIDE DEF avail, size
  <2>. QED
    BY <1>3, <1>4, <2>1 DEF Least
\* A step that is short or fails ends the chain.
<1>11. ASSUME NEW rc \in Results, rc # size, Post(io, rc), CellsOf(pipe'[io], u),
              pipe' \in [Ios -> Seq(Cell)],
              \A j \in Ios \ {io} : pipe'[j] = pipe[j]
       PROVE  IInv'
  <2>1. sqes'[io] = <<>> /\ Len(res'[io]) = 3 /\ res'[io][3] = Err
    <3>1. Len(res[io]) = 1
      BY <1>6
    <3>2. /\ sqes'[io] = <<>> /\ Len(res'[io]) = 1 + 2
          /\ \A i \in (1 + 2)..(1 + 2) : res'[io][i] = Err
      BY <1>1, <1>4, <1>11, <3>1, PostFacts
    <3>. QED
      BY <3>2
  <2>2. InRead(io, u)'
    BY <1>1, <1>3, <1>5, <1>8, <1>11, <2>1 DEF InRead
  <2>3. SlotInv(io)'
    BY <1>1, <1>2, <2>2 DEF SlotInv
  <2>. QED
    BY <1>1, <1>2, <1>5, <1>7, <1>11, <2>3, HandlerExecuteStep
<1>12. CASE Post(io, Err) /\ UNCHANGED pipe
  <2>1. Err \in Results /\ Err # size /\ pipe' \in [Ios -> Seq(Cell)]
    BY <1>1, <1>3, <1>12 DEF Err, Results, TypeOK
  <2>. QED
    BY <1>5, <1>11, <1>12, <2>1
<1>13. ASSUME NEW k \in 0..whole, Post(io, k),
              pipe' = [pipe EXCEPT ![io] = @ \o DataCells(u, k)]
       PROVE  IInv'
  <2>. DEFINE t == DataCells(u, k)
  <2>1. k \in Nat /\ k \in Results /\ k <= size /\ k <= avail
    BY <1>3, <1>10 DEF Results
  <2>2. t \in Seq(Cell) /\ Len(t) = k /\ \A i \in 1..k : t[i].req = u
    BY <2>1 DEF DataCells, Cell, Parts
  <2>. HIDE DEF t
  <2>3. /\ pipe[io] \o t \in Seq(Cell) /\ Len(pipe[io] \o t) = Len(pipe[io]) + Len(t)
        /\ \A i \in 1..(Len(pipe[io]) + Len(t)) :
             (pipe[io] \o t)[i] = IF i <= Len(pipe[io]) THEN pipe[io][i] ELSE t[i - Len(pipe[io])]
    BY <1>7, <2>2, ConcatProperties
  <2>4. /\ pipe' \in [Ios -> Seq(Cell)] /\ pipe'[io] = pipe[io] \o t
        /\ \A j \in Ios \ {io} : pipe'[j] = pipe[j]
    BY <1>1, <1>13, <2>3 DEF TypeOK, t
  <2>5. Len(pipe'[io]) = OutHeader + k
    BY <1>6, <2>2, <2>3, <2>4
  <2>6. CellsOf(pipe'[io], u)
    <3>. SUFFICES ASSUME NEW i \in 1..(OutHeader + k)
                  PROVE  (pipe[io] \o t)[i].req = u
      BY <2>4, <2>5 DEF CellsOf
    <3>1. CASE i <= OutHeader
      BY <1>5, <1>6, <2>2, <2>3, <3>1 DEF CellsOf
    <3>2. CASE ~(i <= OutHeader)
      <4>1. i - OutHeader \in 1..k
        BY <2>1, <3>2 DEF OutHeader
      <4>. QED
        BY <1>6, <2>2, <2>3, <3>2, <4>1
    <3>. QED
      BY <3>1, <3>2
  <2>7. CASE k # size
    BY <1>11, <1>13, <2>1, <2>4, <2>6, <2>7
  <2>8. CASE k = size
    <3>1. size <= msg[u].size
      <4>1. CASE msg[u].off + msg[u].size > FileSize
        <5>1. size <= avail /\ (msg[u].off < FileSize => avail <= msg[u].size)
          BY <1>5, <1>9, <2>1, <2>8, <4>1
        <5>2. ~(msg[u].off < FileSize) => avail = 0
          BY <1>5
        <5>. HIDE DEF size, avail
        <5>. QED
          BY <1>3, <1>9, <1>10, <5>1, <5>2
      <4>2. CASE ~(msg[u].off + msg[u].size > FileSize)
        <5>1. size = msg[u].size
          BY <4>2 DEF ReadSize
        <5>. QED
          BY <1>9, <5>1
      <4>. QED
        BY <4>1, <4>2
    <3>2. len = OutHeader + size
      <4>. HIDE DEF size
      <4>1. OutHeader + size \in 0..(SizeMod - 1) /\ OutHeader + size \in Int
        BY <1>3, <1>9, <3>1 DEF OutHeader
      <4>. QED
        BY <1>3, <1>9, <4>1, ModFacts
    <3>. DEFINE chain == ReadChain(size, len)
    <3>3. sqes'[io] = Tail(Tail(chain)) /\ res'[io] = <<OutHeader>> \o <<size>>
      <4>1. Post(io, size) /\ size \in Results /\ sqes[io][1].len = size
        BY <1>4, <1>13, <2>1, <2>8
      <4>2. sqes'[io] = Tail(sqes[io]) /\ res'[io] = res[io] \o <<size>>
        BY <1>1, <4>1, PostFacts
      <4>. QED
        BY <1>2, <1>6, <4>2
    <3>4. res'[io] = <<OutHeader, size>>
      <4>1. OutHeader \in Nat
        BY DEF OutHeader
      <4>. HIDE DEF size
      <4>. QED
        BY <1>3, <3>3, <4>1, SecondResult
    <3>5. InRead(io, u)'
      BY <1>1, <1>3, <1>5, <1>8, <2>5, <2>6, <2>8, <3>2, <3>3, <3>4 DEF InRead
    <3>6. SlotInv(io)'
      BY <1>1, <1>2, <3>5 DEF SlotInv
    <3>. QED
      BY <1>1, <1>2, <1>5, <1>7, <1>13, <2>1, <2>4, <2>6, <3>6, HandlerExecuteStep
  <2>. QED
    BY <2>7, <2>8
<1>. QED
  BY <1>5, <1>12, <1>13 DEF SpliceFromBacking

\* splice_to_backing: a short or failed write leaves the rest of the payload in
\* the pipe and cancels the chain; a whole one leaves the pipe empty.
LEMMA StepSpliceToBacking ==
  ASSUME IInv, NEW io \in Ios, SpliceToBacking(io)
  PROVE  IInv'
<1>. DEFINE len   == reply[io].len
            whole == Least(sqes[io][1].len, Len(pipe[io]))
<1>1. /\ sqes[io] # <<>> /\ sqes[io][1].op = "splice_to_backing" /\ TypeOK
      /\ UNCHANGED <<phase, last_rc, mounted, msg, pc, localVars, scratch_len>>
      /\ UNCHANGED <<header_buf, pending, kstate>>
      /\ UNCHANGED <<rbytes, read_done, reply>>
  BY DEF SpliceToBacking, Heads, IInv, localVars
<1>2. PICK u \in Reqs : /\ pc[io] = "write" /\ InWrite(io, u)
                       /\ sqes[io] = WriteChain(msg[u].size, len)
  BY <1>1, HeadStage
<1>. DEFINE size == msg[u].size
<1>3. size \in Nat /\ len \in Nat /\ len = OutHeader + OutBody
  BY <1>1, <1>2, MessageFacts DEF InWrite, TypeOK, Reply
<1>4. sqes[io][1].len = size /\ sqes[io][1].link = "link" /\ Len(sqes[io]) = 3
  <2>. HIDE DEF size, len
  <2>1. sqes[io] = WriteChain(size, len)
    BY <1>2 DEF size, len
  <2>. QED
    BY <2>1 DEF WriteChain, Sqe
<1>5. reply[io].req = u /\ HeaderOf(io, u) /\ msg[u].op = "WRITE"
  BY <1>2 DEF InWrite
<1>6. res[io] = <<>> /\ BodyCells(pipe[io], u) /\ Len(pipe[io]) = size
  <2>. HIDE DEF size, len
  <2>1. sqes[io] = WriteChain(size, len)
    BY <1>2 DEF size, len
  <2>2. /\ sqes[io] # Tail(WriteChain(size, len)) /\ sqes[io] # Tail(Tail(WriteChain(size, len)))
        /\ sqes[io] # <<>>
    BY <2>1 DEF WriteChain, Sqe
  <2>. QED
    BY <1>2, <2>2 DEF InWrite, size, len
<1>7. pipe[io] \in Seq(Cell) /\ kstate' \in [Reqs -> {"none", "pending", "processing", "answered",
                          "noreply", "aborted"}]
  BY <1>1 DEF TypeOK
<1>8. HeaderOf(io, u)'
  BY <1>1, <1>5 DEF HeaderOf, init_read
<1>. HIDE DEF size
<1>9. whole = size
  BY <1>3, <1>4, <1>6 DEF Least
<1>10. ASSUME NEW rc \in Results, rc < size, Post(io, rc), BodyCells(pipe'[io], u),
              pipe' \in [Ios -> Seq(Cell)],
              \A j \in Ios \ {io} : pipe'[j] = pipe[j]
       PROVE  IInv'
  <2>1. sqes'[io] = <<>> /\ Len(res'[io]) = 3 /\ res'[io][1] = rc
    <3>1. Len(res[io]) = 0
      BY <1>6
    <3>2. rc # size
      BY <1>3, <1>10 DEF Results, Err
    <3>3. sqes'[io] = <<>> /\ Len(res'[io]) = 0 + 3 /\ res'[io][0 + 1] = rc
      BY <1>1, <1>4, <1>10, <3>1, <3>2, PostFacts
    <3>. QED
      BY <3>3
  <2>2. CellsOf(pipe'[io], u)
    BY <1>10 DEF BodyCells, CellsOf
  <2>3. InWrite(io, u)'
    BY <1>1, <1>3, <1>5, <1>8, <1>10, <2>1, <2>2 DEF InWrite, size
  <2>4. SlotInv(io)'
    BY <1>1, <1>2, <2>3 DEF SlotInv
  <2>. QED
    BY <1>1, <1>2, <1>5, <1>7, <1>10, <2>2, <2>4, HandlerExecuteStep
<1>11. CASE Post(io, Err) /\ UNCHANGED pipe
  <2>1. Err \in Results /\ Err < size /\ pipe' \in [Ios -> Seq(Cell)]
    BY <1>1, <1>3, <1>11 DEF Err, Results, TypeOK
  <2>. QED
    BY <1>6, <1>10, <1>11, <2>1
<1>12. ASSUME NEW k \in 0..whole, Post(io, k), pipe' = [pipe EXCEPT ![io] = Drop(@, k)]
       PROVE  IInv'
  <2>1. k \in Nat /\ k \in Results /\ k <= size /\ k \in 0..Len(pipe[io])
    BY <1>3, <1>6, <1>9 DEF Results
  <2>2. /\ BodyCells(Drop(pipe[io], k), u) /\ Len(Drop(pipe[io], k)) = size - k
        /\ Drop(pipe[io], k) \in Seq(Cell)
    BY <1>6, <1>7, <2>1, BodyDrop
  <2>3. /\ pipe' \in [Ios -> Seq(Cell)] /\ pipe'[io] = Drop(pipe[io], k)
        /\ \A j \in Ios \ {io} : pipe'[j] = pipe[j]
    BY <1>1, <1>12, <2>2 DEF TypeOK
  <2>4. CASE k < size
    BY <1>10, <1>12, <2>1, <2>2, <2>3, <2>4
  <2>5. CASE k = size
    <3>1. pipe'[io] = <<>>
      <4>1. size - k = 0
        BY <1>3, <2>5
      <4>. QED
        BY <2>2, <2>3, <4>1, LenZero
    <3>2. CellsOf(pipe'[io], u)
      BY <3>1 DEF CellsOf
    <3>3. sqes'[io] = Tail(WriteChain(size, len)) /\ res'[io] = <<size>>
      <4>1. <<>> \o <<size>> = <<size>>
        OBVIOUS
      <4>2. sqes'[io] = Tail(sqes[io]) /\ res'[io] = res[io] \o <<size>>
        BY <1>1, <1>4, <1>12, <2>1, <2>5, PostFacts
      <4>. QED
        BY <1>2, <1>6, <4>1, <4>2 DEF size
    <3>4. InWrite(io, u)'
      BY <1>1, <1>3, <1>5, <1>8, <3>1, <3>2, <3>3 DEF InWrite, size
    <3>5. SlotInv(io)'
      BY <1>1, <1>2, <3>4 DEF SlotInv
    <3>. QED
      BY <1>1, <1>2, <1>5, <1>7, <1>12, <2>1, <2>3, <3>2, <3>5, HandlerExecuteStep
  <2>. QED
    BY <1>3, <2>1, <2>4, <2>5
<1>. QED
  BY <1>11, <1>12 DEF SpliceToBacking

\* splice_to_fuse: what the device accepts is the whole of what the pipe holds.
LEMMA StepSpliceToFuse ==
  ASSUME IInv, NEW io \in Ios, SpliceToFuse(io)
  PROVE  IInv'
<1>. DEFINE len == reply[io].len
            n   == sqes[io][1].len
            c   == Take(pipe[io], n)
<1>1. /\ sqes[io] # <<>> /\ sqes[io][1].op = "splice_to_fuse" /\ TypeOK
      /\ UNCHANGED <<phase, last_rc, mounted, msg, pc, localVars, scratch_len>>
      /\ UNCHANGED <<header_buf, pending>>
      /\ UNCHANGED <<rbytes, read_done, reply>>
  BY DEF SpliceToFuse, Heads, IInv, localVars
<1>2. PICK u \in Reqs :
        \/ /\ pc[io] = "reply" /\ InReply(io, u)
           /\ sqes[io] = Tail(ReplyChain(len))
        \/ /\ pc[io] = "read" /\ InRead(io, u)
           /\ sqes[io] = Tail(Tail(ReadChain(ReadSize(msg[u]), len)))
        \/ /\ pc[io] = "write" /\ InWrite(io, u)
           /\ sqes[io] = Tail(Tail(WriteChain(msg[u].size, len)))
  BY <1>1, HeadStage
<1>3. HeaderOf(io, u) /\ reply[io].req = u
  BY <1>2 DEF InReply, InRead, InWrite
<1>4. len \in Nat /\ pipe[io] \in Seq(Cell) /\ Len(pipe[io]) \in Nat
      /\ res[io] \in Seq(Results)
  BY <1>1 DEF TypeOK, Reply
<1>. HIDE DEF len
<1>5. n = len /\ sqes[io][1].link = "none" /\ Tail(sqes[io]) = <<>>
  <2>. DEFINE size1 == ReadSize(msg[u])
              size2 == msg[u].size
  <2>. HIDE DEF size1, size2
  <2>1. \/ sqes[io] = Tail(ReplyChain(len))
        \/ sqes[io] = Tail(Tail(ReadChain(size1, len)))
        \/ sqes[io] = Tail(Tail(WriteChain(size2, len)))
    BY <1>2 DEF size1, size2
  <2>2. CASE sqes[io] = Tail(ReplyChain(len))
    BY <2>2 DEF ReplyChain, Sqe, n
  <2>3. CASE sqes[io] = Tail(Tail(ReadChain(size1, len)))
    BY <2>3 DEF ReadChain, Sqe, n
  <2>4. CASE sqes[io] = Tail(Tail(WriteChain(size2, len)))
    BY <2>4 DEF WriteChain, Sqe, n
  <2>. QED
    BY <2>1, <2>2, <2>3, <2>4
\* The three chains that end here, and what the pipe holds at that point.
<1>6. /\ CellsOf(pipe[io], u) /\ Len(pipe[io]) >= len
      /\ len = 0 => pipe[io] = <<>>
      /\ Len(pipe[io]) > len => pipe[io][1] = [req |-> u, part |-> "body"]
  <2>1. CASE pc[io] = "reply"
    <3>1. InReply(io, u) /\ sqes[io] = Tail(ReplyChain(len))
      BY <1>2, <2>1
    <3>2. sqes[io] # ReplyChain(len)
      BY <3>1 DEF ReplyChain, Sqe
    <3>. DEFINE p == Len(pipe[io])
    <3>3. /\ p - len >= 0 /\ (len = 0 => pipe[io] = <<>>)
          /\ \A i \in 1..p : pipe[io][i] = IF i <= p - len
                                          THEN [req |-> u, part |-> "body"]
                                          ELSE ReplyCell(reply[io], i - (p - len))
      BY <1>1, <3>1, <3>2 DEF InReply, len
    <3>4. CellsOf(pipe[io], u)
      BY <1>3, <3>3, CellFacts DEF CellsOf
    <3>5. ASSUME p > len PROVE pipe[io][1] = [req |-> u, part |-> "body"]
      <4>1. 1 \in 1..p /\ 1 <= p - len
        BY <1>4, <3>5
      <4>. QED
        BY <3>3, <4>1
    <3>6. p >= len
      BY <1>4, <3>3
    <3>. QED
      BY <3>3, <3>4, <3>5, <3>6
  <2>2. CASE pc[io] = "read"
    <3>. DEFINE size == ReadSize(msg[u])
    <3>1. InRead(io, u) /\ sqes[io] = Tail(Tail(ReadChain(size, len)))
      BY <1>2, <2>2
    <3>2. size \in Nat
      BY <1>1, SizeFacts
    <3>3. CellsOf(pipe[io], u)
      BY <3>1 DEF InRead
    <3>4. len = OutHeader + size /\ Len(pipe[io]) = len
      <4>. HIDE DEF size
      <4>1. /\ sqes[io] # ReadChain(size, len) /\ sqes[io] # Tail(ReadChain(size, len))
            /\ sqes[io] # <<>>
        BY <3>1 DEF ReadChain, Sqe
      <4>. QED
        BY <3>1, <4>1 DEF InRead, size, len
    <3>. HIDE DEF size
    <3>. QED
      BY <1>4, <3>2, <3>3, <3>4 DEF OutHeader
  <2>3. CASE pc[io] = "write"
    <3>. DEFINE size == msg[u].size
    <3>1. InWrite(io, u) /\ sqes[io] = Tail(Tail(WriteChain(size, len)))
      BY <1>2, <2>3
    <3>2. CellsOf(pipe[io], u) /\ len = OutHeader + OutBody
      BY <3>1 DEF InWrite, len
    <3>3. Len(pipe[io]) = len
      <4>. HIDE DEF size
      <4>1. /\ sqes[io] # WriteChain(size, len) /\ sqes[io] # Tail(WriteChain(size, len))
            /\ sqes[io] # <<>>
        BY <3>1 DEF WriteChain, Sqe
      <4>. QED
        BY <3>1, <4>1 DEF InWrite, size, len
    <3>. QED
      BY <1>4, <3>2, <3>3 DEF OutHeader, OutBody
  <2>. QED
    BY <1>2, <2>1, <2>2, <2>3
<1>. DEFINE KStates == {"none", "pending", "processing", "answered", "noreply",
                        "aborted"}
\* The reply is refused, or nothing is left behind it.
<1>7. ASSUME NEW rc \in Results, Post(io, rc), rc = Err \/ pipe'[io] = <<>>,
             CellsOf(pipe'[io], u), pipe' \in [Ios -> Seq(Cell)],
             \A j \in Ios \ {io} : pipe'[j] = pipe[j],
             \A w \in Reqs : \/ kstate'[w] = kstate[w]
                             \/ kstate[w] = "processing" /\ kstate'[w] = "answered",
             kstate' \in [Reqs -> KStates]
      PROVE  IInv'
  <2>1. sqes'[io] = <<>> /\ res'[io] = res[io] \o <<rc>>
    BY <1>1, <1>5, <1>7, PostFacts
  <2>2. <<rc>> \in Seq(Results) /\ Len(<<rc>>) = 1 /\ <<rc>>[1] = rc
    BY <1>7
  <2>. DEFINE k == Len(res[io])
  <2>3. k \in Nat
    BY <1>4
  <2>4. /\ Len(res'[io]) = k + 1 /\ res'[io][k + 1] = rc
        /\ \A i \in 1..k : res'[io][i] = res[io][i]
    <3>1. /\ Len(res'[io]) = k + Len(<<rc>>)
          /\ \A i \in 1..(k + Len(<<rc>>)) :
               res'[io][i] = IF i <= k THEN res[io][i] ELSE <<rc>>[i - k]
      BY <1>4, <2>1, <2>2, ConcatProperties
    <3>. HIDE DEF k
    <3>2. k + 1 \in 1..(k + 1) /\ ~(k + 1 <= k) /\ (k + 1) - k = 1
      BY <2>3
    <3>3. \A i \in 1..k : i \in 1..(k + 1) /\ i <= k
      BY <2>3
    <3>. QED
      BY <2>2, <3>1, <3>2, <3>3
  <2>5. HeaderOf(io, u)'
    BY <1>1, <1>3 DEF HeaderOf, init_read
  <2>6. SlotInv(io)'
    <3>1. CASE pc[io] = "reply"
      <4>1. InReply(io, u) /\ sqes[io] = Tail(ReplyChain(len))
        BY <1>2, <3>1
      <4>2. sqes[io] # ReplyChain(len)
        BY <4>1 DEF ReplyChain, Sqe
      <4>3. res[io] = <<len>>
        BY <1>1, <4>1, <4>2 DEF InReply, len
      <4>4. Len(res'[io]) = 2 /\ res'[io][2] = rc
        <5>1. k = 1 /\ 1 + 1 = 2
          BY <4>3
        <5>. QED
          BY <2>4, <5>1
      <4>5. rc = len => pipe'[io] = <<>>
        BY <1>4, <1>7 DEF Err
      <4>6. InReply(io, u)'
        BY <1>1, <1>3, <1>7, <2>1, <2>5, <4>4, <4>5 DEF InReply, len
      <4>. QED
        BY <1>1, <3>1, <4>6 DEF SlotInv
    <3>2. CASE pc[io] = "read"
      <4>. DEFINE size == ReadSize(msg[u])
      <4>1. InRead(io, u) /\ sqes[io] = Tail(Tail(ReadChain(size, len)))
        BY <1>2, <3>2
      <4>2. Len(res[io]) = 2 /\ msg[u].op = "READ" /\ len = (OutHeader + size) % SizeMod
        <5>. HIDE DEF size
        <5>1. /\ sqes[io] # ReadChain(size, len) /\ sqes[io] # Tail(ReadChain(size, len))
              /\ sqes[io] # <<>>
          BY <4>1 DEF ReadChain, Sqe
        <5>2. res[io] = <<OutHeader, size>>
          BY <4>1, <5>1 DEF InRead, size, len
        <5>. QED
          BY <4>1, <5>2 DEF InRead, size, len
      <4>3. Len(res'[io]) = 3 /\ res'[io][3] = rc
        <5>1. k = 2 /\ 2 + 1 = 3
          BY <4>2
        <5>. QED
          BY <2>4, <5>1
      <4>4. InRead(io, u)'
        BY <1>1, <1>3, <1>7, <2>1, <2>5, <4>2, <4>3 DEF InRead, len
      <4>. QED
        BY <1>1, <3>2, <4>4 DEF SlotInv
    <3>3. CASE pc[io] = "write"
      <4>. DEFINE size == msg[u].size
      <4>1. InWrite(io, u) /\ sqes[io] = Tail(Tail(WriteChain(size, len)))
        BY <1>2, <3>3
      <4>2. /\ Len(res[io]) = 2 /\ res[io][1] = size /\ msg[u].op = "WRITE"
            /\ len = OutHeader + OutBody
        <5>. HIDE DEF size
        <5>1. /\ sqes[io] # WriteChain(size, len) /\ sqes[io] # Tail(WriteChain(size, len))
              /\ sqes[io] # <<>>
          BY <4>1 DEF WriteChain, Sqe
        <5>2. res[io] = <<size, len>>
          BY <4>1, <5>1 DEF InWrite, size, len
        <5>. QED
          BY <4>1, <5>2 DEF InWrite, size, len
      <4>3. Len(res'[io]) = 3 /\ res'[io][3] = rc /\ res'[io][1] = size
        <5>1. k = 2 /\ 2 + 1 = 3 /\ 1 \in 1..2
          BY <4>2
        <5>. QED
          BY <2>4, <4>2, <5>1
      <4>4. InWrite(io, u)'
        BY <1>1, <1>3, <1>7, <2>1, <2>5, <4>2, <4>3 DEF InWrite, len
      <4>. QED
        BY <1>1, <3>3, <4>4 DEF SlotInv
    <3>. QED
      BY <1>2, <3>1, <3>2, <3>3
  <2>7. pc[io] # "pool"
    BY <1>2
  <2>. QED
    BY <1>1, <1>3, <1>7, <2>6, <2>7, HandlerExecuteStep
<1>. HIDE DEF n
<1>8. kstate \in [Reqs -> KStates] /\ pipe \in [Ios -> Seq(Cell)] /\ Err \in Results
  BY <1>1 DEF TypeOK, Results
<1>9. CASE n = 0 /\ Post(io, 0) /\ UNCHANGED <<pipe, kstate>>
  <2>1. pipe' = pipe /\ kstate' = kstate /\ pipe[io] = <<>> /\ 0 \in Results
    BY <1>5, <1>6, <1>9 DEF Results
  <2>2. CellsOf(pipe'[io], u)
    BY <1>6, <2>1
  <2>3. kstate' \in [Reqs -> KStates] /\ pipe' \in [Ios -> Seq(Cell)]
    BY <1>8, <2>1
  <2>4. \A w \in Reqs : kstate'[w] = kstate[w]
    BY <2>1
  <2>. QED
    BY <1>7, <1>9, <2>1, <2>2, <2>3, <2>4
<1>10. CASE Post(io, Err) /\ UNCHANGED <<pipe, kstate>>
  <2>1. pipe' = pipe /\ kstate' = kstate
    BY <1>10
  <2>2. CellsOf(pipe'[io], u)
    BY <1>6, <2>1
  <2>3. kstate' \in [Reqs -> KStates] /\ pipe' \in [Ios -> Seq(Cell)]
    BY <1>8, <2>1
  <2>4. \A w \in Reqs : kstate'[w] = kstate[w]
    BY <2>1
  <2>. QED
    BY <1>7, <1>8, <1>10, <2>1, <2>2, <2>3, <2>4
<1>11. CASE /\ 0 < n /\ n <= Len(pipe[io])
            /\ pipe' = [pipe EXCEPT ![io] = Drop(@, n)]
            /\ \/ \E w \in Reqs : /\ Accepts(c, w)
                                  /\ kstate' = [kstate EXCEPT ![w] = "answered"]
                                  /\ Post(io, n)
               \/ Post(io, Err) /\ UNCHANGED kstate
  <2>1. n \in 0..Len(pipe[io]) /\ n \in Nat /\ n \in Results
    BY <1>4, <1>5, <1>11 DEF Results
  <2>2. /\ Drop(pipe[io], n) \in Seq(Cell)
        /\ Len(Drop(pipe[io], n)) = Len(pipe[io]) - n
        /\ \A i \in 1..(Len(pipe[io]) - n) :
             Drop(pipe[io], n)[i] = pipe[io][n + i] /\ n + i \in 1..Len(pipe[io])
    <3>1. /\ Drop(pipe[io], n) \in Seq(Cell)
          /\ Len(Drop(pipe[io], n)) = Len(pipe[io]) - n
          /\ \A i \in 1..(Len(pipe[io]) - n) : Drop(pipe[io], n)[i] = pipe[io][n + i]
      BY <1>4, <2>1, DropFacts
    <3>2. \A i \in 1..(Len(pipe[io]) - n) : n + i \in 1..Len(pipe[io])
      BY <1>4, <2>1
    <3>. QED
      BY <3>1, <3>2
  <2>3. /\ pipe' \in [Ios -> Seq(Cell)] /\ pipe'[io] = Drop(pipe[io], n)
        /\ \A j \in Ios \ {io} : pipe'[j] = pipe[j]
    BY <1>8, <1>11, <2>2
  <2>4. CellsOf(pipe'[io], u)
    BY <1>6, <2>2, <2>3 DEF CellsOf
  <2>5. CASE Post(io, Err) /\ UNCHANGED kstate
    <3>1. kstate' \in [Reqs -> KStates] /\ \A w \in Reqs : kstate'[w] = kstate[w]
      BY <1>8, <2>5
    <3>. QED
      BY <1>7, <1>8, <2>3, <2>4, <2>5, <3>1
  <2>6. ASSUME NEW w \in Reqs, Accepts(c, w),
               kstate' = [kstate EXCEPT ![w] = "answered"], Post(io, n)
        PROVE  IInv'
    <3>1. c[1] = pipe[io][1]
      <4>1. /\ pipe[io] \in Seq(Cell) /\ n \in 0..Len(pipe[io])
            /\ c = Take(pipe[io], n) /\ 1 \in 1..n
        BY <1>4, <1>11, <2>1
      <4>2. \A i \in 1..n : Take(pipe[io], n)[i] = pipe[io][i]
        BY <4>1, TakeFacts
      <4>. QED
        BY <4>1, <4>2
    <3>2. c[1].part # "body"
      BY <2>6 DEF Accepts
    <3>3. Len(pipe[io]) = n
      BY <1>4, <1>5, <1>6, <3>1, <3>2
    <3>4. pipe'[io] = <<>>
      <4>1. Len(pipe[io]) - n = 0
        BY <1>4, <3>3
      <4>. QED
        BY <2>2, <2>3, <4>1, LenZero
    <3>5. kstate[w] = "processing"
      BY <2>6 DEF Accepts
    <3>6. /\ kstate' \in [Reqs -> KStates] /\ kstate'[w] = "answered"
          /\ \A v \in Reqs \ {w} : kstate'[v] = kstate[v]
      BY <1>8, <2>6
    <3>7. \A v \in Reqs : \/ kstate'[v] = kstate[v]
                          \/ kstate[v] = "processing" /\ kstate'[v] = "answered"
      BY <3>5, <3>6
    <3>. HIDE DEF KStates
    <3>. QED
      BY <1>7, <2>1, <2>3, <2>4, <2>6, <3>4, <3>6, <3>7
  <2>. QED
    BY <1>11, <2>5, <2>6
<1>. QED
  BY <1>9, <1>10, <1>11 DEF SpliceToFuse, n

-----------------------------------------------------------------------------
(* The steps of run() and of the users of the mount.                       *)

\* queue_fuse_read starts on an empty pipe: no task has failed while run() fills.
LEMMA StepQueueFuseRead ==
  ASSUME IInv, NEW io \in Ios, queue_fuse_read(io)
  PROVE  IInv'
<1>1. /\ phase = "fill" /\ pc[io] = "pool" /\ TypeOK
      /\ header_buf' = [header_buf EXCEPT ![io] = <<>>]
      /\ Await(io, "fuse_read", FuseReadChain)
      /\ UNCHANGED <<phase, last_rc, mounted, pending, kstate, msg>>
      /\ UNCHANGED <<pipe, rbytes, read_done, body_at, reply, scratch_len>>
  BY DEF queue_fuse_read, Await, IInv, kernelVars, localVars
<1>2. pipe[io] = <<>>
  BY <1>1 DEF IInv, PhaseInv, SlotInv, InPool
<1>3. /\ header_buf' \in [Ios -> Seq(Cell)] /\ header_buf'[io] = <<>>
      /\ \A j \in Ios \ {io} : header_buf'[j] = header_buf[j]
  BY <1>1 DEF TypeOK
<1>4. /\ pc' \in [Ios -> Labels] /\ pc'[io] = "fuse_read"
      /\ res' \in [Ios -> Seq(Results)] /\ res'[io] = <<>>
      /\ \A j \in Ios \ {io} : pc'[j] = pc[j] /\ res'[j] = res[j]
  BY <1>1 DEF TypeOK, Await, Labels
<1>5. /\ sqes' \in [Ios -> Seq(SqeSet)] /\ sqes'[io] = FuseReadChain
      /\ \A j \in Ios \ {io} : sqes'[j] = sqes[j]
  <2>1. FuseReadChain \in Seq(SqeSet)
    <3>1. 0 \in Nat
      OBVIOUS
    <3>. QED
      BY <3>1, ChainTypes
  <2>. QED
    BY <1>1, <2>1 DEF TypeOK, Await
<1>6. TypeOK'
  BY <1>1, <1>3, <1>4, <1>5 DEF TypeOK
<1>7. QueueInv' /\ OneSlotPerRequest'
  <2>1. \A u \in Reqs : ~Holds(io, u)'
    <3>1. Cells(pipe'[io]) = {} /\ Cells(header_buf'[io]) = {}
      BY <1>1, <1>2, <1>3 DEF Cells
    <3>. QED
      BY <3>1 DEF Holds
  <2>2. \A j \in Ios \ {io}, u \in Reqs : Holds(j, u)' => Holds(j, u)
    BY <1>1, <1>3, <1>4 DEF Holds
  <2>. QED
    BY <1>1, <2>1, <2>2, QueueStable DEF IInv
<1>8. SlotInv(io)'
  <2>1. InFuseRead(io)'
    BY <1>1, <1>2, <1>3, <1>4, <1>5 DEF InFuseRead
  <2>. QED
    BY <1>4, <2>1 DEF SlotInv
<1>9. OnlySlot(io)
  BY <1>1, <1>3, <1>4, <1>5 DEF OnlySlot
<1>10. \A j \in Ios : SlotInv(j)'
  BY <1>1, <1>8, <1>9, OtherSlots
<1>. QED
  BY <1>1, <1>6, <1>7, <1>10 DEF IInv, PhaseInv

\* A step that touches no slot, and no message of a request that is held.
LEMMA IdleSlots ==
  ASSUME IInv, UNCHANGED <<last_rc, slotVars>>,
         \A io \in Ios, u \in Reqs : Holds(io, u) => msg'[u] = msg[u],
         TypeOK', PhaseInv', QueueInv'
  PROVE  IInv'
<1>. USE DEF slotVars, localVars
<1>1. ASSUME NEW io \in Ios PROVE SlotInv(io)'
  BY SlotStable DEF IInv
<1>2. OneSlotPerRequest'
  BY DEF IInv, OneSlotPerRequest, Holds
<1>. QED
  BY <1>1, <1>2 DEF IInv

\* The loop of run() touches neither the slots nor the kernel.
LEMMA StepRun ==
  ASSUME IInv, submit_and_wait \/ end_batch
  PROVE  IInv'
<1>1. /\ UNCHANGED <<last_rc, kernelVars, slotVars>> /\ TypeOK
      /\ phase' \in {"fill", "reap", "exit"} /\ (phase' = "fill" => last_rc = 0)
  BY DEF submit_and_wait, end_batch, IInv
<1>2. TypeOK' /\ PhaseInv'
  BY <1>1 DEF TypeOK, PhaseInv, kernelVars, slotVars, localVars
<1>3. QueueInv'
  BY <1>1 DEF IInv, QueueInv, Holds, kernelVars, slotVars, localVars
<1>. QED
  BY <1>1, <1>2, <1>3, IdleSlots DEF kernelVars

\* A new request is in no slot yet, and in the device's queue once.
LEMMA StepKernelSend ==
  ASSUME IInv, NEW u \in Reqs, NEW m \in Messages, KernelSend(u, m)
  PROVE  IInv'
<1>1. /\ kstate[u] = "none" /\ pending' = Append(pending, u) /\ TypeOK
      /\ kstate' = [kstate EXCEPT ![u] = "pending"] /\ msg' = [msg EXCEPT ![u] = m]
      /\ UNCHANGED <<mounted, phase, last_rc, slotVars>>
  BY DEF KernelSend, Idle, IInv
<1>. DEFINE k == Len(pending)
<1>2. /\ pending \in Seq(Reqs) /\ k \in Nat /\ pending' \in Seq(Reqs)
      /\ Len(pending') = k + 1 /\ pending'[k + 1] = u
      /\ \A i \in 1..k : pending'[i] = pending[i]
  BY <1>1 DEF TypeOK
<1>3. /\ \A w \in Reqs \ {u} : kstate'[w] = kstate[w] /\ msg'[w] = msg[w]
      /\ kstate'[u] = "pending" /\ msg'[u] = m
  BY <1>1 DEF TypeOK
<1>4. TypeOK'
  <2>1. msg' \in [Reqs -> Messages]
    BY <1>1 DEF TypeOK
  <2>2. kstate' \in [Reqs -> {"none", "pending", "processing", "answered",
                             "noreply", "aborted"}]
    BY <1>1 DEF TypeOK
  <2>. QED
    BY <1>1, <1>2, <2>1, <2>2 DEF TypeOK, slotVars, localVars
<1>5. \A io \in Ios : ~Holds(io, u)
  BY <1>1 DEF IInv, QueueInv
<1>6. \A i \in 1..k : pending[i] \in Reqs \ {u} /\ kstate[pending[i]] = "pending"
  BY <1>1, <1>2 DEF IInv, QueueInv
<1>7. QueueInv'
  <2>. HIDE DEF k
  <2>1. \A i \in 1..(k + 1) : i \in 1..k \/ i = k + 1
    BY <1>2
  <2>2. \A i \in 1..(k + 1) : kstate'[pending'[i]] = "pending"
    <3>1. \A i \in 1..k : kstate'[pending'[i]] = "pending"
      BY <1>2, <1>3, <1>6
    <3>2. kstate'[pending'[k + 1]] = "pending"
      BY <1>2, <1>3
    <3>. QED
      BY <2>1, <3>1, <3>2
  <2>3. \A i, j \in 1..(k + 1) : pending'[i] = pending'[j] => i = j
    <3>1. \A i, j \in 1..k : pending'[i] = pending'[j] => i = j
      BY <1>2 DEF IInv, QueueInv, k
    <3>2. \A i \in 1..k : pending'[i] # u
      BY <1>2, <1>6
    <3>. QED
      BY <1>2, <2>1, <3>1, <3>2
  <2>4. \A io \in Ios, w \in Reqs : Holds(io, w)' => kstate'[w] \notin {"none", "pending"}
    <3>1. \A io \in Ios, w \in Reqs : Holds(io, w)' = Holds(io, w)
      BY <1>1 DEF Holds, slotVars
    <3>. QED
      BY <1>3, <1>5, <3>1 DEF IInv, QueueInv
  <2>. QED
    BY <1>2, <2>2, <2>3, <2>4 DEF QueueInv
<1>8. PhaseInv'
  BY <1>1 DEF IInv, PhaseInv
<1>9. \A io \in Ios, w \in Reqs : Holds(io, w) => msg'[w] = msg[w]
  BY <1>3, <1>5
<1>. QED
  BY <1>1, <1>4, <1>7, <1>8, <1>9, IdleSlots

\* A request is forgotten when no slot holds it.
LEMMA StepKernelRecycle ==
  ASSUME IInv, NEW u \in Reqs, KernelRecycle(u)
  PROVE  IInv'
<1>1. /\ kstate[u] \in {"answered", "noreply"} /\ TypeOK
      /\ \A io \in Ios : ~Holds(io, u)
      /\ kstate' = [kstate EXCEPT ![u] = "none"] /\ msg' = [msg EXCEPT ![u] = NoMsg]
      /\ UNCHANGED <<mounted, pending, phase, last_rc, slotVars>>
  BY DEF KernelRecycle, Idle, IInv
<1>2. NoMsg \in Messages
  BY ConstAssumption DEF NoMsg
<1>3. \A w \in Reqs \ {u} : kstate'[w] = kstate[w] /\ msg'[w] = msg[w]
  BY <1>1 DEF TypeOK
<1>4. TypeOK'
  <2>1. msg' \in [Reqs -> Messages]
    BY <1>1, <1>2 DEF TypeOK
  <2>2. kstate' \in [Reqs -> {"none", "pending", "processing", "answered",
                             "noreply", "aborted"}]
    BY <1>1 DEF TypeOK
  <2>. QED
    BY <1>1, <2>1, <2>2 DEF TypeOK, slotVars, localVars
<1>5. QueueInv'
  <2>1. \A i \in 1..Len(pending) : pending[i] \in Reqs \ {u}
    BY <1>1 DEF TypeOK, IInv, QueueInv
  <2>2. \A io \in Ios, w \in Reqs : Holds(io, w)' = Holds(io, w)
    BY <1>1 DEF Holds, slotVars
  <2>. QED
    BY <1>1, <1>3, <2>1, <2>2 DEF IInv, QueueInv
<1>6. PhaseInv'
  BY <1>1 DEF IInv, PhaseInv
<1>7. \A io \in Ios, w \in Reqs : Holds(io, w) => msg'[w] = msg[w]
  BY <1>1, <1>3
<1>. QED
  BY <1>1, <1>4, <1>5, <1>6, <1>7, IdleSlots

\* An unmount empties the device's queue and ends every request in flight.
LEMMA StepKernelUnmount ==
  ASSUME IInv, KernelUnmount
  PROVE  IInv'
<1>1. /\ mounted' = FALSE /\ pending' = <<>> /\ TypeOK
      /\ kstate' = [u \in Reqs |-> IF kstate[u] \in {"pending", "processing"}
                                    THEN "aborted" ELSE kstate[u]]
      /\ UNCHANGED <<msg, phase, last_rc, slotVars>>
  BY DEF KernelUnmount, Idle, IInv
<1>2. \A u \in Reqs : kstate'[u] \in {"none", "pending"} => kstate[u] \in {"none", "pending"}
  BY <1>1
<1>3. TypeOK'
  <2>1. FALSE \in BOOLEAN /\ <<>> \in Seq(Reqs)
    OBVIOUS
  <2>2. kstate' \in [Reqs -> {"none", "pending", "processing", "answered",
                             "noreply", "aborted"}]
    BY <1>1 DEF TypeOK
  <2>. QED
    BY <1>1, <2>1, <2>2 DEF TypeOK, slotVars, localVars
<1>4. QueueInv'
  <2>1. Len(pending') = 0
    BY <1>1
  <2>2. \A io \in Ios, w \in Reqs : Holds(io, w)' = Holds(io, w)
    BY <1>1 DEF Holds, slotVars
  <2>. QED
    BY <1>2, <2>1, <2>2 DEF IInv, QueueInv
<1>5. PhaseInv'
  BY <1>1 DEF IInv, PhaseInv
<1>. QED
  BY <1>1, <1>3, <1>4, <1>5, IdleSlots

-----------------------------------------------------------------------------
(* The invariant, and what follows from it.                                *)

\* The server starts with every slot free, every pipe empty and no request.
LEMMA InitInv == Init => IInv
<1>. SUFFICES ASSUME Init PROVE IInv
  OBVIOUS
<1>1. NoMsg \in Messages
  BY ConstAssumption DEF NoMsg
<1>2. TypeOK
  BY <1>1 DEF Init, TypeOK, Labels, Reply, NoReply
<1>3. PhaseInv
  BY DEF Init, PhaseInv
<1>4. \A io \in Ios, u \in Reqs : ~Holds(io, u)
  BY DEF Init, Holds
<1>5. QueueInv /\ OneSlotPerRequest
  BY <1>4 DEF Init, QueueInv, OneSlotPerRequest
<1>6. \A io \in Ios : SlotInv(io)
  BY DEF Init, SlotInv, InPool
<1>. QED
  BY <1>2, <1>3, <1>5, <1>6 DEF IInv

\* Every step of the server and of the kernel keeps the invariant.
LEMMA NextInv == IInv /\ [Next]_vars => IInv'
<1>. SUFFICES ASSUME IInv, [Next]_vars PROVE IInv'
  OBVIOUS
<1>1. ASSUME NEW io \in Ios, queue_fuse_read(io) PROVE IInv'
  BY <1>1, StepQueueFuseRead
<1>2. ASSUME NEW io \in Ios, Resume(io) PROVE IInv'
  BY <1>2, StepFuseRead, StepFuseHeader, StepRbytes, StepReply, StepRead, StepWrite
     DEF Resume
<1>3. ASSUME NEW io \in Ios, Execute(io) PROVE IInv'
  BY <1>3, StepSpliceFromFuse, StepReadPipe, StepWritePipe, StepSpliceFromBacking,
     StepSpliceToBacking, StepSpliceToFuse DEF Execute
<1>4. CASE submit_and_wait \/ end_batch
  BY <1>4, StepRun
<1>5. ASSUME NEW u \in Reqs, KernelRecycle(u) PROVE IInv'
  BY <1>5, StepKernelRecycle
<1>6. ASSUME NEW u \in Reqs, NEW m \in Messages, KernelSend(u, m) PROVE IInv'
  BY <1>6, StepKernelSend
<1>7. CASE KernelUnmount
  BY <1>7, StepKernelUnmount
<1>8. CASE UNCHANGED vars
  <2>. USE DEF vars, kernelVars, slotVars, localVars
  <2>1. TypeOK' /\ PhaseInv' /\ QueueInv'
    <3>1. TypeOK'
      BY <1>8 DEF IInv, TypeOK
    <3>2. PhaseInv'
      BY <1>8 DEF IInv, PhaseInv
    <3>3. QueueInv'
      BY <1>8 DEF IInv, QueueInv, Holds
    <3>. QED
      BY <3>1, <3>2, <3>3
  <2>. QED
    BY <1>8, <2>1, IdleSlots
<1>. QED
  BY <1>1, <1>2, <1>3, <1>4, <1>5, <1>6, <1>7, <1>8 DEF Next, Returned

\* The inductive invariant holds throughout: what every pipe, buffer and result
\* list holds at each co_await of queue_fuse_read and its handlers.
THEOREM Invariance == Spec => []IInv
BY InitInv, NextInv, PTL DEF Spec

\* Type correctness, whatever the messages, sizes and faults.
THEOREM TypeCorrect == Spec => []TypeOK
<1>1. IInv => TypeOK
  BY DEF IInv
<1>. QED
  BY <1>1, Invariance, PTL

\* A slot is returned to fuse_ring.ios with an empty pipe unless a task failed:
\* no cell of one request is ever read as the beginning of the next.
THEOREM PipesEmpty == Spec => []PoolPipesEmpty
<1>1. IInv => PoolPipesEmpty
  BY DEF IInv, SlotInv, InPool, PoolPipesEmpty
<1>. QED
  BY <1>1, Invariance, PTL

\* Handlers run on the whole header of the request the kernel gave the slot,
\* however the reads of the pipe were cut short.
THEOREM HeadersWhole == Spec => []HeaderWhole
<1>1. IInv => HeaderWhole
  <2>. SUFFICES ASSUME IInv, NEW io \in Ios, pc[io] \in Handling
                PROVE  /\ init_read(io) >= InHeader
                       /\ \A i \in 1..InHeader : header_buf[io][i] =
                            [req |-> fheader(io), part |-> "in_header"]
    BY DEF HeaderWhole
  <2>1. SlotInv(io) /\ TypeOK /\ InHeader \in Nat \ {0}
    BY ConstAssumption DEF IInv
  <2>2. PICK u \in Reqs : HeaderOf(io, u)
    BY <2>1 DEF SlotInv, Handling, InRbytes, InReply, InRead, InWrite
  <2>3. \A i \in 1..InHeader : i \in 1..Len(header_buf[io]) /\ i <= InHeader
    BY <2>1, <2>2 DEF HeaderOf, init_read, TypeOK
  <2>4. \A i \in 1..InHeader : header_buf[io][i] = [req |-> u, part |-> "in_header"]
    BY <2>2, <2>3 DEF HeaderOf, ReqCell
  <2>5. fheader(io) = u
    BY <2>1, <2>4 DEF fheader
  <2>. QED
    BY <2>2, <2>4, <2>5 DEF HeaderOf
<1>. QED
  BY <1>1, Invariance, PTL

\* No two coroutines ever work on the same request.
THEOREM OneSlot == Spec => []OneSlotPerRequest
<1>1. IInv => OneSlotPerRequest
  BY DEF IInv
<1>. QED
  BY <1>1, Invariance, PTL

-----------------------------------------------------------------------------
(* Who answers a request.                                                  *)

\* The only step that answers a request is a splice to the device that the
\* device accepts as the reply to it.
LEMMA AnswerIsAccepted ==
  ASSUME IInv, [Next]_vars, NEW u \in Reqs, Answers(u)
  PROVE  \E io \in Ios :
           /\ SpliceToFuse(io) /\ Post(io, sqes[io][1].len)
           /\ Accepts(Take(pipe[io], sqes[io][1].len), u)
           /\ sqes[io][1].len \in 1..Len(pipe[io])
<1>1. kstate[u] = "processing" /\ kstate'[u] = "answered" /\ kstate' # kstate /\ TypeOK
  BY DEF Answers, IInv
<1>2. ASSUME NEW io \in Ios, queue_fuse_read(io) PROVE FALSE
  BY <1>1, <1>2 DEF queue_fuse_read, kernelVars
<1>3. ASSUME NEW io \in Ios, Resume(io) PROVE FALSE
  <2>1. \A l \in Labels : ~Resumed(io, l)
    BY <1>1 DEF Resumed, kernelVars
  <2>. QED
    BY <1>3, <2>1 DEF Resume, ResumeFuseRead, ResumeFuseHeader, ResumeRbytes,
       ResumeReply, ResumeRead, ResumeWrite, Labels
<1>4. ~(submit_and_wait \/ end_batch \/ UNCHANGED vars)
  BY <1>1 DEF submit_and_wait, end_batch, vars, kernelVars
<1>5. ASSUME NEW w \in Reqs, KernelRecycle(w) PROVE FALSE
  BY <1>1, <1>5 DEF KernelRecycle, TypeOK
<1>6. ASSUME NEW w \in Reqs, NEW m \in Messages, KernelSend(w, m) PROVE FALSE
  BY <1>1, <1>6 DEF KernelSend, TypeOK
<1>7. ~KernelUnmount
  BY <1>1 DEF KernelUnmount
<1>8. ASSUME NEW io \in Ios, SpliceFromFuse(io) PROVE FALSE
  <2>1. PICK w : /\ w = pending[1] /\ pending # <<>>
                 /\ kstate' = [kstate EXCEPT ![w] = IF msg[w].op \in NoReplyOps
                                                   THEN "noreply" ELSE "processing"]
    BY <1>1, <1>8 DEF SpliceFromFuse
  <2>2. w \in Reqs
    BY <1>1, <2>1 DEF TypeOK
  <2>. QED
    BY <1>1, <2>1, <2>2 DEF TypeOK
<1>9. ASSUME NEW io \in Ios,
             \/ ReadPipe(io) \/ WritePipe(io)
             \/ SpliceFromBacking(io) \/ SpliceToBacking(io)
      PROVE  FALSE
  BY <1>1, <1>9 DEF ReadPipe, WritePipe, SpliceFromBacking, SpliceToBacking
<1>10. PICK io \in Ios : SpliceToFuse(io)
  BY <1>2, <1>3, <1>4, <1>5, <1>6, <1>7, <1>8, <1>9 DEF Next, Returned, Execute
<1>. DEFINE len == sqes[io][1].len
            c   == Take(pipe[io], len)
<1>11. PICK w \in Reqs : /\ Accepts(c, w) /\ Post(io, len)
                         /\ kstate' = [kstate EXCEPT ![w] = "answered"]
                         /\ 0 < len /\ len <= Len(pipe[io])
  <2>. HIDE DEF c
  <2>. QED
    BY <1>1, <1>10 DEF SpliceToFuse, c
<1>12. w = u
  BY <1>1, <1>11 DEF TypeOK
<1>13. len \in Nat /\ Len(pipe[io]) \in Nat
  <2>1. sqes[io] \in Seq(SqeSet) /\ Len(sqes[io]) # 0
    BY <1>1, <1>10 DEF TypeOK, SpliceToFuse, Heads
  <2>2. sqes[io][1] \in SqeSet
    BY <2>1, ElementOfSeq
  <2>. QED
    BY <1>1, <2>2 DEF SqeSet, TypeOK
<1>. QED
  BY <1>10, <1>11, <1>12, <1>13

\* A slot that answers a request is at the last step of the chain of the handler
\* of that very request, whose header it holds.
LEMMA AnswererHolds ==
  ASSUME IInv, NEW u \in Reqs, NEW io \in Ios, SpliceToFuse(io),
         Post(io, sqes[io][1].len), sqes[io][1].len \in 1..Len(pipe[io]),
         Accepts(Take(pipe[io], sqes[io][1].len), u)
  PROVE  /\ header_buf[io] # <<>> /\ fheader(io) = u /\ reply[io].req = u
         /\ Len(sqes[io]) = 1 /\ sqes'[io] = <<>>
<1>. DEFINE len == reply[io].len
            n   == sqes[io][1].len
<1>1. sqes[io] # <<>> /\ sqes[io][1].op = "splice_to_fuse" /\ TypeOK
  BY DEF SpliceToFuse, Heads, IInv
<1>2. PICK w \in Reqs :
        \/ /\ pc[io] = "reply" /\ InReply(io, w)
           /\ sqes[io] = Tail(ReplyChain(len))
        \/ /\ pc[io] = "read" /\ InRead(io, w)
           /\ sqes[io] = Tail(Tail(ReadChain(ReadSize(msg[w]), len)))
        \/ /\ pc[io] = "write" /\ InWrite(io, w)
           /\ sqes[io] = Tail(Tail(WriteChain(msg[w].size, len)))
  BY <1>1, HeadStage
<1>3. HeaderOf(io, w) /\ reply[io].req = w
  BY <1>2 DEF InReply, InRead, InWrite
<1>4. sqes[io][1].link = "none" /\ Tail(sqes[io]) = <<>> /\ Len(sqes[io]) = 1 /\ n = len
  <2>. DEFINE size1 == ReadSize(msg[w])
              size2 == msg[w].size
  <2>. HIDE DEF size1, size2, len
  <2>1. \/ sqes[io] = Tail(ReplyChain(len))
        \/ sqes[io] = Tail(Tail(ReadChain(size1, len)))
        \/ sqes[io] = Tail(Tail(WriteChain(size2, len)))
    BY <1>2 DEF size1, size2
  <2>2. CASE sqes[io] = Tail(ReplyChain(len))
    BY <2>2 DEF ReplyChain, Sqe, n
  <2>3. CASE sqes[io] = Tail(Tail(ReadChain(size1, len)))
    BY <2>3 DEF ReadChain, Sqe, n
  <2>4. CASE sqes[io] = Tail(Tail(WriteChain(size2, len)))
    BY <2>4 DEF WriteChain, Sqe, n
  <2>. QED
    BY <2>1, <2>2, <2>3, <2>4
<1>5. sqes'[io] = <<>>
  <2>1. n \in Results
    BY DEF Results
  <2>. QED
    BY <1>1, <1>4, <2>1, PostFacts
<1>6. InHeader \in Nat \ {0} /\ Len(header_buf[io]) \in Nat
  BY <1>1, ConstAssumption DEF TypeOK
<1>7. header_buf[io] # <<>> /\ fheader(io) = w
  <2>1. 1 \in 1..Len(header_buf[io])
    BY <1>3, <1>6 DEF HeaderOf, init_read
  <2>. QED
    BY <1>3, <2>1, CellFacts DEF HeaderOf, fheader
<1>8. pipe[io][1].req = u
  <2>1. 1 \in 1..n /\ n \in 0..Len(pipe[io]) /\ pipe[io] \in Seq(Cell)
    BY <1>1 DEF TypeOK
  <2>2. Take(pipe[io], n)[1] = pipe[io][1]
    BY <2>1, TakeFacts
  <2>. QED
    BY <2>2 DEF Accepts
<1>9. CellsOf(pipe[io], w)
  <2>1. CASE pc[io] = "reply"
    <3>1. InReply(io, w) /\ sqes[io] = Tail(ReplyChain(len))
      BY <1>2, <2>1
    <3>. DEFINE p == Len(pipe[io])
    <3>2. sqes[io] # ReplyChain(len)
      <4>. HIDE DEF len
      <4>. QED
        BY <3>1 DEF ReplyChain, Sqe
    <3>3. \A i \in 1..p : pipe[io][i] = IF i <= p - len
                                      THEN [req |-> w, part |-> "body"]
                                      ELSE ReplyCell(reply[io], i - (p - len))
      BY <1>1, <3>1, <3>2 DEF InReply
    <3>. QED
      BY <1>3, <3>3, CellFacts DEF CellsOf
  <2>2. CASE pc[io] \in {"read", "write"}
    BY <1>2, <2>2 DEF InRead, InWrite
  <2>. QED
    BY <1>2, <2>1, <2>2
<1>10. w = u
  <2>1. 1 \in 1..Len(pipe[io])
    BY <1>1 DEF TypeOK
  <2>. QED
    BY <1>8, <1>9, <2>1 DEF CellsOf
<1>. QED
  BY <1>3, <1>4, <1>5, <1>7, <1>10

\* The kernel gets the reply to a request only from the slot that holds its
\* header, as the last step of the chain of its own handler.
THEOREM AnswersGenuine == Spec => AnsweredByHolder
<1>. DEFINE A == \A u \in Reqs : Answers(u) =>
                   \E io \in Ios : /\ header_buf[io] # <<>> /\ fheader(io) = u
                                   /\ reply[io].req = u
                                   /\ Len(sqes[io]) = 1 /\ sqes'[io] = <<>>
<1>1. IInv /\ [Next]_vars => A
  <2>. SUFFICES ASSUME IInv, [Next]_vars, NEW u \in Reqs, Answers(u)
                PROVE  \E io \in Ios : /\ header_buf[io] # <<>> /\ fheader(io) = u
                                       /\ reply[io].req = u
                                       /\ Len(sqes[io]) = 1 /\ sqes'[io] = <<>>
    OBVIOUS
  <2>. QED
    BY AnswerIsAccepted, AnswererHolds
<1>2. IInv /\ [Next]_vars => [A]_vars
  BY <1>1
<1>. QED
  BY <1>2, Invariance, PTL DEF Spec, AnsweredByHolder
=============================================================================
