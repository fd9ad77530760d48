----------------------- MODULE FuseRequestRefineProofs -----------------------
(***************************************************************************)
(* FuseRequest implements FuseSession, for every set of slots, requests    *)
(* and messages, every size and every fault.  IInv tells what a slot's     *)
(* pipe and buffers hold at each await; RInv adds what the kernel has of   *)
(* the reply when a coroutine is about to end without an error.            *)
(*                                                                         *)
(* The second part is what a reply claims: a READ or WRITE is reported as  *)
(* done only when it is.  IInv does not tell why a short WRITE's second    *)
(* reply, which reports success, is refused: AnswerInv adds that there is  *)
(* something of the payload in front of it.                                *)
(*                                                                         *)
(* The third part is that nothing goes wrong where nothing fails, under    *)
(* Healthy of FuseRequest: WInv has every step of every chain done in full *)
(* and the kernel waiting for the request of every slot with more to do.   *)
(***************************************************************************)
EXTENDS FuseRequestRefine, FuseRequestProofs

-----------------------------------------------------------------------------
(* Requests that a slot holds.                                             *)

\* No step changes the message of a request that a slot holds, nor makes the kernel
\* wait for it again.
LEMMA HeldKept ==
  ASSUME IInv, [Next]_vars, NEW j \in Ios, NEW u \in Reqs, Holds(j, u)
  PROVE  /\ msg'[u] = msg[u]
         /\ kstate[u] # "processing" => kstate'[u] # "processing"
<1>1. kstate[u] \notin {"none", "pending"} /\ TypeOK
  BY DEF IInv, QueueInv
<1>2. ASSUME UNCHANGED <<msg, kstate>> PROVE msg'[u] = msg[u] /\ kstate'[u] = kstate[u]
  BY <1>2
<1>3. ASSUME NEW io \in Ios, queue_fuse_read(io) \/ Resume(io)
      PROVE  UNCHANGED <<msg, kstate>>
  BY <1>3 DEF queue_fuse_read, Resume, ResumeFuseRead, ResumeFuseHeader, ResumeRbytes,
     ResumeReply, ResumeRead, ResumeWrite, Resumed, kernelVars
<1>4. ASSUME submit_and_wait \/ end_batch \/ UNCHANGED vars
      PROVE  UNCHANGED <<msg, kstate>>
  BY <1>4 DEF submit_and_wait, end_batch, vars, kernelVars
<1>5. ASSUME NEW io \in Ios, SpliceFromFuse(io)
      PROVE  msg'[u] = msg[u] /\ (kstate[u] # "processing" => kstate'[u] # "processing")
  <2>1. UNCHANGED msg
    BY <1>5 DEF SpliceFromFuse, Heads
  <2>2. CASE UNCHANGED kstate
    BY <2>1, <2>2
  <2>3. CASE /\ pending # <<>>
             /\ kstate' = [kstate EXCEPT ![pending[1]] =
                             IF msg[pending[1]].op \in NoReplyOps THEN "noreply" ELSE "processing"]
    <3>1. 1 \in 1..Len(pending)
      BY <1>1, <2>3 DEF TypeOK
    <3>2. kstate[pending[1]] = "pending"
      BY <3>1 DEF IInv, QueueInv
    <3>. QED
      BY <1>1, <2>1, <2>3, <3>2 DEF TypeOK
  <2>. QED
    BY <1>5, <2>2, <2>3 DEF SpliceFromFuse
<1>6. ASSUME NEW io \in Ios,
             \/ ReadPipe(io) \/ WritePipe(io)
             \/ SpliceFromBacking(io) \/ SpliceToBacking(io)
      PROVE  UNCHANGED <<msg, kstate>>
  BY <1>6 DEF ReadPipe, WritePipe, SpliceFromBacking, SpliceToBacking, Heads
<1>7. ASSUME NEW io \in Ios, SpliceToFuse(io)
      PROVE  msg'[u] = msg[u] /\ (kstate[u] # "processing" => kstate'[u] # "processing")
  <2>1. UNCHANGED msg
    BY <1>7 DEF SpliceToFuse, Heads
  <2>2. \/ UNCHANGED kstate
        \/ \E w \in Reqs : kstate' = [kstate EXCEPT ![w] = "answered"]
    BY <1>7 DEF SpliceToFuse
  <2>. QED
    BY <1>1, <2>1, <2>2 DEF TypeOK
<1>8. ASSUME NEW w \in Reqs, NEW m \in Messages, KernelSend(w, m)
      PROVE  msg'[u] = msg[u] /\ kstate'[u] = kstate[u]
  BY <1>1, <1>8 DEF KernelSend, TypeOK
<1>9. ASSUME NEW w \in Reqs, KernelRecycle(w)
      PROVE  msg'[u] = msg[u] /\ kstate'[u] = kstate[u]
  <2>1. w # u
    BY <1>9 DEF KernelRecycle
  <2>. QED
    BY <1>1, <1>9, <2>1 DEF KernelRecycle, TypeOK
<1>10. ASSUME KernelUnmount
       PROVE  msg'[u] = msg[u] /\ (kstate[u] # "processing" => kstate'[u] # "processing")
  BY <1>1, <1>10 DEF KernelUnmount, TypeOK
<1>. QED
  BY <1>2, <1>3, <1>4, <1>5, <1>6, <1>7, <1>8, <1>9, <1>10 DEF Next, Returned, Execute

\* While its reply is sent, a slot holds the request.
LEMMA ReplyHolds ==
  ASSUME IInv, NEW io \in Ios, pc[io] \in {"reply", "read", "write"}
  PROVE  reply[io].req \in Reqs /\ HeaderOf(io, reply[io].req) /\ Holds(io, reply[io].req)
<1>1. TypeOK /\ SlotInv(io)
  BY DEF IInv
<1>2. PICK u \in Reqs : HeaderOf(io, u) /\ reply[io].req = u
  BY <1>1 DEF SlotInv, InReply, InRead, InWrite
<1>. QED
  BY <1>1, <1>2, HoldsReading

\* A slot that a step leaves alone keeps ReplyInv.
LEMMA ReplyStable ==
  ASSUME RInv, [Next]_vars, NEW j \in Ios, UNCHANGED <<pc[j], sqes[j], res[j], reply[j]>>
  PROVE  ReplyInv(j)'
<1>1. CASE pc[j] \notin {"reply", "read", "write"}
  BY <1>1 DEF ReplyInv, Sent
<1>2. CASE pc[j] \in {"reply", "read", "write"}
  <2>. DEFINE u == reply[j].req
  <2>1. u \in Reqs /\ Holds(j, u) /\ IInv
    BY <1>2, ReplyHolds DEF RInv
  <2>2. msg'[u] = msg[u] /\ (kstate[u] # "processing" => kstate'[u] # "processing")
    BY <2>1, HeldKept
  <2>3. u \in excused => u \in excused'
    BY <2>1, <2>2 DEF excused
  <2>. QED
    BY <2>2, <2>3 DEF RInv, ReplyInv, Sent, Session!Over
<1>. QED
  BY <1>1, <1>2

-----------------------------------------------------------------------------
(* The slot that takes a step.                                             *)

\* A coroutine that returns has no reply under way.
LEMMA ReturnReply ==
  ASSUME TypeOK, NEW io \in Ios, NEW rc, Return(io, rc)
  PROVE  ReplyInv(io)'
<1>1. pc'[io] = "pool"
  BY DEF TypeOK, Return
<1>. QED
  BY <1>1 DEF ReplyInv, Sent

\* A coroutine that awaits a chain has no result of it yet.
LEMMA AwaitReply ==
  ASSUME TypeOK, NEW io \in Ios, NEW l, NEW chain, Await(io, l, chain), chain # <<>>,
         l = "reply" => reply'[io].len # 0 \/ reply'[io].req \in excused'
  PROVE  ReplyInv(io)'
<1>1. pc'[io] = l /\ sqes'[io] # <<>>
  BY DEF TypeOK, Await
<1>. QED
  BY <1>1 DEF ReplyInv, Sent

\* send_reply with a length, or for a request that is excused.
LEMMA SendReply ==
  ASSUME TypeOK, NEW io \in Ios, NEW u \in Reqs, NEW err, NEW len,
         send_reply(io, u, err, len), UNCHANGED msg,
         len # 0 \/ u \in excused
  PROVE  ReplyInv(io)'
<1>1. reply'[io].len = len /\ reply'[io].req = u
  BY DEF send_reply, TypeOK
<1>2. u \in excused => u \in excused'
  BY DEF excused
<1>3. Await(io, "reply", ReplyChain(len)) /\ ReplyChain(len) # <<>>
  BY ChainsRemain DEF send_reply
<1>. QED
  BY <1>1, <1>2, <1>3, AwaitReply

\* Every handler sends a reply of some length, but handle_read for another node.
LEMMA HandleReply ==
  ASSUME TypeOK, NEW io \in Ios, NEW u \in Reqs, Handle(io, u), UNCHANGED msg
  PROVE  ReplyInv(io)'
<1>1. CASE handle_simple(io, u)
  <2>1. ReplyLen(msg[u]) # 0
    BY SizeFacts
  <2>2. send_reply(io, u, ReplyErr(msg[u]), ReplyLen(msg[u]))
    BY <1>1 DEF handle_simple, send_scratch
  <2>. QED
    BY <2>1, <2>2, SendReply
<1>2. CASE handle_read_noent(io, u)
  <2>1. u \in excused
    BY <1>2 DEF handle_read_noent, excused
  <2>2. send_reply(io, u, TRUE, found_len(io, u))
    BY <1>2 DEF handle_read_noent, send_scratch
  <2>. QED
    BY <2>1, <2>2, SendReply
<1>3. CASE handle_read(io, u)
  <2>1. PICK size, len : Await(io, "read", ReadChain(size, len))
    BY <1>3 DEF handle_read
  <2>. QED
    BY <2>1, ChainsRemain, AwaitReply
<1>4. CASE handle_write_refused(io, u)
  <2>1. send_reply(io, u, TRUE, OutHeader)
    BY <1>4 DEF handle_write_refused, send_scratch
  <2>2. OutHeader # 0
    BY DEF OutHeader
  <2>. QED
    BY <2>1, <2>2, SendReply
<1>5. CASE handle_write(io, u)
  <2>1. PICK size, len : Await(io, "write", WriteChain(size, len))
    BY <1>5 DEF handle_write
  <2>. QED
    BY <2>1, ChainsRemain, AwaitReply
<1>. QED
  BY <1>1, <1>2, <1>3, <1>4, <1>5 DEF Handle

\* From a complete header on.
LEMMA DispatchReply ==
  ASSUME TypeOK, NEW io \in Ios, NEW n, fheader(io) \in Reqs, Dispatch(io, n),
         UNCHANGED msg
  PROVE  ReplyInv(io)'
<1>. DEFINE u    == fheader(io)
            need == BodySize(msg[u], n)
<1>1. CASE Return(io, -1)
  BY <1>1, ReturnReply
<1>2. CASE read_rbytes(io, u, need)
  <2>1. CASE Handle(io, u)
    BY <2>1, HandleReply
  <2>2. CASE Await(io, "rbytes", BodyChain(need - (init_read(io) - InHeader)))
    BY <2>2, ChainsRemain, AwaitReply
  <2>. QED
    BY <1>2, <2>1, <2>2 DEF read_rbytes
<1>. QED
  BY <1>1, <1>2 DEF Dispatch

\* The request whose header a slot has read is one of Reqs.
LEMMA HeaderReq ==
  ASSUME IInv, NEW io \in Ios, header_buf[io] # <<>>
  PROVE  fheader(io) \in Reqs
<1>1. header_buf[io] \in Seq(Cell)
  BY DEF IInv, TypeOK
<1>2. header_buf[io][1] \in Cell
  BY <1>1, ElementOfSeq
<1>. QED
  BY <1>2 DEF fheader, Cell

\* A coroutine that is resumed ends, or awaits a chain of which nothing is done yet.
LEMMA ResumeReplyInv ==
  ASSUME IInv, NEW io \in Ios, Resume(io)
  PROVE  ReplyInv(io)'
<1>1. TypeOK /\ InHeader \in Nat \ {0}
  BY ConstAssumption DEF IInv
<1>2. UNCHANGED msg
  BY DEF Resume, ResumeFuseRead, ResumeFuseHeader, ResumeRbytes, ResumeReply, ResumeRead,
     ResumeWrite, Resumed, kernelVars
<1>3. init_read(io) >= InHeader => fheader(io) \in Reqs
  BY <1>1, HeaderReq DEF init_read
<1>4. CASE ResumeFuseRead(io)
  <2>1. CASE Return(io, -1)
    BY <1>1, <2>1, ReturnReply
  <2>2. CASE Await(io, "fuse_header", HeaderChain(InHeader - init_read(io)))
    BY <1>1, <2>2, ChainsRemain, AwaitReply
  <2>3. CASE init_read(io) >= InHeader /\ Dispatch(io, res[io][1])
    BY <1>1, <1>2, <1>3, <2>3, DispatchReply
  <2>. QED
    BY <1>4, <2>1, <2>2, <2>3 DEF ResumeFuseRead
<1>5. CASE ResumeFuseHeader(io)
  <2>1. CASE Return(io, -1)
    BY <1>1, <2>1, ReturnReply
  <2>2. CASE Await(io, "fuse_header", HeaderChain(InHeader - init_read(io)))
    BY <1>1, <2>2, ChainsRemain, AwaitReply
  <2>3. CASE init_read(io) >= InHeader /\ Dispatch(io, rbytes[io])
    BY <1>1, <1>2, <1>3, <2>3, DispatchReply
  <2>. QED
    BY <1>5, <2>1, <2>2, <2>3 DEF ResumeFuseHeader
<1>6. CASE ResumeRbytes(io)
  <2>1. CASE Return(io, -1)
    BY <1>1, <2>1, ReturnReply
  <2>2. ASSUME NEW k, Await(io, "rbytes", BodyChain(k)) PROVE ReplyInv(io)'
    BY <1>1, <2>2, ChainsRemain, AwaitReply
  <2>3. CASE Handle(io, fheader(io))
    <3>1. pc[io] = "rbytes" /\ SlotInv(io)
      BY <1>6 DEF ResumeRbytes, Resumed, IInv
    <3>2. fheader(io) \in Reqs
      BY <1>3, <3>1 DEF SlotInv, InRbytes, HeaderOf
    <3>. QED
      BY <1>1, <1>2, <2>3, <3>2, HandleReply
  <2>. QED
    BY <1>6, <2>1, <2>2, <2>3 DEF ResumeRbytes
<1>7. CASE ResumeReply(io)
  <2>1. PICK rc : Return(io, rc)
    BY <1>7 DEF ResumeReply
  <2>. QED
    BY <1>1, <2>1, ReturnReply
<1>8. CASE ResumeRead(io)
  <2>1. PICK rc : Return(io, rc)
    BY <1>8 DEF ResumeRead
  <2>. QED
    BY <1>1, <2>1, ReturnReply
<1>9. CASE ResumeWrite(io)
  <2>. DEFINE u   == reply[io].req
              len == reply[io].len
  <2>1. pc[io] = "write" /\ SlotInv(io)
    BY <1>9 DEF ResumeWrite, Resumed, IInv
  <2>2. u \in Reqs /\ len # 0 /\ OutHeader # 0
    BY <2>1 DEF SlotInv, InWrite, OutHeader, OutBody
  <2>3. CASE send_reply(io, u, TRUE, OutHeader)
    BY <1>1, <1>2, <2>2, <2>3, SendReply
  <2>4. CASE send_reply(io, u, FALSE, len)
    BY <1>1, <1>2, <2>2, <2>4, SendReply
  <2>5. ASSUME NEW rc, Return(io, rc) PROVE ReplyInv(io)'
    BY <1>1, <2>5, ReturnReply
  <2>. QED
    BY <1>9, <2>3, <2>4, <2>5 DEF ResumeWrite, send_scratch
<1>. QED
  BY <1>4, <1>5, <1>6, <1>7, <1>8, <1>9 DEF Resume

\* A linked step that is not the last of its chain: the chain goes on, or ends in Err.
LEMMA MiddleReply ==
  ASSUME RInv, NEW io \in Ios, NEW rc \in Results, Post(io, rc), sqes[io] # <<>>,
         sqes[io][1].link = "link", Tail(sqes[io]) # <<>>,
         UNCHANGED <<msg, pc, localVars>>
  PROVE  ReplyInv(io)'
<1>. DEFINE n == Len(sqes[io])
            k == Len(res[io])
<1>1. TypeOK /\ UNCHANGED reply /\ UNCHANGED excused
  BY DEF RInv, IInv, localVars, excused
<1>2. sqes[io] \in Seq(SqeSet) /\ n \in Nat /\ n >= 2 /\ k \in Nat
  BY <1>1 DEF TypeOK
<1>3. ~Sent(io)'
  <2>1. CASE rc = sqes[io][1].len
    <3>1. sqes'[io] = Tail(sqes[io])
      BY <1>1, <2>1, PostFacts
    <3>. QED
      BY <3>1 DEF Sent
  <2>2. CASE rc # sqes[io][1].len
    <3>1. /\ Len(res'[io]) = k + n
          /\ \A i \in (k + 2)..(k + n) : res'[io][i] = Err
      BY <1>1, <2>2, PostFacts
    <3>. HIDE DEF n, k
    <3>2. k + n \in (k + 2)..(k + n)
      BY <1>2
    <3>. QED
      BY <3>1, <3>2 DEF Sent
  <2>. QED
    BY <2>1, <2>2
<1>. QED
  BY <1>1, <1>3 DEF ReplyInv, RInv

\* The last step: the device has taken the reply, there was none to take, or it failed.
LEMMA LastReply ==
  ASSUME RInv, NEW io \in Ios, SpliceToFuse(io)
  PROVE  ReplyInv(io)'
<1>. DEFINE len == reply[io].len
            n   == sqes[io][1].len
<1>1. /\ sqes[io] # <<>> /\ sqes[io][1].op = "splice_to_fuse" /\ IInv /\ TypeOK
      /\ UNCHANGED <<msg, pc, reply>> /\ UNCHANGED excused /\ ReplyInv(io)
  BY DEF SpliceToFuse, Heads, IInv, RInv, localVars, excused
<1>2. PICK u \in Reqs :
        \/ /\ pc[io] = "reply" /\ InReply(io, u)
           /\ sqes[io] = Tail(ReplyChain(len))
        \/ /\ pc[io] = "read" /\ InRead(io, u)
           /\ sqes[io] = Tail(Tail(ReadChain(ReadSize(msg[u]), len)))
        \/ /\ pc[io] = "write" /\ InWrite(io, u)
           /\ sqes[io] = Tail(Tail(WriteChain(msg[u].size, len)))
  BY <1>1, HeadStage
<1>3. reply[io].req = u
  BY <1>2 DEF InReply, InRead, InWrite
<1>4. n = len /\ sqes[io][1].link = "none"
  <2>. DEFINE size1 == ReadSize(msg[u])
              size2 == msg[u].size
  <2>. HIDE DEF size1, size2, len
  <2>1. \/ sqes[io] = Tail(ReplyChain(len))
        \/ sqes[io] = Tail(Tail(ReadChain(size1, len)))
        \/ sqes[io] = Tail(Tail(WriteChain(size2, len)))
    BY <1>2 DEF size1, size2
  <2>2. CASE sqes[io] = Tail(ReplyChain(len))
    BY <2>2 DEF ReplyChain, Sqe, n
  <2>3. CASE sqes[io] = Tail(Tail(ReadChain(size1, len)))
    BY <2>3 DEF ReadChain, Sqe, n
  <2>4. CASE sqes[io] = Tail(Tail(WriteChain(size2, len)))
    BY <2>4 DEF WriteChain, Sqe, n
  <2>. QED
    BY <2>1, <2>2, <2>3, <2>4
<1>5. ASSUME NEW rc \in Results, Post(io, rc), rc = Err \/ Session!Over(u)'
      PROVE  ReplyInv(io)'
  <2>1. res'[io] = res[io] \o <<rc>> /\ res[io] \in Seq(Results)
    BY <1>1, <1>4, <1>5, PostFacts DEF TypeOK
  <2>2. res'[io][Len(res'[io])] = rc
    BY <1>5, <2>1
  <2>. QED
    BY <1>1, <1>3, <1>5, <2>2 DEF ReplyInv, Sent
<1>6. CASE Post(io, Err)
  BY <1>5, <1>6 DEF Results
<1>7. CASE n = 0 /\ Post(io, 0)
  <2>1. pc[io] = "reply"
    <3>1. ASSUME pc[io] = "read" PROVE FALSE
      <4>. DEFINE size == ReadSize(msg[u])
      <4>1. InRead(io, u) /\ sqes[io] = Tail(Tail(ReadChain(size, len))) /\ size \in Nat
        BY <1>1, <1>2, <3>1, SizeFacts
      <4>. HIDE DEF size
      <4>2. /\ sqes[io] # ReadChain(size, len) /\ sqes[io] # Tail(ReadChain(size, len))
            /\ sqes[io] # <<>>
        BY <4>1 DEF ReadChain, Sqe
      <4>3. len = OutHeader + size
        BY <4>1, <4>2 DEF InRead, size
      <4>4. len = 0
        BY <1>4, <1>7
      <4>. HIDE DEF len
      <4>. QED
        BY <4>1, <4>3, <4>4 DEF OutHeader
    <3>2. ASSUME pc[io] = "write" PROVE FALSE
      BY <1>2, <1>4, <1>7, <3>2 DEF InWrite, OutHeader, OutBody
    <3>. QED
      BY <1>2, <3>1, <3>2
  <2>2. u \in excused'
    BY <1>1, <1>3, <1>4, <1>7, <2>1 DEF ReplyInv
  <2>3. Session!Over(u)'
    BY <2>2 DEF Session!Over
  <2>. QED
    BY <1>5, <1>7, <2>3 DEF Results
<1>8. ASSUME NEW w \in Reqs, Accepts(Take(pipe[io], n), w), Post(io, n),
             kstate' = [kstate EXCEPT ![w] = "answered"], 0 < n, n <= Len(pipe[io])
      PROVE  ReplyInv(io)'
  <2>1. n \in Nat /\ n \in 1..Len(pipe[io]) /\ n \in Results
    BY <1>1, <1>4, <1>8 DEF TypeOK, Reply, Results
  <2>2. w = u
    BY <1>1, <1>3, <1>8, <2>1, AnswererHolds
  <2>3. Session!Over(u)'
    BY <1>1, <1>8, <2>2 DEF Session!Over, TypeOK
  <2>. QED
    BY <1>5, <1>8, <2>1, <2>3
<1>. QED
  BY <1>6, <1>7, <1>8 DEF SpliceToFuse

\* A step of the kernel on a slot's chain.
LEMMA ExecuteReplyInv ==
  ASSUME RInv, NEW io \in Ios, Execute(io)
  PROVE  ReplyInv(io)'
<1>1. IInv /\ TypeOK /\ ReplyInv(io)
  BY DEF RInv, IInv
<1>2. CASE SpliceFromFuse(io) \/ ReadPipe(io)
  <2>1. pc'[io] \notin {"reply", "read", "write"}
    BY <1>1, <1>2, HeadStage DEF SpliceFromFuse, ReadPipe, Heads
  <2>. QED
    BY <2>1 DEF ReplyInv, Sent
<1>3. CASE WritePipe(io) \/ SpliceFromBacking(io) \/ SpliceToBacking(io)
  <2>1. /\ sqes[io] # <<>> /\ UNCHANGED <<msg, pc, localVars>>
        /\ sqes[io][1].op \in {"write_pipe", "splice_from_backing", "splice_to_backing"}
    BY <1>3 DEF WritePipe, SpliceFromBacking, SpliceToBacking, Heads
  <2>2. sqes[io][1].link = "link" /\ Tail(sqes[io]) # <<>> /\ sqes[io][1].len \in Nat
    <3>1. sqes[io][1].len \in Nat
      <4>1. sqes[io] \in Seq(SqeSet)
        BY <1>1 DEF TypeOK
      <4>2. sqes[io][1] \in SqeSet
        BY <2>1, <4>1, ElementOfSeq, LenZero
      <4>. QED
        BY <4>2 DEF SqeSet
    <3>2. PICK size, len : \/ sqes[io] = ReplyChain(len)
                           \/ sqes[io] = ReadChain(size, len)
                           \/ sqes[io] = Tail(ReadChain(size, len))
                           \/ sqes[io] = WriteChain(size, len)
                           \/ sqes[io] = Tail(WriteChain(size, len))
      BY <1>1, <2>1, HeadStage
    <3>3. sqes[io][1].link = "link" /\ Tail(sqes[io]) # <<>>
      <4>1. CASE sqes[io] = ReplyChain(len)
        BY <4>1 DEF ReplyChain, Sqe
      <4>2. CASE sqes[io] = ReadChain(size, len)
        BY <4>2 DEF ReadChain, Sqe
      <4>3. CASE sqes[io] = Tail(ReadChain(size, len))
        BY <4>3 DEF ReadChain, Sqe
      <4>4. CASE sqes[io] = WriteChain(size, len)
        BY <4>4 DEF WriteChain, Sqe
      <4>5. CASE sqes[io] = Tail(WriteChain(size, len))
        BY <4>5 DEF WriteChain, Sqe
      <4>. QED
        BY <3>2, <4>1, <4>2, <4>3, <4>4, <4>5
    <3>. QED
      BY <3>1, <3>3
  <2>3. PICK rc \in Results : Post(io, rc)
    <3>1. Err \in Results /\ Nat \subseteq Results
      BY DEF Results
    <3>2. CASE WritePipe(io)
      BY <2>2, <3>1, <3>2 DEF WritePipe
    <3>3. CASE SpliceFromBacking(io)
      <4>. DEFINE off   == msg[reply[io].req].off
                  avail == IF off < FileSize THEN FileSize - off ELSE 0
                  whole == Least(sqes[io][1].len, avail)
      <4>. HIDE DEF whole
      <4>1. Post(io, Err) \/ \E k \in 0..whole : Post(io, k)
        BY <3>3 DEF SpliceFromBacking, whole
      <4>2. \A k \in 0..whole : k \in Nat
        OBVIOUS
      <4>. QED
        BY <3>1, <4>1, <4>2
    <3>4. CASE SpliceToBacking(io)
      BY <3>1, <3>4 DEF SpliceToBacking
    <3>. QED
      BY <1>3, <3>2, <3>3, <3>4
  <2>. QED
    BY <2>1, <2>2, <2>3, MiddleReply
<1>4. CASE SpliceToFuse(io)
  BY <1>4, LastReply
<1>. QED
  BY <1>2, <1>3, <1>4 DEF Execute

\* A coroutine's step leaves the other slots alone.
LEMMA ResumeFrame ==
  ASSUME TypeOK, NEW io \in Ios, Resume(io), NEW j \in Ios, j # io
  PROVE  UNCHANGED <<pc[j], sqes[j], res[j], reply[j]>>
<1>1. ASSUME NEW rc, Return(io, rc) PROVE UNCHANGED <<pc[j], sqes[j], res[j], reply[j]>>
  BY <1>1 DEF Return, TypeOK
<1>2. ASSUME NEW l, NEW chain, Await(io, l, chain), reply'[j] = reply[j]
      PROVE  UNCHANGED <<pc[j], sqes[j], res[j], reply[j]>>
  BY <1>2 DEF Await, TypeOK
<1>3. ASSUME NEW u, NEW err, NEW len, send_reply(io, u, err, len)
      PROVE  UNCHANGED <<pc[j], sqes[j], res[j], reply[j]>>
  <2>1. reply'[j] = reply[j]
    BY <1>3 DEF send_reply, TypeOK
  <2>. QED
    BY <1>2, <1>3, <2>1 DEF send_reply
<1>4. ASSUME NEW u, Handle(io, u) PROVE UNCHANGED <<pc[j], sqes[j], res[j], reply[j]>>
  <2>1. CASE handle_simple(io, u) \/ handle_read_noent(io, u) \/ handle_write_refused(io, u)
    BY <1>3, <2>1 DEF handle_simple, handle_read_noent, handle_write_refused, send_scratch
  <2>2. CASE handle_read(io, u) \/ handle_write(io, u)
    <3>1. reply'[j] = reply[j]
      BY <2>2 DEF handle_read, handle_write, TypeOK
    <3>. QED
      BY <1>2, <2>2, <3>1 DEF handle_read, handle_write
  <2>. QED
    BY <1>4, <2>1, <2>2 DEF Handle
<1>5. ASSUME NEW n, Dispatch(io, n) PROVE UNCHANGED <<pc[j], sqes[j], res[j], reply[j]>>
  <2>1. ASSUME NEW u, NEW need, read_rbytes(io, u, need)
        PROVE  UNCHANGED <<pc[j], sqes[j], res[j], reply[j]>>
    BY <1>2, <1>4, <2>1 DEF read_rbytes
  <2>. QED
    BY <1>1, <1>5, <2>1 DEF Dispatch
<1>6. CASE ResumeFuseRead(io)
  BY <1>1, <1>2, <1>5, <1>6 DEF ResumeFuseRead
<1>7. CASE ResumeFuseHeader(io)
  BY <1>1, <1>2, <1>5, <1>7 DEF ResumeFuseHeader, localVars
<1>8. CASE ResumeRbytes(io)
  BY <1>1, <1>2, <1>4, <1>8 DEF ResumeRbytes
<1>9. CASE ResumeReply(io) \/ ResumeRead(io)
  BY <1>1, <1>9 DEF ResumeReply, ResumeRead
<1>10. CASE ResumeWrite(io)
  BY <1>1, <1>3, <1>10 DEF ResumeWrite, send_scratch
<1>. QED
  BY <1>6, <1>7, <1>8, <1>9, <1>10 DEF Resume

-----------------------------------------------------------------------------
(* The invariant.                                                          *)

\* No slot is at a reply when the worker starts.
LEMMA RInit == Init => RInv
<1>. SUFFICES ASSUME Init PROVE RInv
  OBVIOUS
<1>1. IInv
  BY InitInv
<1>2. \A io \in Ios : pc[io] = "pool"
  BY DEF Init
<1>. QED
  BY <1>1, <1>2 DEF RInv, ReplyInv, Sent

\* Every step keeps RInv.
LEMMA RNext == RInv /\ [Next]_vars => RInv'
<1>. SUFFICES ASSUME RInv, [Next]_vars, NEW j \in Ios PROVE ReplyInv(j)'
  BY NextInv DEF RInv
<1>1. IInv /\ TypeOK
  BY DEF RInv, IInv
<1>2. ASSUME UNCHANGED <<pc[j], sqes[j], res[j], reply[j]>> PROVE ReplyInv(j)'
  BY <1>2, ReplyStable
<1>3. ASSUME NEW io \in Ios, queue_fuse_read(io) PROVE ReplyInv(j)'
  <2>1. Await(io, "fuse_read", FuseReadChain) /\ FuseReadChain # <<>> /\ UNCHANGED reply
    BY <1>3, ChainsRemain DEF queue_fuse_read, localVars
  <2>2. CASE j = io
    BY <1>1, <2>1, <2>2, AwaitReply
  <2>3. CASE j # io
    BY <1>1, <1>2, <2>1, <2>3 DEF Await, TypeOK
  <2>. QED
    BY <2>2, <2>3
<1>4. ASSUME NEW io \in Ios, Resume(io) PROVE ReplyInv(j)'
  <2>1. CASE j = io
    BY <1>1, <1>4, <2>1, ResumeReplyInv
  <2>2. CASE j # io
    <3>1. UNCHANGED <<pc[j], sqes[j], res[j], reply[j]>>
      BY <1>1, <1>4, <2>2, ResumeFrame
    <3>. QED
      BY <1>2, <3>1
  <2>. QED
    BY <2>1, <2>2
<1>5. ASSUME NEW io \in Ios, Execute(io) PROVE ReplyInv(j)'
  <2>1. CASE j = io
    BY <1>5, <2>1, ExecuteReplyInv
  <2>2. CASE j # io
    <3>1. UNCHANGED <<pc, reply>> /\ \E rc : Post(io, rc)
      BY <1>5 DEF Execute, SpliceFromFuse, ReadPipe, WritePipe, SpliceFromBacking,
         SpliceToBacking, SpliceToFuse, Heads, localVars
    <3>2. sqes'[j] = sqes[j] /\ res'[j] = res[j]
      BY <1>1, <2>2, <3>1 DEF Post, TypeOK
    <3>. QED
      BY <1>2, <3>1, <3>2
  <2>. QED
    BY <2>1, <2>2
<1>6. CASE \/ submit_and_wait \/ end_batch \/ UNCHANGED vars \/ KernelUnmount
           \/ \E u \in Reqs : KernelRecycle(u) \/ \E m \in Messages : KernelSend(u, m)
  BY <1>2, <1>6 DEF submit_and_wait, end_batch, vars, slotVars, localVars, KernelUnmount,
     KernelRecycle, KernelSend, Idle
<1>. QED
  BY <1>3, <1>4, <1>5, <1>6 DEF Next, Returned

-----------------------------------------------------------------------------
(* The request a slot works on.                                            *)

\* It is the one whose header it has read, or has in its pipe.
LEMMA WorkIs ==
  ASSUME TypeOK, NEW io \in Ios, pc[io] # "pool", NEW u \in Reqs,
         Reading(io, u) \/ HeaderOf(io, u)
  PROVE  work[io] = u
<1>1. /\ header_buf[io] \in Seq(Cell) /\ pipe[io] \in Seq(Cell)
      /\ ReqLen(u) \in Nat \ {0} /\ InHeader \in Nat \ {0}
  BY MessageFacts, ConstAssumption DEF TypeOK
<1>2. CASE header_buf[io] = <<>>
  <2>1. Reading(io, u) /\ Len(pipe[io]) > 0 /\ Len(header_buf[io]) = 0
    BY <1>1, <1>2 DEF Reading, HeaderOf, init_read
  <2>2. pipe[io] # <<>> /\ pipe[io][1] = ReqCell(u, 0 + 1)
    BY <1>1, <2>1 DEF Reading
  <2>. QED
    BY <1>2, <2>2 DEF work, ReqCell
<1>3. CASE header_buf[io] # <<>>
  <2>1. 1 \in 1..Len(header_buf[io])
    BY <1>1, <1>3
  <2>2. header_buf[io][1] = ReqCell(u, 1)
    BY <2>1 DEF Reading, HeaderOf
  <2>. QED
    BY <1>3, <2>2 DEF work, fheader, ReqCell
<1>. QED
  BY <1>2, <1>3

\* A slot holds the request it works on.
LEMMA WorkHeld ==
  ASSUME TypeOK, NEW io \in Ios, work[io] # NoReq
  PROVE  pc[io] # "pool" /\ work[io] \in Reqs /\ Holds(io, work[io])
<1>1. header_buf[io] \in Seq(Cell) /\ pipe[io] \in Seq(Cell)
  BY DEF TypeOK
<1>2. pc[io] # "pool"
  BY DEF work
<1>3. CASE header_buf[io] # <<>>
  <2>1. 1 \in 1..Len(header_buf[io]) /\ header_buf[io][1] \in Cell
    BY <1>1, <1>3, ElementOfSeq
  <2>2. work[io] = header_buf[io][1].req
    BY <1>2, <1>3 DEF work, fheader
  <2>3. header_buf[io][1] \in Cells(header_buf[io])
    BY <2>1 DEF Cells
  <2>. QED
    BY <1>2, <2>1, <2>2, <2>3 DEF Holds, Cell
<1>4. CASE header_buf[io] = <<>>
  <2>1. pipe[io] # <<>> /\ work[io] = pipe[io][1].req
    BY <1>2, <1>4 DEF work
  <2>2. 1 \in 1..Len(pipe[io]) /\ pipe[io][1] \in Cell
    BY <1>1, <2>1, ElementOfSeq
  <2>3. pipe[io][1] \in Cells(pipe[io])
    BY <2>2 DEF Cells
  <2>. QED
    BY <1>2, <2>1, <2>2, <2>3 DEF Holds, Cell
<1>. QED
  BY <1>3, <1>4

\* A step of one slot changes what that slot works on, at most.
LEMMA WorkFrame ==
  ASSUME TypeOK, NEW io \in Ios,
         \A j \in Ios \ {io} : /\ pc'[j] = pc[j] /\ pipe'[j] = pipe[j]
                               /\ header_buf'[j] = header_buf[j]
  PROVE  work' = [work EXCEPT ![io] = work'[io]]
<1>1. \A j \in Ios \ {io} : work'[j] = work[j]
  BY DEF work, fheader
<1>2. work = [j \in Ios |-> work[j]] /\ work' = [j \in Ios |-> work'[j]]
  BY DEF work
<1>. QED
  BY <1>1, <1>2

\* The state of the session that a step of the pipeline leaves alone.
LEMMA Stutter ==
  ASSUME UNCHANGED <<phase, last_rc, kernelVars, work>>
  PROVE  UNCHANGED Session!vars
BY DEF Session!vars, kernelVars, excused

-----------------------------------------------------------------------------
(* The steps of coroutines.                                                *)

\* A coroutine that is started works on nothing yet.
LEMMA SimQueueFuseRead ==
  ASSUME IInv, NEW io \in Ios, queue_fuse_read(io)
  PROVE  UNCHANGED Session!vars
<1>1. /\ TypeOK /\ SlotInv(io) /\ PhaseInv /\ pc[io] = "pool" /\ phase = "fill"
      /\ header_buf' = [header_buf EXCEPT ![io] = <<>>]
      /\ pc' = [pc EXCEPT ![io] = "fuse_read"]
      /\ UNCHANGED <<phase, last_rc, kernelVars, pipe>>
  BY DEF queue_fuse_read, Await, IInv
<1>2. pipe[io] = <<>>
  BY <1>1 DEF PhaseInv, SlotInv, InPool
<1>3. work'[io] = NoReq /\ work[io] = NoReq
  BY <1>1, <1>2 DEF work, TypeOK
<1>4. work' = [work EXCEPT ![io] = work'[io]]
  BY <1>1, WorkFrame DEF TypeOK
<1>5. work' = work
  <2>1. work = [j \in Ios |-> work[j]]
    BY DEF work
  <2>. QED
    BY <1>3, <1>4, <2>1
<1>. QED
  BY <1>1, <1>5, Stutter

\* A coroutine that is resumed returns, or awaits its next chain; it returns 0 only if
\* the last step of the chain of its reply did not fail.
LEMMA ResumeKinds ==
  ASSUME IInv, NEW io \in Ios, Resume(io)
  PROVE  /\ UNCHANGED <<phase, kernelVars, pipe, header_buf>> /\ pc[io] # "pool"
         /\ \/ \E rc \in {0, -1} : Return(io, rc) /\ (rc = 0 => Sent(io))
            \/ \E l \in Labels \ {"pool"} : \E chain : Await(io, l, chain)
<1>. DEFINE Kinds == \/ \E rc \in {0, -1} : Return(io, rc) /\ (rc = 0 => Sent(io))
                     \/ \E l \in Labels \ {"pool"} : \E chain : Await(io, l, chain)
<1>1. /\ UNCHANGED <<phase, kernelVars, pipe, header_buf>> /\ pc[io] # "pool"
      /\ sqes[io] = <<>> /\ TypeOK /\ SlotInv(io)
  BY DEF Resume, ResumeFuseRead, ResumeFuseHeader, ResumeRbytes, ResumeReply, ResumeRead,
     ResumeWrite, Resumed, Completed, IInv
<1>0. ASSUME NEW rc \in {0, -1}, Return(io, rc), rc = 0 => Sent(io) PROVE Kinds
  BY <1>0
<1>2. ASSUME Return(io, -1) PROVE Kinds
  BY <1>2
<1>3. ASSUME NEW l \in Labels \ {"pool"}, NEW chain, Await(io, l, chain) PROVE Kinds
  BY <1>3
<1>. HIDE DEF Kinds
<1>4. ASSUME NEW u, NEW err, NEW len, send_reply(io, u, err, len) PROVE Kinds
  BY <1>4, <1>3 DEF send_reply, Labels
<1>5. ASSUME NEW u, Handle(io, u) PROVE Kinds
  <2>1. CASE handle_simple(io, u) \/ handle_read_noent(io, u) \/ handle_write_refused(io, u)
    BY <1>4, <2>1 DEF handle_simple, handle_read_noent, handle_write_refused, send_scratch
  <2>2. CASE handle_read(io, u) \/ handle_write(io, u)
    BY <1>3, <2>2 DEF handle_read, handle_write, Labels
  <2>. QED
    BY <1>5, <2>1, <2>2 DEF Handle
<1>6. ASSUME NEW n, Dispatch(io, n) PROVE Kinds
  <2>1. ASSUME NEW u, NEW need, read_rbytes(io, u, need) PROVE Kinds
    BY <1>3, <1>5, <2>1 DEF read_rbytes, Labels
  <2>. QED
    BY <1>2, <1>6, <2>1 DEF Dispatch
<1>7. ASSUME NEW l, NEW chain, Await(io, l, chain), l \in {"fuse_header", "rbytes"} PROVE Kinds
  BY <1>3, <1>7 DEF Labels
<1>8. ASSUME ResumeFuseRead(io) PROVE Kinds
  BY <1>2, <1>6, <1>7, <1>8 DEF ResumeFuseRead
<1>9. ASSUME ResumeFuseHeader(io) PROVE Kinds
  BY <1>2, <1>6, <1>7, <1>9 DEF ResumeFuseHeader
<1>10. ASSUME ResumeRbytes(io) PROVE Kinds
  BY <1>2, <1>5, <1>7, <1>10 DEF ResumeRbytes
<1>. DEFINE r   == res[io]
            len == reply[io].len
<1>11. len \in Nat /\ Err \notin Nat
  BY <1>1 DEF TypeOK, Reply, Err
<1>12. ASSUME ResumeReply(io) PROVE Kinds
  <2>. DEFINE rc == IF r[1] # len \/ r[2] # len THEN -1 ELSE 0
  <2>1. pc[io] = "reply" /\ Return(io, rc) /\ rc \in {0, -1}
    BY <1>12 DEF ResumeReply, Resumed
  <2>2. Len(r) = 2
    BY <1>1, <2>1, ChainsRemain DEF SlotInv, InReply
  <2>3. rc = 0 => Sent(io)
    BY <1>1, <1>11, <2>1, <2>2 DEF Sent
  <2>. HIDE DEF rc
  <2>. QED
    BY <1>0, <2>1, <2>3
<1>13. ASSUME ResumeRead(io) PROVE Kinds
  <2>. DEFINE rc == IF \/ \E i \in 1..3 : r[i] < 0
                       \/ r[1] < OutHeader
                       \/ r[2] < ReadSize(msg[reply[io].req])
                       \/ r[3] < len
                    THEN -1 ELSE 0
  <2>1. pc[io] = "read" /\ Return(io, rc) /\ rc \in {0, -1}
    BY <1>13 DEF ResumeRead, Resumed
  <2>2. Len(r) = 3
    BY <1>1, <2>1, ChainsRemain DEF SlotInv, InRead
  <2>3. rc = 0 => Sent(io)
    BY <1>1, <2>1, <2>2 DEF Sent, Err
  <2>. HIDE DEF rc
  <2>. QED
    BY <1>0, <2>1, <2>3
<1>14. ASSUME ResumeWrite(io) PROVE Kinds
  <2>. DEFINE rc == IF r[2] # len \/ r[3] # len THEN -1 ELSE 0
  <2>1. /\ pc[io] = "write" /\ rc \in {0, -1}
        /\ Return(io, rc) \/ \E u, err, n : send_reply(io, u, err, n)
    BY <1>14 DEF ResumeWrite, Resumed, send_scratch
  <2>2. Len(r) = 3
    BY <1>1, <2>1, ChainsRemain DEF SlotInv, InWrite
  <2>3. rc = 0 => Sent(io)
    BY <1>1, <1>11, <2>1, <2>2 DEF Sent
  <2>. HIDE DEF rc
  <2>. QED
    BY <1>0, <1>4, <2>1, <2>3
<1>. QED
  BY <1>1, <1>8, <1>9, <1>10, <1>12, <1>13, <1>14 DEF Resume, Kinds

\* A coroutine that goes on keeps its request; one that ends gives its slot back, in
\* order only after a reply.
LEMMA SimResume ==
  ASSUME RInv, NEW io \in Ios, Resume(io)
  PROVE  Session!Next \/ UNCHANGED Session!vars
<1>1. /\ IInv /\ TypeOK /\ ReplyInv(io) /\ phase # "exit"
      /\ UNCHANGED <<phase, kernelVars, pipe, header_buf>> /\ pc[io] # "pool"
  BY ResumeKinds DEF RInv, IInv, Resume, ResumeFuseRead, ResumeFuseHeader, ResumeRbytes,
     ResumeReply, ResumeRead, ResumeWrite, Resumed
<1>2. UNCHANGED <<phase, mounted, pending, kstate>> /\ UNCHANGED excused
  BY <1>1 DEF kernelVars, excused
<1>3. ASSUME NEW rc \in {0, -1}, Return(io, rc), rc = 0 => Sent(io)
      PROVE  Session!Next
  <2>1. /\ pc' = [pc EXCEPT ![io] = "pool"]
        /\ last_rc' = IF rc # 0 THEN rc ELSE last_rc
    BY <1>3 DEF Return
  <2>2. work'[io] = NoReq
    BY <1>1, <2>1 DEF work, TypeOK
  <2>3. work' = [work EXCEPT ![io] = NoReq]
    BY <1>1, <2>1, <2>2, WorkFrame DEF TypeOK
  <2>4. CASE work[io] = NoReq
    <3>1. work' = work
      BY <2>3, <2>4 DEF work
    <3>2. rc = -1
      <4>1. ASSUME rc = 0 PROVE FALSE
        <5>1. reply[io].req \in Reqs /\ HeaderOf(io, reply[io].req)
          BY <1>1, <1>3, <4>1, ReplyHolds DEF Sent
        <5>2. work[io] = reply[io].req
          BY <1>1, <5>1, WorkIs
        <5>. QED
          BY <2>4, <5>1, <5>2, ConstAssumption
      <4>. QED
        BY <4>1
    <3>3. last_rc' # 0
      BY <2>1, <3>2
    <3>4. Session!Fail
      BY <1>1, <1>2, <2>4, <3>1, <3>3 DEF Session!Fail
    <3>. QED
      BY <3>4 DEF Session!Next
  <2>5. CASE work[io] # NoReq
    <3>1. (last_rc' # 0) \in {last_rc # 0, TRUE}
      BY <2>1
    <3>2. Session!Over(work[io]) \/ last_rc' # 0
      <4>1. CASE rc = -1
        BY <2>1, <4>1
      <4>2. CASE rc = 0
        <5>1. reply[io].req \in Reqs /\ HeaderOf(io, reply[io].req)
          BY <1>1, <1>3, <4>2, ReplyHolds DEF Sent
        <5>2. work[io] = reply[io].req
          BY <1>1, <5>1, WorkIs
        <5>. QED
          BY <1>1, <1>3, <4>2, <5>2 DEF ReplyInv
      <4>. QED
        BY <4>1, <4>2
    <3>3. Session!Release(io)
      BY <1>1, <1>2, <2>3, <2>5, <3>1, <3>2 DEF Session!Release
    <3>. QED
      BY <3>3 DEF Session!Next
  <2>. QED
    BY <2>4, <2>5
<1>4. ASSUME NEW l \in Labels \ {"pool"}, NEW chain, Await(io, l, chain)
      PROVE  UNCHANGED Session!vars
  <2>1. pc' = [pc EXCEPT ![io] = l] /\ UNCHANGED last_rc
    BY <1>4 DEF Await
  <2>2. work'[io] = work[io]
    BY <1>1, <2>1 DEF work, fheader, TypeOK
  <2>3. work' = [work EXCEPT ![io] = work'[io]]
    BY <1>1, <2>1, WorkFrame DEF TypeOK
  <2>4. work' = work
    BY <2>2, <2>3 DEF work
  <2>. QED
    BY <1>1, <2>1, <2>4, Stutter
<1>. QED
  BY <1>1, <1>3, <1>4, ResumeKinds

-----------------------------------------------------------------------------
(* The steps of the kernel.                                                *)

\* A step that leaves the pipe's first cell, or header_buf's, in place.
LEMMA SimSameWork ==
  ASSUME TypeOK, NEW io \in Ios, work'[io] = work[io],
         UNCHANGED <<phase, last_rc, kernelVars, pc>>,
         \A j \in Ios \ {io} : pipe'[j] = pipe[j] /\ header_buf'[j] = header_buf[j]
  PROVE  UNCHANGED Session!vars
<1>1. work' = [work EXCEPT ![io] = work'[io]]
  BY WorkFrame
<1>2. work' = work
  BY <1>1 DEF work
<1>. QED
  BY <1>2, Stutter

\* The device hands out its oldest request, or has none any more.
LEMMA SimSpliceFromFuse ==
  ASSUME IInv, NEW io \in Ios, SpliceFromFuse(io)
  PROVE  Session!Next \/ UNCHANGED Session!vars
<1>1. /\ TypeOK /\ phase # "exit" /\ pc[io] = "fuse_read"
      /\ header_buf[io] = <<>> /\ pipe[io] = <<>>
      /\ UNCHANGED <<phase, last_rc, mounted, msg, pc, header_buf>>
  BY HeadStage DEF SpliceFromFuse, Heads, IInv
<1>2. UNCHANGED excused /\ work[io] = NoReq
  BY <1>1 DEF excused, work
<1>3. CASE UNCHANGED <<pipe, kstate, pending>>
  <2>1. work' = work
    BY <1>1, <1>3 DEF work, fheader
  <2>. QED
    BY <1>1, <1>3, <2>1, Stutter DEF kernelVars
<1>4. CASE /\ pending # <<>> /\ pending' = Tail(pending)
           /\ pipe' = [pipe EXCEPT ![io] = @ \o ReqCells(pending[1])]
           /\ kstate' = [kstate EXCEPT ![pending[1]] =
                           IF msg[pending[1]].op \in NoReplyOps THEN "noreply" ELSE "processing"]
  <2>. DEFINE u == pending[1]
  <2>1. u \in Reqs /\ u = Head(pending)
    BY <1>1, <1>4, LenZero, ElementOfSeq DEF TypeOK
  <2>2. ReqCells(u) \in Seq(Cell) /\ Len(ReqCells(u)) = ReqLen(u) /\ ReqLen(u) \in Nat \ {0}
    <3>1. ReqLen(u) \in Nat \ {0}
      BY <1>1, <2>1, MessageFacts
    <3>2. \A i \in 1..ReqLen(u) : ReqCell(u, i) \in Cell
      BY <2>1, <3>1, CellFacts
    <3>. QED
      BY <3>1, <3>2 DEF ReqCells
  <2>3. ReqCells(u)[1] = ReqCell(u, 1)
    BY <2>2 DEF ReqCells
  <2>4. pipe'[io] = ReqCells(u)
    BY <1>1, <1>4, <2>2 DEF TypeOK
  <2>5. pipe'[io] # <<>> /\ pipe'[io][1].req = u
    BY <2>2, <2>3, <2>4 DEF ReqCell
  <2>6. work'[io] = u
    BY <1>1, <2>5 DEF work
  <2>7. work' = [work EXCEPT ![io] = Head(pending)]
    BY <1>1, <1>4, <2>1, <2>6, WorkFrame DEF TypeOK
  <2>8. \E k \in {"processing", "noreply"} : kstate' = [kstate EXCEPT ![Head(pending)] = k]
    BY <1>4, <2>1
  <2>9. Session!Take(io)
    BY <1>1, <1>2, <1>4, <2>7, <2>8 DEF Session!Take
  <2>. QED
    BY <2>9 DEF Session!Next
<1>. QED
  BY <1>3, <1>4 DEF SpliceFromFuse
\* A slot that sends its reply, or reads a body, has the header of its request.
LEMMA HandlingHeader ==
  ASSUME IInv, NEW io \in Ios, pc[io] \in {"rbytes", "reply", "read", "write"}
  PROVE  header_buf[io] # <<>> /\ header_buf[io] \in Seq(Cell)
<1>1. TypeOK /\ SlotInv(io) /\ InHeader \in Nat \ {0}
  BY ConstAssumption DEF IInv
<1>2. PICK u \in Reqs : HeaderOf(io, u)
  BY <1>1 DEF SlotInv, InRbytes, InReply, InRead, InWrite
<1>. QED
  BY <1>1, <1>2 DEF HeaderOf, init_read, TypeOK

\* What is read of the request in the pipe goes to header_buf in order.
LEMMA SimReadPipe ==
  ASSUME IInv, NEW io \in Ios, ReadPipe(io)
  PROVE  UNCHANGED Session!vars
<1>1. /\ TypeOK /\ sqes[io] # <<>> /\ sqes[io][1].op \in {"read_header", "read_body"}
      /\ UNCHANGED <<phase, last_rc, kernelVars, pc>>
      /\ header_buf[io] \in Seq(Cell) /\ pipe[io] \in Seq(Cell)
  BY DEF ReadPipe, Heads, IInv, TypeOK, kernelVars
<1>2. CASE UNCHANGED <<pipe, header_buf>>
  <2>1. work'[io] = work[io]
    BY <1>1, <1>2 DEF work, fheader
  <2>. QED
    BY <1>1, <1>2, <2>1, SimSameWork
<1>3. ASSUME NEW k \in 1..Len(pipe[io]), pipe' = [pipe EXCEPT ![io] = Drop(@, k)],
             header_buf' = IF sqes[io][1].op = "read_header"
                           THEN [header_buf EXCEPT ![io] = @ \o Take(pipe[io], k)]
                           ELSE header_buf
      PROVE  UNCHANGED Session!vars
  <2>1. CASE sqes[io][1].op = "read_body"
    <3>1. header_buf[io] # <<>> /\ UNCHANGED header_buf
      BY <1>1, <1>3, <2>1, HeadStage, HandlingHeader
    <3>2. work'[io] = work[io]
      BY <1>1, <3>1 DEF work, fheader
    <3>. QED
      BY <1>1, <1>3, <3>1, <3>2, SimSameWork
  <2>2. CASE sqes[io][1].op = "read_header"
    <3>1. /\ Take(pipe[io], k) \in Seq(Cell) /\ Len(Take(pipe[io], k)) = k
          /\ Take(pipe[io], k)[1] = pipe[io][1]
      BY <1>1, <1>3, TakeFacts
    <3>2. header_buf' = [header_buf EXCEPT ![io] = header_buf[io] \o Take(pipe[io], k)]
      BY <1>3, <2>2
    <3>3. header_buf'[io] = header_buf[io] \o Take(pipe[io], k)
      BY <1>1, <3>2 DEF TypeOK
    <3>4. header_buf'[io] # <<>>
      <4>. DEFINE t == Take(pipe[io], k)
      <4>1. t \in Seq(Cell) /\ Len(t) = k /\ header_buf'[io] = header_buf[io] \o t
        BY <3>1, <3>3
      <4>. HIDE DEF t
      <4>2. k > 0
        OBVIOUS
      <4>. QED
        BY <1>1, <4>1, <4>2
    <3>5. work'[io] = work[io]
      <4>1. CASE header_buf[io] = <<>>
        <5>1. header_buf'[io][1] = pipe[io][1] /\ pipe[io] # <<>>
          BY <1>1, <1>3, <3>1, <3>3, <4>1
        <5>. QED
          BY <1>1, <3>4, <4>1, <5>1 DEF work, fheader
      <4>2. CASE header_buf[io] # <<>>
        <5>1. header_buf'[io][1] = header_buf[io][1]
          <6>. DEFINE t == Take(pipe[io], k)
          <6>1. t \in Seq(Cell) /\ header_buf'[io] = header_buf[io] \o t
            BY <3>1, <3>3
          <6>2. 1 \in 1..Len(header_buf[io])
            BY <1>1, <4>2, LenZero
          <6>. HIDE DEF t
          <6>. QED
            BY <1>1, <6>1, <6>2
        <5>. QED
          BY <1>1, <3>4, <4>2, <5>1 DEF work, fheader
      <4>. QED
        BY <4>1, <4>2
    <3>6. \A j \in Ios \ {io} : pipe'[j] = pipe[j] /\ header_buf'[j] = header_buf[j]
      BY <1>1, <1>3, <3>2 DEF TypeOK
    <3>. QED
      BY <1>1, <3>5, <3>6, SimSameWork
  <2>. QED
    BY <1>1, <2>1, <2>2
<1>4. Least(sqes[io][1].len, Len(pipe[io])) <= Len(pipe[io]) /\ Len(pipe[io]) \in Nat
  <2>1. sqes[io] \in Seq(SqeSet) /\ sqes[io][1] \in SqeSet
    BY <1>1, LenZero, ElementOfSeq DEF TypeOK
  <2>. QED
    BY <1>1, <2>1 DEF Least, SqeSet
<1>. DEFINE whole == Least(sqes[io][1].len, Len(pipe[io]))
<1>. HIDE DEF whole
<1>5. \A k \in 1..whole : k \in 1..Len(pipe[io])
  <2>1. whole \in Int
    <3>1. sqes[io] \in Seq(SqeSet) /\ sqes[io][1] \in SqeSet
      BY <1>1, LenZero, ElementOfSeq DEF TypeOK
    <3>. QED
      BY <1>1, <3>1 DEF whole, Least, SqeSet
  <2>. QED
    BY <1>4, <2>1 DEF whole
<1>6. \/ UNCHANGED <<pipe, header_buf>>
      \/ \E k \in 1..whole :
           /\ pipe' = [pipe EXCEPT ![io] = Drop(@, k)]
           /\ header_buf' = IF sqes[io][1].op = "read_header"
                            THEN [header_buf EXCEPT ![io] = @ \o Take(pipe[io], k)]
                            ELSE header_buf
  BY DEF ReadPipe, whole
<1>. QED
  BY <1>2, <1>3, <1>5, <1>6

\* The steps that fill the pipe with the reply, or take the payload out of it.
LEMMA SimMiddle ==
  ASSUME IInv, NEW io \in Ios,
         WritePipe(io) \/ SpliceFromBacking(io) \/ SpliceToBacking(io)
  PROVE  UNCHANGED Session!vars
<1>1. /\ TypeOK /\ sqes[io] # <<>>
      /\ sqes[io][1].op \in {"write_pipe", "splice_from_backing", "splice_to_backing"}
      /\ UNCHANGED <<phase, last_rc, kernelVars, pc, header_buf>>
      /\ \A j \in Ios \ {io} : pipe'[j] = pipe[j]
  BY DEF WritePipe, SpliceFromBacking, SpliceToBacking, Heads, IInv, TypeOK, kernelVars
<1>2. pc[io] \in {"reply", "read", "write"}
  BY <1>1, HeadStage
<1>3. header_buf[io] # <<>>
  BY <1>2, HandlingHeader
<1>4. work'[io] = work[io]
  BY <1>1, <1>3 DEF work, fheader
<1>. QED
  BY <1>1, <1>4, SimSameWork

\* A reply that the device takes answers the request the slot works on.
LEMMA SimSpliceToFuse ==
  ASSUME IInv, NEW io \in Ios, SpliceToFuse(io)
  PROVE  Session!Next \/ UNCHANGED Session!vars
<1>. DEFINE n == sqes[io][1].len
<1>1. /\ TypeOK /\ sqes[io] # <<>> /\ sqes[io][1].op = "splice_to_fuse" /\ phase # "exit"
      /\ UNCHANGED <<phase, last_rc, mounted, msg, pc, pending, header_buf>>
      /\ \A j \in Ios \ {io} : pipe'[j] = pipe[j]
  BY DEF SpliceToFuse, Heads, IInv, TypeOK
<1>2. pc[io] \in {"reply", "read", "write"}
  BY <1>1, HeadStage
<1>3. header_buf[io] # <<>>
  BY <1>2, HandlingHeader
<1>4. work'[io] = work[io]
  BY <1>1, <1>3 DEF work, fheader
<1>5. work' = work
  <2>1. work' = [work EXCEPT ![io] = work'[io]]
    BY <1>1, WorkFrame
  <2>. QED
    BY <1>4, <2>1 DEF work
<1>6. CASE UNCHANGED kstate
  BY <1>1, <1>5, <1>6, Stutter DEF kernelVars
<1>7. ASSUME NEW u \in Reqs, Accepts(Take(pipe[io], n), u), Post(io, n),
             0 < n, n <= Len(pipe[io]),
             kstate' = [kstate EXCEPT ![u] = "answered"]
      PROVE  Session!Next
  <2>1. n \in 1..Len(pipe[io])
    <3>1. sqes[io] \in Seq(SqeSet) /\ sqes[io][1] \in SqeSet /\ pipe[io] \in Seq(Cell)
      BY <1>1, LenZero, ElementOfSeq DEF TypeOK
    <3>. QED
      BY <1>7, <3>1 DEF SqeSet
  <2>2. fheader(io) = u
    BY <1>7, <2>1, AnswererHolds
  <2>3. work[io] = u /\ u # NoReq /\ kstate[u] = "processing"
    BY <1>2, <1>3, <1>7, <2>2, ConstAssumption DEF work, Accepts
  <2>4. Session!Answer(io)
    BY <1>1, <1>5, <1>7, <2>3 DEF Session!Answer, excused
  <2>. QED
    BY <2>4 DEF Session!Next
<1>. QED
  BY <1>6, <1>7 DEF SpliceToFuse

-----------------------------------------------------------------------------
(* The users of the mount, the loop, and the whole.                        *)

\* A request that is sent, or whose identity is used again, is excused or not by its
\* new message alone.
LEMMA SimUsers ==
  ASSUME IInv, NEW u \in Reqs,
         KernelRecycle(u) \/ \E m \in Messages : KernelSend(u, m)
  PROVE  Session!Next
<1>1. /\ TypeOK /\ phase # "exit" /\ UNCHANGED <<phase, last_rc, mounted, slotVars>>
      /\ \E m : msg' = [msg EXCEPT ![u] = m]
  BY DEF KernelRecycle, KernelSend, Idle, IInv
<1>2. UNCHANGED work
  BY <1>1 DEF slotVars, localVars, work, fheader
<1>3. Session!Renewed(u)
  <2>1. \A w \in Reqs \ {u} : msg'[w] = msg[w]
    BY <1>1 DEF TypeOK
  <2>. QED
    BY <2>1 DEF excused, Session!Renewed
<1>4. ASSUME NEW m \in Messages, KernelSend(u, m) PROVE Session!Send(u)
  BY <1>1, <1>2, <1>3, <1>4 DEF KernelSend, Session!Send
<1>5. CASE KernelRecycle(u)
  <2>1. \A io \in Ios : work[io] # u
    <3>1. SUFFICES ASSUME NEW io \in Ios, work[io] = u PROVE FALSE
      OBVIOUS
    <3>2. Holds(io, u)
      BY <1>1, <3>1, WorkHeld, ConstAssumption
    <3>. QED
      BY <1>5, <3>2 DEF KernelRecycle
  <2>2. Session!Recycle(u)
    BY <1>1, <1>2, <1>3, <1>5, <2>1 DEF KernelRecycle, Session!Recycle
  <2>. QED
    BY <2>2 DEF Session!Next
<1>. QED
  BY <1>4, <1>5 DEF Session!Next

\* run() goes round its loop, or returns after a failure; an unmount ends requests.
LEMMA SimLoop ==
  ASSUME IInv, submit_and_wait \/ end_batch \/ KernelUnmount \/ UNCHANGED vars
  PROVE  Session!Next \/ UNCHANGED Session!vars
<1>1. /\ UNCHANGED <<last_rc, msg, slotVars>> /\ UNCHANGED work /\ UNCHANGED excused
  BY DEF submit_and_wait, end_batch, KernelUnmount, vars, Idle, slotVars, localVars, kernelVars,
     work, fheader, excused
<1>2. CASE submit_and_wait
  <2>1. (phase # "exit") = (phase' # "exit")
    BY <1>2 DEF submit_and_wait
  <2>. QED
    BY <1>1, <1>2, <2>1 DEF submit_and_wait, Session!vars, kernelVars
<1>3. CASE end_batch
  <2>1. phase = "reap" /\ UNCHANGED kernelVars
    BY <1>3 DEF end_batch
  <2>2. CASE last_rc # 0
    <3>1. Session!Stop
      BY <1>1, <1>3, <2>1, <2>2 DEF end_batch, Session!Stop, kernelVars
    <3>. QED
      BY <3>1 DEF Session!Next
  <2>3. CASE last_rc = 0
    <3>1. (phase # "exit") = (phase' # "exit")
      BY <1>3, <2>1, <2>3 DEF end_batch
    <3>. QED
      BY <1>1, <2>1, <3>1 DEF Session!vars, kernelVars
  <2>. QED
    BY <2>2, <2>3
<1>4. CASE KernelUnmount
  <2>1. Session!Unmount
    BY <1>1, <1>4 DEF KernelUnmount, Session!Unmount, Idle
  <2>. QED
    BY <2>1 DEF Session!Next
<1>5. CASE UNCHANGED vars
  BY <1>1, <1>5 DEF vars, kernelVars, Session!vars
<1>. QED
  BY <1>2, <1>3, <1>4, <1>5

\* A worker that starts has promised nothing yet.
LEMMA SimInit == Init => Session!Init
<1>. SUFFICES ASSUME Init PROVE Session!Init
  OBVIOUS
<1>1. work = [io \in Ios |-> NoReq]
  BY DEF Init, work
<1>. QED
  BY <1>1 DEF Init, Session!Init, excused

\* Every step of the pipeline is one of the session, or does not concern it.
LEMMA SimNext == RInv /\ [Next]_vars => [Session!Next]_Session!vars
<1>. SUFFICES ASSUME RInv, [Next]_vars PROVE Session!Next \/ UNCHANGED Session!vars
  OBVIOUS
<1>1. IInv
  BY DEF RInv
<1>2. ASSUME NEW io \in Ios, queue_fuse_read(io) PROVE UNCHANGED Session!vars
  BY <1>1, <1>2, SimQueueFuseRead
<1>3. ASSUME NEW io \in Ios, Resume(io) PROVE Session!Next \/ UNCHANGED Session!vars
  BY <1>3, SimResume
<1>4. ASSUME NEW io \in Ios, Execute(io) PROVE Session!Next \/ UNCHANGED Session!vars
  BY <1>1, <1>4, SimSpliceFromFuse, SimReadPipe, SimMiddle, SimSpliceToFuse DEF Execute
<1>5. ASSUME NEW u \in Reqs, KernelRecycle(u) \/ \E m \in Messages : KernelSend(u, m)
      PROVE  Session!Next
  BY <1>1, <1>5, SimUsers
<1>6. CASE submit_and_wait \/ end_batch \/ KernelUnmount \/ UNCHANGED vars
  BY <1>1, <1>6, SimLoop
<1>. QED
  BY <1>2, <1>3, <1>4, <1>5, <1>6 DEF Next, Returned

\* A coroutine that ends without an error has had its request's reply accepted, unless
\* the kernel stopped waiting for it.
THEOREM ReplyInvariance == Spec => []RInv
<1>. QED
  BY RInit, RNext, PTL DEF Spec

\* Whatever the messages, the faults and the number of slots, a worker takes each
\* request once and lets it go only when the kernel has its reply, does not wait for it,
\* or the worker is about to stop.
THEOREM Refinement == Spec => RefinesSession
<1>1. Init => Session!Init
  BY SimInit
<1>2. RInv /\ [Next]_vars => [Session!Next]_Session!vars
  BY SimNext
<1>. QED
  BY <1>1, <1>2, ReplyInvariance, PTL DEF Spec, RefinesSession, Session!Spec

-----------------------------------------------------------------------------
(* What the session promises holds of FuseRequest.                         *)

Promise == INSTANCE FuseSessionProofs
             WITH Slots <- Ios, queue <- pending, running <- phase # "exit",
                  failed <- last_rc # 0

\* The session FuseRequest implements is the one that keeps its promise.
LEMMA SameSession ==
  /\ Session!SessionInv <=> Promise!SessionInv
  /\ [Session!Next]_Session!vars <=> [Promise!Next]_Promise!vars
  /\ Session!Init <=> Promise!Init
<1>1. Session!SessionInv <=> Promise!SessionInv
  BY DEF Session!SessionInv, Session!TypeOK, Session!QueuedOnce, Session!OneHolder,
     Session!NothingLost, Session!States, Promise!SessionInv, Promise!TypeOK,
     Promise!QueuedOnce, Promise!OneHolder, Promise!NothingLost, Promise!States
<1>2. [Session!Next]_Session!vars <=> [Promise!Next]_Promise!vars
  BY DEF Session!Next, Session!vars, Session!Send, Session!Recycle, Session!Renewed,
     Session!Take, Session!Answer, Session!Release, Session!Over, Session!Fail, Session!Stop,
     Session!Unmount, Session!Stopped, Promise!Next, Promise!vars, Promise!Send,
     Promise!Recycle, Promise!Renewed, Promise!Take, Promise!Answer, Promise!Release,
     Promise!Over, Promise!Fail, Promise!Stop, Promise!Unmount, Promise!Stopped
<1>3. Session!Init <=> Promise!Init
  BY DEF Session!Init, Promise!Init
<1>. QED
  BY <1>1, <1>2, <1>3

\* A worker's promise is kept by every step of its pipeline.
LEMMA PromiseNext == RInv /\ Promise!SessionInv /\ [Next]_vars => Promise!SessionInv'
<1>. SUFFICES ASSUME RInv, Promise!SessionInv, [Next]_vars PROVE Promise!SessionInv'
  OBVIOUS
<1>1. [Promise!Next]_Promise!vars
  BY SimNext, SameSession
<1>2. NoReq \notin Reqs
  BY ConstAssumption
<1>. QED
  BY <1>1, <1>2, Promise!NextSession

\* A request the kernel waits for is in a slot's hands.
LEMMA HeldWhileWaited ==
  ASSUME RInv, Promise!SessionInv, last_rc = 0, NEW u \in Reqs \ excused,
         kstate[u] = "processing"
  PROVE  \E io \in Ios : Holds(io, u)
<1>1. PICK io \in Ios : work[io] = u
  BY DEF Promise!SessionInv, Promise!NothingLost
<1>2. work[io] # NoReq /\ TypeOK
  BY <1>1, ConstAssumption DEF RInv, IInv
<1>. QED
  BY <1>1, <1>2, WorkHeld

\* Every step of FuseRequest keeps what FuseSession promises.
LEMMA PromiseKept == Spec => []Promise!SessionInv
<1>1. Init => Promise!SessionInv
  BY SimInit, SameSession, Promise!InitSession
<1>2. RInv /\ Promise!SessionInv /\ [Next]_vars => Promise!SessionInv'
  BY PromiseNext
<1>. QED
  BY <1>1, <1>2, ReplyInvariance, PTL DEF Spec

\* A request that the kernel waits for is in the hands of a slot unless a task has failed,
\* whatever goes wrong in the chains; but a READ of another node may be let go.
THEOREM NoneLost ==
  Spec => [](last_rc = 0 => \A u \in Reqs \ excused :
               kstate[u] = "processing" => \E io \in Ios : Holds(io, u))
<1>1. RInv /\ Promise!SessionInv =>
        (last_rc = 0 => \A u \in Reqs \ excused :
           kstate[u] = "processing" => \E io \in Ios : Holds(io, u))
  BY HeldWhileWaited
<1>. QED
  BY <1>1, ReplyInvariance, PromiseKept, PTL

\* Where the kernel reads of no other node than the file's, the only one that LOOKUP names,
\* no request is ever orphaned.
THEOREM NoOrphans ==
  ASSUME \A m \in Messages : m.op = "READ" => m.node = 3
  PROVE  Spec => []NoOrphanRequest
<1>1. RInv /\ Promise!SessionInv => NoOrphanRequest
  <2>. SUFFICES ASSUME RInv, Promise!SessionInv PROVE NoOrphanRequest
    OBVIOUS
  <2>1. excused = {}
    BY DEF excused, RInv, IInv, TypeOK
  <2>. QED
    BY <2>1, HeldWhileWaited DEF NoOrphanRequest
<1>. QED
  BY <1>1, ReplyInvariance, PromiseKept, PTL

-----------------------------------------------------------------------------
(* What a reply claims.                                                   *)

Answering(io) == pc[io] \in {"reply", "read", "write"}
Asked(io)     == msg[reply[io].req]

\* A coroutine has a reply only while it sends one; send_reply reports a READ as failed,
\* and a WRITE as done only behind what is left of its payload.
AnswerInv(io) ==
  /\ ~Answering(io) => reply[io] = NoReply
  /\ pc[io] = "reply" /\ Asked(io).op = "READ" => reply[io].err
  /\ pc[io] = "reply" /\ Asked(io).op = "WRITE" /\ ~reply[io].err =>
       /\ Len(sqes[io]) = 2 => Len(pipe[io]) > 0
       /\ Len(sqes[io]) = 1 => Len(pipe[io]) > reply[io].len
  /\ pc[io] = "write" /\ sqes[io] = <<>> /\ res[io][1] \in Nat
       /\ res[io][1] < Asked(io).size => Len(pipe[io]) > 0

AInv == IInv /\ \A io \in Ios : AnswerInv(io)

-----------------------------------------------------------------------------
(* The coroutines.                                                         *)

\* A slot that a step leaves alone keeps AnswerInv.
LEMMA AnswerStable ==
  ASSUME IInv, [Next]_vars, NEW j \in Ios, AnswerInv(j),
         UNCHANGED <<pc[j], sqes[j], res[j], reply[j], pipe[j]>>
  PROVE  AnswerInv(j)'
<1>1. CASE ~Answering(j)
  BY <1>1 DEF AnswerInv, Answering
<1>2. CASE Answering(j)
  <2>1. reply[j].req \in Reqs /\ Holds(j, reply[j].req)
    BY <1>2, ReplyHolds DEF Answering
  <2>2. Asked(j)' = Asked(j)
    BY <2>1, HeldKept DEF Asked
  <2>. QED
    BY <1>2, <2>2 DEF AnswerInv, Answering
<1>. QED
  BY <1>1, <1>2

\* A coroutine that returns has no reply.
LEMMA ReturnAnswer ==
  ASSUME TypeOK, NEW io \in Ios, NEW rc, Return(io, rc)
  PROVE  AnswerInv(io)'
<1>1. pc'[io] = "pool" /\ reply'[io] = NoReply
  BY DEF TypeOK, Return
<1>. QED
  BY <1>1 DEF AnswerInv, Answering

\* One that reads on has none yet.
LEMMA QuietAnswer ==
  ASSUME TypeOK, NEW io \in Ios, NEW chain, reply'[io] = NoReply,
         NEW l \in {"fuse_read", "fuse_header", "rbytes"}, Await(io, l, chain)
  PROVE  AnswerInv(io)'
<1>1. pc'[io] = l
  BY DEF TypeOK, Await
<1>. QED
  BY <1>1 DEF AnswerInv, Answering

\* send_reply
LEMMA SendAnswer ==
  ASSUME TypeOK, NEW io \in Ios, NEW u \in Reqs, NEW err, NEW len, UNCHANGED <<msg, pipe>>,
         send_reply(io, u, err, len),
         msg[u].op = "READ" => err,
         msg[u].op = "WRITE" => err \/ Len(pipe[io]) > 0
  PROVE  AnswerInv(io)'
<1>1. /\ pc'[io] = "reply" /\ sqes'[io] = ReplyChain(len)
      /\ reply'[io] = [req |-> u, err |-> err, len |-> len]
  BY DEF send_reply, Await, TypeOK
<1>2. Len(sqes'[io]) = 2
  BY <1>1 DEF ReplyChain
<1>3. Asked(io)' = msg[u]
  BY <1>1 DEF Asked
<1>4. Len(sqes'[io]) # 1
  BY <1>2
<1>5. reply'[io].err = err /\ pc'[io] # "write" /\ Answering(io)'
  BY <1>1 DEF Answering
<1>. QED
  BY <1>3, <1>4, <1>5 DEF AnswerInv

\* The chain of handle_read or of handle_write has no results yet.
LEMMA ChainAnswer ==
  ASSUME TypeOK, NEW io \in Ios, NEW l \in {"read", "write"}, NEW chain,
         Await(io, l, chain), chain # <<>>
  PROVE  AnswerInv(io)'
<1>1. pc'[io] = l /\ sqes'[io] # <<>>
  BY DEF TypeOK, Await
<1>. QED
  BY <1>1 DEF AnswerInv, Answering

\* No handler reports a READ or a WRITE as done before its chain.
LEMMA HandleAnswer ==
  ASSUME TypeOK, NEW io \in Ios, NEW u \in Reqs, Handle(io, u), UNCHANGED <<msg, pipe>>
  PROVE  AnswerInv(io)'
<1>1. CASE handle_simple(io, u)
  BY <1>1, SendAnswer DEF handle_simple, send_scratch
<1>2. CASE handle_read_noent(io, u)
  BY <1>2, SendAnswer DEF handle_read_noent, send_scratch
<1>3. CASE handle_read(io, u)
  <2>1. PICK size, len : Await(io, "read", ReadChain(size, len))
    BY <1>3 DEF handle_read
  <2>. QED
    BY <2>1, ChainsRemain, ChainAnswer
<1>4. CASE handle_write_refused(io, u)
  BY <1>4, SendAnswer DEF handle_write_refused, send_scratch
<1>5. CASE handle_write(io, u)
  <2>1. PICK size, len : Await(io, "write", WriteChain(size, len))
    BY <1>5 DEF handle_write
  <2>. QED
    BY <2>1, ChainsRemain, ChainAnswer
<1>. QED
  BY <1>1, <1>2, <1>3, <1>4, <1>5 DEF Handle

\* From a complete header on.
LEMMA DispatchAnswer ==
  ASSUME TypeOK, NEW io \in Ios, NEW n, fheader(io) \in Reqs, Dispatch(io, n),
         UNCHANGED <<msg, pipe>>, reply[io] = NoReply
  PROVE  AnswerInv(io)'
<1>. DEFINE u    == fheader(io)
            need == BodySize(msg[u], n)
<1>1. CASE Return(io, -1)
  BY <1>1, ReturnAnswer
<1>2. CASE read_rbytes(io, u, need)
  <2>1. CASE Handle(io, u)
    BY <2>1, HandleAnswer
  <2>2. CASE UNCHANGED reply /\ \E chain : Await(io, "rbytes", chain)
    BY <2>2, QuietAnswer
  <2>. QED
    BY <1>2, <2>1, <2>2 DEF read_rbytes
<1>. QED
  BY <1>1, <1>2 DEF Dispatch

\* A step of a coroutine.
LEMMA ResumeAnswer ==
  ASSUME IInv, NEW io \in Ios, AnswerInv(io), Resume(io)
  PROVE  AnswerInv(io)'
<1>1. TypeOK /\ InHeader \in Nat \ {0} /\ SlotInv(io)
  BY ConstAssumption DEF IInv
<1>2. UNCHANGED <<msg, pipe>>
  BY DEF Resume, ResumeFuseRead, ResumeFuseHeader, ResumeRbytes, ResumeReply, ResumeRead,
     ResumeWrite, Resumed, kernelVars
<1>3. init_read(io) >= InHeader => fheader(io) \in Reqs
  BY <1>1, HeaderReq DEF IInv, init_read
<1>4. pc[io] \in {"fuse_read", "fuse_header", "rbytes"} => reply[io] = NoReply
  BY DEF AnswerInv, Answering
<1>5. CASE ResumeFuseRead(io)
  <2>1. reply[io] = NoReply
    BY <1>4, <1>5 DEF ResumeFuseRead, Resumed
  <2>2. CASE Return(io, -1)
    BY <1>1, <2>2, ReturnAnswer
  <2>3. CASE UNCHANGED reply /\ \E chain : Await(io, "fuse_header", chain)
    BY <1>1, <2>1, <2>3, QuietAnswer
  <2>4. CASE init_read(io) >= InHeader /\ Dispatch(io, res[io][1])
    BY <1>1, <1>2, <1>3, <2>1, <2>4, DispatchAnswer
  <2>. QED
    BY <1>5, <2>2, <2>3, <2>4 DEF ResumeFuseRead
<1>6. CASE ResumeFuseHeader(io)
  <2>1. reply[io] = NoReply
    BY <1>4, <1>6 DEF ResumeFuseHeader, Resumed
  <2>2. CASE Return(io, -1)
    BY <1>1, <2>2, ReturnAnswer
  <2>3. CASE UNCHANGED reply /\ \E chain : Await(io, "fuse_header", chain)
    BY <1>1, <2>1, <2>3, QuietAnswer
  <2>4. CASE init_read(io) >= InHeader /\ Dispatch(io, rbytes[io])
    BY <1>1, <1>2, <1>3, <2>1, <2>4, DispatchAnswer
  <2>. QED
    BY <1>6, <2>2, <2>3, <2>4 DEF ResumeFuseHeader, localVars
<1>7. CASE ResumeRbytes(io)
  <2>1. reply[io] = NoReply
    BY <1>4, <1>7 DEF ResumeRbytes, Resumed
  <2>2. CASE Return(io, -1)
    BY <1>1, <2>2, ReturnAnswer
  <2>3. CASE UNCHANGED reply /\ \E chain : Await(io, "rbytes", chain)
    BY <1>1, <2>1, <2>3, QuietAnswer
  <2>4. CASE Handle(io, fheader(io))
    <3>1. pc[io] = "rbytes"
      BY <1>7 DEF ResumeRbytes, Resumed
    <3>2. fheader(io) \in Reqs
      BY <1>1, <1>3, <3>1 DEF SlotInv, InRbytes, HeaderOf
    <3>. QED
      BY <1>1, <1>2, <2>4, <3>2, HandleAnswer
  <2>. QED
    BY <1>7, <2>2, <2>3, <2>4 DEF ResumeRbytes
<1>8. CASE ResumeReply(io) \/ ResumeRead(io)
  <2>1. PICK rc : Return(io, rc)
    BY <1>8 DEF ResumeReply, ResumeRead
  <2>. QED
    BY <1>1, <2>1, ReturnAnswer
<1>9. CASE ResumeWrite(io)
  <2>. DEFINE u == reply[io].req
  <2>1. pc[io] = "write" /\ sqes[io] = <<>>
    BY <1>9 DEF ResumeWrite, Resumed, Completed
  <2>2. u \in Reqs /\ msg[u].op = "WRITE"
    BY <1>1, <2>1 DEF SlotInv, InWrite
  <2>3. CASE send_reply(io, u, TRUE, OutHeader)
    BY <1>1, <1>2, <2>3, <2>2, SendAnswer
  <2>4. CASE /\ 0 <= res[io][1] /\ res[io][1] < msg[u].size
             /\ send_reply(io, u, FALSE, reply[io].len)
    <3>1. res[io][1] \in Nat
      <4>1. res[io] \in Seq(Results) /\ Len(res[io]) = 3
        BY <1>1, <2>1, <2>2 DEF SlotInv, InWrite, WriteChain, TypeOK, Sqe
      <4>2. res[io][1] \in Results
        BY <4>1
      <4>. QED
        BY <2>4, <4>2 DEF Results, Err
    <3>2. Len(pipe[io]) > 0
      BY <2>1, <2>4, <3>1 DEF AnswerInv, Asked
    <3>. QED
      BY <1>1, <1>2, <2>2, <2>4, <3>2, SendAnswer
  <2>5. ASSUME NEW rc, Return(io, rc) PROVE AnswerInv(io)'
    BY <1>1, <2>5, ReturnAnswer
  <2>. QED
    BY <1>9, <2>3, <2>4, <2>5 DEF ResumeWrite, send_scratch
<1>. QED
  BY <1>5, <1>6, <1>7, <1>8, <1>9 DEF Resume

-----------------------------------------------------------------------------
(* The steps of a chain.                                                   *)

\* write_pipe puts the reply behind what is in the pipe.
LEMMA WritePipeAnswer ==
  ASSUME IInv, NEW io \in Ios, AnswerInv(io), WritePipe(io)
  PROVE  AnswerInv(io)'
<1>. DEFINE len == reply[io].len
<1>1. /\ sqes[io] # <<>> /\ sqes[io][1].op = "write_pipe" /\ TypeOK
      /\ UNCHANGED <<msg, pc, reply>> /\ Post(io, sqes[io][1].len)
      /\ pipe' = [pipe EXCEPT ![io] = @ \o ReplyCells(reply[io], sqes[io][1].len)]
  BY DEF WritePipe, Heads, IInv, localVars
<1>2. sqes[io][1] \in SqeSet
  <2>1. sqes[io] \in Seq(SqeSet)
    BY <1>1 DEF TypeOK
  <2>. QED
    BY <1>1, <2>1, ElementOfSeq, LenZero
<1>3. sqes[io][1].len \in Results /\ sqes'[io] = Tail(sqes[io])
  <2>1. sqes[io][1].len \in Results
    BY <1>2 DEF SqeSet, Results
  <2>. QED
    BY <1>1, <2>1, PostFacts
<1>4. PICK u \in Reqs :
        \/ pc[io] = "reply" /\ InReply(io, u) /\ sqes[io] = ReplyChain(len)
        \/ pc[io] = "read"
        \/ pc[io] = "write" /\ sqes[io] = Tail(WriteChain(msg[u].size, len))
  BY <1>1, HeadStage
<1>5. CASE pc[io] = "reply"
  <2>1. sqes[io] = ReplyChain(len) /\ reply[io].req = u
    BY <1>4, <1>5 DEF InReply
  <2>2. sqes[io][1].len = len /\ Len(sqes[io]) = 2 /\ len \in Nat
    BY <1>2, <2>1 DEF ReplyChain, Sqe, SqeSet
  <2>3. Len(sqes'[io]) = 1
    BY <1>3, <2>1 DEF ReplyChain
  <2>4. Len(pipe'[io]) = Len(pipe[io]) + len
    <3>1. /\ reply[io].req \in Reqs
          /\ pipe' = [pipe EXCEPT ![io] = @ \o ReplyCells(reply[io], len)]
      BY <1>1, <2>1, <2>2
    <3>. QED
      BY <1>1, <2>2, <3>1, AppendReply
  <2>5. Len(pipe[io]) \in Nat
    BY <1>1 DEF TypeOK
  <2>6. UNCHANGED <<msg, pc[io], reply[io]>> /\ Asked(io)' = Asked(io)
    BY <1>1 DEF Asked
  <2>. HIDE DEF len
  <2>7. Len(pipe[io]) > 0 => Len(pipe'[io]) > len
    BY <2>2, <2>4, <2>5
  <2>8. Len(sqes'[io]) # 2
    BY <2>3
  <2>. QED
    BY <1>5, <2>2, <2>6, <2>7, <2>8 DEF AnswerInv, Answering, len
<1>6. CASE pc[io] = "read"
  BY <1>1, <1>6 DEF AnswerInv, Answering
<1>7. CASE pc[io] = "write"
  <2>. DEFINE size == msg[u].size
  <2>1. sqes'[io] = Tail(Tail(WriteChain(size, len)))
    BY <1>3, <1>4, <1>7
  <2>. HIDE DEF size, len
  <2>2. sqes'[io] # <<>>
    BY <2>1 DEF WriteChain
  <2>. QED
    BY <1>1, <1>7, <2>2 DEF AnswerInv, Answering
<1>. QED
  BY <1>4, <1>5, <1>6, <1>7

\* A short splice to the backing file leaves something of the payload in the pipe.
LEMMA SpliceToBackingAnswer ==
  ASSUME IInv, NEW io \in Ios, AnswerInv(io), SpliceToBacking(io)
  PROVE  AnswerInv(io)'
<1>. DEFINE size  == Asked(io).size
            chain == WriteChain(size, reply[io].len)
<1>1. /\ sqes[io] # <<>> /\ sqes[io][1].op = "splice_to_backing" /\ TypeOK
      /\ UNCHANGED <<msg, pc, reply>>
  BY DEF SpliceToBacking, Heads, IInv, localVars
<1>2. PICK u \in Reqs : /\ pc[io] = "write" /\ InWrite(io, u)
                        /\ sqes[io] = WriteChain(msg[u].size, reply[io].len)
  BY <1>1, HeadStage
<1>3. reply[io].req = u /\ size = msg[u].size /\ size \in Nat
  BY <1>1, <1>2, MessageFacts DEF InWrite, Asked
<1>4. Len(sqes[io]) = 3 /\ sqes[io][1].len = size /\ sqes[io][1].link = "link"
  <2>. HIDE DEF size
  <2>. QED
    BY <1>2, <1>3 DEF WriteChain, Sqe
<1>5. Len(pipe[io]) = size /\ res[io] = <<>>
  <2>. DEFINE a == msg[u].size
              b == reply[io].len
  <2>1. sqes[io] # Tail(WriteChain(a, b)) /\ sqes[io] # Tail(Tail(WriteChain(a, b)))
    <3>. HIDE DEF a, b
    <3>1. Len(WriteChain(a, b)) # Len(Tail(WriteChain(a, b)))
      BY DEF WriteChain
    <3>2. Len(WriteChain(a, b)) # Len(Tail(Tail(WriteChain(a, b))))
      BY DEF WriteChain
    <3>. QED
      BY <1>2, <3>1, <3>2 DEF a, b
  <2>. QED
    BY <1>1, <1>2, <1>3, <2>1 DEF InWrite
<1>6. PICK rc \in Results :
        /\ Post(io, rc)
        /\ \/ rc = Err
           \/ rc \in 0..size /\ pipe' = [pipe EXCEPT ![io] = Drop(@, rc)]
  <2>1. Least(sqes[io][1].len, Len(pipe[io])) = size
    BY <1>3, <1>4, <1>5 DEF Least
  <2>2. \A k \in 0..size : k \in Results
    BY <1>3 DEF Results
  <2>3. Err \in Results
    BY DEF Results
  <2>. HIDE DEF size
  <2>. QED
    BY <2>1, <2>2, <2>3 DEF SpliceToBacking
<1>7. CASE rc = size
  <2>1. sqes'[io] = Tail(sqes[io])
    BY <1>1, <1>4, <1>6, <1>7, PostFacts
  <2>2. sqes'[io] # <<>>
    <3>. DEFINE a == msg[u].size
                b == reply[io].len
    <3>1. sqes'[io] = Tail(WriteChain(a, b))
      BY <1>2, <2>1
    <3>. HIDE DEF a, b
    <3>. QED
      BY <3>1 DEF WriteChain
  <2>. QED
    BY <1>1, <1>2, <2>2 DEF AnswerInv, Answering
<1>8. CASE rc # size
  <2>1. res'[io][1] = rc
    <3>1. res'[io][Len(res[io]) + 1] = rc
      BY <1>1, <1>4, <1>6, <1>8, PostFacts
    <3>. QED
      BY <1>5, <3>1
  <2>2. CASE rc = Err
    BY <1>1, <1>2, <2>1, <2>2 DEF AnswerInv, Answering, Err
  <2>3. CASE rc \in 0..size /\ pipe' = [pipe EXCEPT ![io] = Drop(@, rc)]
    <3>1. pipe[io] \in Seq(Cell) /\ rc \in 0..Len(pipe[io])
      BY <1>1, <1>5, <2>3 DEF TypeOK
    <3>2. Len(pipe'[io]) = Len(pipe[io]) - rc
      BY <1>1, <2>3, <3>1, DropFacts DEF TypeOK
    <3>3. Len(pipe'[io]) > 0
      <4>. HIDE DEF size
      <4>. QED
        BY <1>3, <1>5, <1>8, <2>3, <3>2
    <3>. QED
      BY <1>1, <1>2, <3>3 DEF AnswerInv, Answering
  <2>. QED
    BY <1>6, <2>2, <2>3
<1>. QED
  BY <1>7, <1>8

\* The reply of a WRITE is spliced to the device only when all its payload has gone.
LEMMA SpliceToFuseAnswer ==
  ASSUME IInv, NEW io \in Ios, AnswerInv(io), SpliceToFuse(io)
  PROVE  AnswerInv(io)'
<1>. DEFINE len == reply[io].len
<1>1. /\ sqes[io] # <<>> /\ sqes[io][1].op = "splice_to_fuse" /\ TypeOK
      /\ UNCHANGED <<msg, pc, reply>>
  BY DEF SpliceToFuse, Heads, IInv, localVars
<1>2. PICK u \in Reqs :
        \/ /\ pc[io] = "reply" /\ InReply(io, u)
           /\ sqes[io] = Tail(ReplyChain(len))
        \/ pc[io] = "read"
        \/ /\ pc[io] = "write" /\ InWrite(io, u)
           /\ sqes[io] = Tail(Tail(WriteChain(msg[u].size, len)))
  BY <1>1, HeadStage
<1>. DEFINE size == msg[u].size
<1>3. (sqes[io][1].link = "none" /\ Tail(sqes[io]) = <<>>) \/ pc[io] = "read"
  <2>. HIDE DEF size, len
  <2>1. CASE sqes[io] = Tail(ReplyChain(len))
    BY <2>1 DEF ReplyChain, Sqe
  <2>2. CASE sqes[io] = Tail(Tail(WriteChain(size, len)))
    BY <2>2 DEF WriteChain, Sqe
  <2>. QED
    BY <1>2, <2>1, <2>2 DEF size, len
<1>4. PICK rc \in Results : Post(io, rc)
  <2>1. sqes[io][1].len \in Nat
    <3>1. sqes[io] \in Seq(SqeSet)
      BY <1>1 DEF TypeOK
    <3>2. sqes[io][1] \in SqeSet
      BY <1>1, <3>1, ElementOfSeq, LenZero
    <3>. QED
      BY <3>2 DEF SqeSet
  <2>. QED
    BY <2>1 DEF SpliceToFuse, Results
<1>5. CASE pc[io] = "reply"
  <2>1. sqes'[io] = <<>>
    BY <1>1, <1>3, <1>4, <1>5, PostFacts
  <2>2. Len(sqes'[io]) = 0
    BY <2>1
  <2>. QED
    BY <1>1, <1>5, <2>2 DEF AnswerInv, Answering, Asked
<1>6. CASE pc[io] = "read"
  BY <1>1, <1>6 DEF AnswerInv, Answering
<1>7. CASE pc[io] = "write"
  <2>1. res[io] = <<size, len>> /\ reply[io].req = u
    <3>1. InWrite(io, u) /\ sqes[io] = Tail(Tail(WriteChain(size, len)))
      BY <1>2, <1>7
    <3>2. /\ sqes[io] # WriteChain(size, len) /\ sqes[io] # Tail(WriteChain(size, len))
          /\ sqes[io] # <<>>
      <4>. HIDE DEF size, len
      <4>1. Len(Tail(Tail(WriteChain(size, len)))) # Len(WriteChain(size, len))
        BY DEF WriteChain
      <4>2. Len(Tail(Tail(WriteChain(size, len)))) # Len(Tail(WriteChain(size, len)))
        BY DEF WriteChain
      <4>. QED
        BY <1>1, <3>1, <4>1, <4>2
    <3>. QED
      BY <3>1, <3>2 DEF InWrite
  <2>2. res'[io] = res[io] \o <<rc>>
    BY <1>1, <1>3, <1>4, <1>7, PostFacts
  <2>3. size \in Nat /\ len \in Nat
    BY <1>1, MessageFacts DEF TypeOK, Reply
  <2>. HIDE DEF len, size
  <2>4. res'[io][1] = size
    BY <2>1, <2>2, <2>3
  <2>5. Asked(io)'.size = size
    BY <1>1, <2>1 DEF Asked, size
  <2>. QED
    BY <1>1, <1>7, <2>3, <2>4, <2>5 DEF AnswerInv, Answering
<1>. QED
  BY <1>2, <1>5, <1>6, <1>7

\* A step of the kernel on a slot's chain.
LEMMA ExecuteAnswer ==
  ASSUME IInv, NEW io \in Ios, AnswerInv(io), Execute(io)
  PROVE  AnswerInv(io)'
<1>1. CASE SpliceFromFuse(io) \/ ReadPipe(io)
  <2>1. UNCHANGED <<pc, reply>> /\ pc[io] \in {"fuse_read", "fuse_header", "rbytes"}
    BY <1>1, HeadStage DEF SpliceFromFuse, ReadPipe, Heads, localVars
  <2>. QED
    BY <2>1 DEF AnswerInv, Answering
<1>2. CASE SpliceFromBacking(io)
  <2>1. UNCHANGED <<pc, reply>> /\ pc[io] = "read"
    BY <1>2, HeadStage DEF SpliceFromBacking, Heads, localVars
  <2>. QED
    BY <2>1 DEF AnswerInv, Answering
<1>. QED
  BY <1>1, <1>2, WritePipeAnswer, SpliceToBackingAnswer, SpliceToFuseAnswer DEF Execute

\* A step of the kernel on a chain leaves the other slots alone.
LEMMA ExecuteFrame ==
  ASSUME TypeOK, NEW io \in Ios, Execute(io), NEW j \in Ios, j # io
  PROVE  UNCHANGED <<pc[j], sqes[j], res[j], reply[j], pipe[j], header_buf[j], body_at[j]>>
<1>1. UNCHANGED <<pc, reply, body_at>> /\ \E rc : Post(io, rc)
  BY DEF Execute, SpliceFromFuse, ReadPipe, WritePipe, SpliceFromBacking,
     SpliceToBacking, SpliceToFuse, Heads, localVars
<1>2. sqes'[j] = sqes[j] /\ res'[j] = res[j]
  BY <1>1 DEF Post, TypeOK
<1>3. pipe'[j] = pipe[j]
  BY DEF Execute, SpliceFromFuse, ReadPipe, WritePipe, SpliceFromBacking,
     SpliceToBacking, SpliceToFuse, TypeOK
<1>4. header_buf'[j] = header_buf[j]
  BY DEF Execute, SpliceFromFuse, ReadPipe, WritePipe, SpliceFromBacking,
     SpliceToBacking, SpliceToFuse, TypeOK
<1>. QED
  BY <1>1, <1>2, <1>3, <1>4

-----------------------------------------------------------------------------
(* The invariant.                                                          *)

\* No slot has a reply when the worker starts.
LEMMA AInit == Init => AInv
<1>. SUFFICES ASSUME Init PROVE AInv
  OBVIOUS
<1>1. IInv
  BY InitInv
<1>2. \A io \in Ios : pc[io] = "pool" /\ reply[io] = NoReply
  BY DEF Init
<1>. QED
  BY <1>1, <1>2 DEF AInv, AnswerInv, Answering

\* Every step keeps AInv.
LEMMA ANext == AInv /\ [Next]_vars => AInv'
<1>. SUFFICES ASSUME AInv, [Next]_vars, NEW j \in Ios PROVE AnswerInv(j)'
  BY NextInv DEF AInv
<1>1. IInv /\ TypeOK /\ AnswerInv(j)
  BY DEF AInv, IInv
<1>2. ASSUME UNCHANGED <<pc[j], sqes[j], res[j], reply[j], pipe[j]>> PROVE AnswerInv(j)'
  BY <1>1, <1>2, AnswerStable
<1>3. ASSUME NEW io \in Ios, queue_fuse_read(io) PROVE AnswerInv(j)'
  <2>1. Await(io, "fuse_read", FuseReadChain) /\ UNCHANGED <<reply, pipe>> /\ pc[io] = "pool"
    BY <1>3 DEF queue_fuse_read, localVars
  <2>2. CASE j = io
    <3>1. reply'[io] = NoReply
      BY <1>1, <2>1, <2>2 DEF AnswerInv, Answering
    <3>. QED
      BY <1>1, <2>1, <2>2, <3>1, QuietAnswer
  <2>3. CASE j # io
    BY <1>1, <1>2, <2>1, <2>3 DEF Await, TypeOK
  <2>. QED
    BY <2>2, <2>3
<1>4. ASSUME NEW io \in Ios, Resume(io) PROVE AnswerInv(j)'
  <2>1. CASE j = io
    BY <1>1, <1>4, <2>1, ResumeAnswer
  <2>2. CASE j # io
    <3>1. UNCHANGED <<pc[j], sqes[j], res[j], reply[j]>>
      BY <1>1, <1>4, <2>2, ResumeFrame
    <3>2. UNCHANGED pipe
      BY <1>4 DEF Resume, ResumeFuseRead, ResumeFuseHeader, ResumeRbytes, ResumeReply,
         ResumeRead, ResumeWrite, Resumed
    <3>. QED
      BY <1>2, <3>1, <3>2
  <2>. QED
    BY <2>1, <2>2
<1>5. ASSUME NEW io \in Ios, Execute(io) PROVE AnswerInv(j)'
  <2>1. CASE j = io
    BY <1>1, <1>5, <2>1, ExecuteAnswer
  <2>2. CASE j # io
    BY <1>1, <1>2, <1>5, <2>2, ExecuteFrame
  <2>. QED
    BY <2>1, <2>2
<1>6. CASE \/ submit_and_wait \/ end_batch \/ UNCHANGED vars \/ KernelUnmount
           \/ \E u \in Reqs : KernelRecycle(u) \/ \E m \in Messages : KernelSend(u, m)
  BY <1>2, <1>6 DEF submit_and_wait, end_batch, vars, slotVars, localVars, KernelUnmount,
     KernelRecycle, KernelSend, Idle
<1>. QED
  BY <1>3, <1>4, <1>5, <1>6 DEF Next, Returned

\* A coroutine has a reply only while it sends it, and one that reports a short WRITE as
\* done lies behind the rest of its payload, where the kernel refuses it.
THEOREM AnswerInvariance == Spec => []AInv
BY AInit, ANext, PTL DEF Spec

-----------------------------------------------------------------------------
(* What has been done when a reply reports success.                        *)

\* The slot that has the reply to u is the one that sends it.
LEMMA OneAnswerer ==
  ASSUME AInv, NEW u \in Reqs, NEW i \in Ios, reply[i].req = u,
         NEW j \in Ios, reply[j].req = u
  PROVE  i = j
<1>1. ASSUME NEW k \in Ios, reply[k].req = u PROVE Holds(k, u)
  <2>1. Answering(k)
    BY <1>1, ConstAssumption DEF AInv, AnswerInv, NoReply
  <2>. QED
    BY <1>1, <2>1, ReplyHolds DEF AInv, Answering
<1>. QED
  BY <1>1 DEF AInv, IInv, OneSlotPerRequest

\* A slot whose reply, without an error, is accepted has done what it reports.
LEMMA WholeAnswer ==
  ASSUME AInv, NEW u \in Reqs, NEW io \in Ios, SpliceToFuse(io),
         sqes[io][1].len \in 1..Len(pipe[io]),
         Accepts(Take(pipe[io], sqes[io][1].len), u),
         reply[io].req = u, ~reply[io].err, Len(sqes[io]) = 1
  PROVE  /\ msg[u].op = "READ"  => /\ reply[io].len = OutHeader + ReadSize(msg[u])
                                   /\ Len(pipe[io]) = reply[io].len
         /\ msg[u].op = "WRITE" => pc[io] = "write" /\ res[io][1] = msg[u].size
<1>. DEFINE len == reply[io].len
            n   == sqes[io][1].len
<1>1. /\ sqes[io] # <<>> /\ sqes[io][1].op = "splice_to_fuse" /\ IInv /\ TypeOK
      /\ AnswerInv(io)
  BY DEF SpliceToFuse, Heads, AInv, IInv
<1>2. PICK w \in Reqs :
        \/ /\ pc[io] = "reply" /\ InReply(io, w)
           /\ sqes[io] = Tail(ReplyChain(len))
        \/ /\ pc[io] = "read" /\ InRead(io, w)
           /\ sqes[io] = Tail(Tail(ReadChain(ReadSize(msg[w]), len)))
        \/ /\ pc[io] = "write" /\ InWrite(io, w)
           /\ sqes[io] = Tail(Tail(WriteChain(msg[w].size, len)))
  BY <1>1, HeadStage
<1>3. w = u /\ Asked(io) = msg[u]
  BY <1>2 DEF InReply, InRead, InWrite, Asked
<1>4. len \in Nat /\ msg[u].size \in Nat /\ pipe[io] \in Seq(Cell)
  BY <1>1, MessageFacts DEF TypeOK, Reply
<1>5. CASE pc[io] = "reply"
  <2>1. msg[u].op # "READ"
    BY <1>1, <1>3, <1>5 DEF AnswerInv
  <2>2. ASSUME msg[u].op = "WRITE" PROVE FALSE
    <3>1. Len(pipe[io]) > len
      BY <1>1, <1>3, <1>5, <2>2 DEF AnswerInv
    <3>2. InReply(io, u) /\ sqes[io] = Tail(ReplyChain(len))
      BY <1>2, <1>3, <1>5
    <3>3. sqes[io] # ReplyChain(len) /\ sqes[io] # <<>>
      <4>. HIDE DEF len
      <4>. QED
        BY <3>2 DEF ReplyChain, Sqe
    <3>4. \A i \in 1..Len(pipe[io]) :
            pipe[io][i] = IF i <= Len(pipe[io]) - len THEN [req |-> u, part |-> "body"]
                          ELSE ReplyCell(reply[io], i - (Len(pipe[io]) - len))
      BY <3>2, <3>3 DEF InReply
    <3>5. Len(pipe[io]) \in Nat /\ 1 \in 1..Len(pipe[io]) /\ 1 <= Len(pipe[io]) - len
      BY <1>4, <3>1
    <3>6. pipe[io][1] = [req |-> u, part |-> "body"]
      BY <3>4, <3>5
    <3>7. Take(pipe[io], n)[1] = pipe[io][1]
      <4>1. n \in 0..Len(pipe[io]) /\ 1 \in 1..n
        BY <3>5
      <4>. QED
        BY <1>4, <4>1, TakeFacts
    <3>8. pipe[io][1].part \in {"out_ok", "out_err"}
      BY <3>7 DEF Accepts
    <3>. QED
      BY <3>6, <3>8
  <2>. QED
    BY <2>1, <2>2
<1>6. CASE pc[io] = "read"
  <2>. DEFINE size == ReadSize(msg[u])
  <2>1. InRead(io, u) /\ sqes[io] = Tail(Tail(ReadChain(size, len)))
    BY <1>2, <1>3, <1>6
  <2>2. /\ sqes[io] # ReadChain(size, len) /\ sqes[io] # Tail(ReadChain(size, len))
        /\ sqes[io] # <<>>
    <3>. HIDE DEF size, len
    <3>1. Len(ReadChain(size, len)) = 3 /\ Len(Tail(ReadChain(size, len))) = 2
      BY DEF ReadChain
    <3>2. Len(sqes[io]) # 3 /\ Len(sqes[io]) # 2
      OBVIOUS
    <3>. QED
      BY <1>1, <3>1, <3>2, Zenon
  <2>3. len = OutHeader + size /\ Len(pipe[io]) = len /\ msg[u].op = "READ"
    BY <2>1, <2>2 DEF InRead
  <2>. QED
    BY <2>3
<1>7. CASE pc[io] = "write"
  <2>. DEFINE size == msg[u].size
  <2>1. InWrite(io, u) /\ sqes[io] = Tail(Tail(WriteChain(size, len)))
    BY <1>2, <1>3, <1>7
  <2>2. /\ sqes[io] # WriteChain(size, len) /\ sqes[io] # Tail(WriteChain(size, len))
        /\ sqes[io] # <<>>
    <3>. HIDE DEF size, len
    <3>1. Len(WriteChain(size, len)) = 3 /\ Len(Tail(WriteChain(size, len))) = 2
      BY DEF WriteChain
    <3>2. Len(sqes[io]) # 3 /\ Len(sqes[io]) # 2
      OBVIOUS
    <3>. QED
      BY <1>1, <3>1, <3>2, Zenon
  <2>3. res[io] = <<size, len>> /\ msg[u].op = "WRITE"
    BY <2>1, <2>2 DEF InWrite
  <2>. QED
    BY <1>7, <2>3
<1>. QED
  BY <1>2, <1>5, <1>6, <1>7

\* No reply reports a READ as done without all the data it promises, nor a WRITE before all
\* its payload is in the backing file, whatever step of a chain fails or comes up short.
THEOREM SuccessWhole == Spec => SuccessIsWhole
<1>. DEFINE A == \A u \in Reqs, io \in Ios :
                   Answers(u) /\ reply[io].req = u /\ ~reply[io].err =>
                     /\ msg[u].op = "READ"  => /\ reply[io].len = OutHeader + ReadSize(msg[u])
                                               /\ Len(pipe[io]) = reply[io].len
                     /\ msg[u].op = "WRITE" => pc[io] = "write" /\ res[io][1] = msg[u].size
<1>1. AInv /\ [Next]_vars => A
  <2>. SUFFICES ASSUME AInv, [Next]_vars, NEW u \in Reqs, NEW io \in Ios,
                       Answers(u), reply[io].req = u, ~reply[io].err
                PROVE  /\ msg[u].op = "READ"  => /\ reply[io].len = OutHeader + ReadSize(msg[u])
                                                 /\ Len(pipe[io]) = reply[io].len
                       /\ msg[u].op = "WRITE" => pc[io] = "write" /\ res[io][1] = msg[u].size
    OBVIOUS
  <2>1. IInv
    BY DEF AInv
  <2>2. PICK j \in Ios : /\ SpliceToFuse(j) /\ Post(j, sqes[j][1].len)
                         /\ Accepts(Take(pipe[j], sqes[j][1].len), u)
                         /\ sqes[j][1].len \in 1..Len(pipe[j])
    BY <2>1, AnswerIsAccepted
  <2>3. reply[j].req = u /\ Len(sqes[j]) = 1
    BY <2>1, <2>2, AnswererHolds
  <2>4. j = io
    BY <2>3, OneAnswerer
  <2>. QED
    BY <2>2, <2>3, <2>4, WholeAnswer
<1>2. AInv /\ [Next]_vars => [A]_vars
  BY <1>1
<1>. QED
  BY <1>2, AnswerInvariance, PTL DEF Spec, SuccessIsWhole

-----------------------------------------------------------------------------
(* Where the body of an OPEN is, if no read of a pipe comes up short.      *)

IsOpen(m) == m.op \in {"OPEN", "OPENDIR"}

\* The read of a request leaves something in the pipe only if header_buf is full; so the
\* body of an OPEN is read with the header and stays behind it.
FlagsInv(io) ==
  /\ pc[io] = "fuse_read" /\ sqes[io] = <<>> /\ res[io][2] > 0 =>
       pipe[io] = <<>> \/ init_read(io) = InHeader + WriteIn
  /\ pc[io] # "fuse_header"
  /\ pc[io] = "rbytes" => ~IsOpen(msg[fheader(io)])
  /\ pc[io] = "reply" /\ IsOpen(Asked(io)) => body_at[io] = "header"

FInv == IInv /\ \A io \in Ios : FlagsInv(io)

\* header_buf names the request whose message it holds.
LEMMA HeaderNames ==
  ASSUME TypeOK, NEW io \in Ios, NEW u \in Reqs, header_buf[io] # <<>>,
         \A i \in 1..Len(header_buf[io]) : header_buf[io][i] = ReqCell(u, i)
  PROVE  fheader(io) = u
<1>1. header_buf[io] \in Seq(Cell)
  BY DEF TypeOK
<1>2. header_buf[io][1] = ReqCell(u, 1)
  BY <1>1
<1>. QED
  BY <1>2 DEF fheader, ReqCell

\* A slot that a step leaves alone keeps FlagsInv.
LEMMA FlagsStable ==
  ASSUME IInv, [Next]_vars, NEW j \in Ios, FlagsInv(j),
         UNCHANGED <<pc[j], sqes[j], res[j], reply[j], pipe[j], header_buf[j], body_at[j]>>
  PROVE  FlagsInv(j)'
<1>1. UNCHANGED <<init_read(j), fheader(j)>>
  BY DEF init_read, fheader
<1>2. CASE pc[j] = "rbytes"
  <2>1. PICK u \in Reqs : HeaderOf(j, u) /\ Holds(j, u)
    BY <1>2, HoldsReading DEF IInv, SlotInv, InRbytes
  <2>2. fheader(j) = u
    <3>1. header_buf[j] # <<>>
      BY <2>1, ConstAssumption DEF HeaderOf, init_read
    <3>. QED
      BY <2>1, <3>1, HeaderNames DEF HeaderOf, IInv
  <2>3. msg'[u] = msg[u]
    BY <2>1, HeldKept
  <2>4. msg'[fheader(j)'] = msg[fheader(j)]
    BY <1>1, <2>2, <2>3
  <2>. QED
    BY <1>2, <2>4 DEF FlagsInv
<1>3. CASE pc[j] = "reply"
  <2>1. Asked(j)' = Asked(j)
    BY <1>3, ReplyHolds, HeldKept DEF Asked
  <2>. QED
    BY <1>3, <2>1 DEF FlagsInv
<1>. QED
  BY <1>1, <1>2, <1>3 DEF FlagsInv

\* A coroutine that returns, or that awaits the chain of a handler but a plain reply's.
LEMMA PassiveFlags ==
  ASSUME NEW io \in Ios, pc'[io] \in {"pool", "read", "write"}
  PROVE  FlagsInv(io)'
BY DEF FlagsInv

\* A handler that was called with the body of an OPEN in header_buf.
LEMMA HandleFlags ==
  ASSUME TypeOK, NEW io \in Ios, NEW u \in Reqs, Handle(io, u), UNCHANGED msg,
         IsOpen(msg[u]) => body_at'[io] = "header"
  PROVE  FlagsInv(io)'
<1>1. ASSUME NEW err, NEW len, send_reply(io, u, err, len) PROVE FlagsInv(io)'
  <2>1. pc'[io] = "reply" /\ Asked(io)' = msg[u]
    BY <1>1 DEF send_reply, Await, TypeOK, Asked
  <2>. QED
    BY <2>1 DEF FlagsInv
<1>2. CASE handle_simple(io, u) \/ handle_read_noent(io, u) \/ handle_write_refused(io, u)
  BY <1>1, <1>2 DEF handle_simple, handle_read_noent, handle_write_refused, send_scratch
<1>3. CASE handle_read(io, u) \/ handle_write(io, u)
  <2>1. pc'[io] \in {"read", "write"}
    BY <1>3 DEF handle_read, handle_write, Await, TypeOK
  <2>. QED
    BY <2>1, PassiveFlags
<1>. QED
  BY <1>2, <1>3 DEF Handle

\* A request whose read left nothing behind, or filled header_buf: the body of an OPEN,
\* if it has the size its opcode calls for, has been read with the header.
LEMMA DispatchFlags ==
  ASSUME TypeOK, NEW io \in Ios, NEW u \in Reqs, fheader(io) = u, Dispatch(io, ReqLen(u)),
         init_read(io) \in InHeader..ReqLen(u), UNCHANGED <<msg, header_buf>>,
         init_read(io) \in {ReqLen(u), InHeader + WriteIn}
  PROVE  FlagsInv(io)'
<1>. DEFINE need == BodySize(msg[u], ReqLen(u))
<1>1. CASE Return(io, -1)
  <2>1. pc'[io] = "pool"
    BY <1>1 DEF Return, TypeOK
  <2>. QED
    BY <2>1, PassiveFlags
<1>2. CASE ~IsOpen(msg[u]) /\ read_rbytes(io, u, need)
  <2>1. CASE Handle(io, u)
    BY <1>2, <2>1, HandleFlags
  <2>2. CASE \E chain : Await(io, "rbytes", chain)
    <3>1. pc'[io] = "rbytes" /\ fheader(io)' = u
      BY <2>2 DEF Await, TypeOK, fheader
    <3>2. msg'[fheader(io)'] = msg[u]
      BY <3>1
    <3>. QED
      BY <1>2, <3>1, <3>2 DEF FlagsInv
  <2>. QED
    BY <1>2, <2>1, <2>2 DEF read_rbytes
<1>3. CASE IsOpen(msg[u]) /\ read_rbytes(io, u, need)
           /\ (need = 0 \/ msg[u].op = "WRITE" \/ need = ReqLen(u) - InHeader)
  <2>1. need = 1 /\ msg[u].op \notin {"WRITE", "LOOKUP"}
    BY <1>3 DEF BodySize, IsOpen, FixedBody
  <2>2. ReqLen(u) = InHeader + 1
    BY <1>3, <2>1, MessageFacts
  <2>3. init_read(io) - InHeader = need
    BY <2>1, <2>2, ConstAssumption
  <2>4. body_at'[io] = "header" /\ Handle(io, u)
    <3>. HIDE DEF need
    <3>. QED
      BY <1>3, <2>1, <2>3 DEF read_rbytes, AddZero, TypeOK
  <2>. QED
    BY <2>4, HandleFlags
<1>. QED
  BY <1>1, <1>2, <1>3 DEF Dispatch

\* A step of a coroutine.
LEMMA ResumeFlags ==
  ASSUME IInv, NEW io \in Ios, FlagsInv(io), Resume(io)
  PROVE  FlagsInv(io)'
<1>1. TypeOK /\ SlotInv(io) /\ InHeader \in Nat \ {0} /\ WriteIn \in Nat \ {0}
  BY ConstAssumption DEF IInv
<1>2. UNCHANGED <<msg, pipe, header_buf>>
  BY DEF Resume, ResumeFuseRead, ResumeFuseHeader, ResumeRbytes, ResumeReply, ResumeRead,
     ResumeWrite, Resumed, kernelVars
<1>3. ASSUME NEW rc, Return(io, rc) PROVE FlagsInv(io)'
  <2>1. pc'[io] = "pool"
    BY <1>1, <1>3 DEF Return, TypeOK
  <2>. QED
    BY <2>1, PassiveFlags
<1>4. CASE ResumeFuseRead(io) /\ res[io][1] >= InHeader /\ res[io][2] > 0
  <2>. DEFINE n == res[io][1]
  <2>1. pc[io] = "fuse_read" /\ sqes[io] = <<>>
    BY <1>4 DEF ResumeFuseRead, Resumed, Completed
  <2>2. InFuseRead(io) /\ sqes[io] # FuseReadChain /\ sqes[io] # Tail(FuseReadChain)
    BY <1>1, <2>1, ChainsRemain DEF SlotInv
  <2>3. PICK u \in Reqs : Reading(io, u) /\ n = ReqLen(u)
    BY <1>1, <1>4, <2>2 DEF InFuseRead, Err
  <2>4. Len(header_buf[io]) \in Nat /\ Len(pipe[io]) \in Nat /\ ReqLen(u) \in Nat
    BY <1>1, MessageFacts DEF TypeOK
  <2>5. pipe[io] = <<>> \/ init_read(io) = InHeader + WriteIn
    BY <1>4, <2>1 DEF FlagsInv
  <2>6. init_read(io) \in {ReqLen(u), InHeader + WriteIn} /\ init_read(io) <= ReqLen(u)
    <3>1. Len(header_buf[io]) + Len(pipe[io]) = ReqLen(u)
      BY <2>3 DEF Reading
    <3>2. pipe[io] = <<>> => Len(pipe[io]) = 0
      OBVIOUS
    <3>3. pipe[io] = <<>> => Len(header_buf[io]) = ReqLen(u)
      BY <2>4, <3>1, <3>2
    <3>4. Len(header_buf[io]) <= ReqLen(u)
      <4>1. \A a, b, c \in Nat : a + b = c => a <= c
        OBVIOUS
      <4>. QED
        BY <2>4, <3>1, <4>1
    <3>. QED
      BY <2>5, <3>3, <3>4 DEF init_read
  <2>7. init_read(io) \in InHeader..ReqLen(u)
    BY <1>1, <1>4, <2>3, <2>4, <2>6 DEF init_read
  <2>8. Dispatch(io, ReqLen(u))
    <3>1. ~(init_read(io) < InHeader) /\ ~(n < InHeader) /\ ~(res[io][2] <= 0)
      <4>1. res[io][2] \in Results /\ n \in Results
        <5>1. res[io] \in Seq(Results) /\ Len(res[io]) = 2
          BY <1>1, <2>2 DEF InFuseRead, TypeOK
        <5>. QED
          BY <5>1
      <4>. QED
        BY <1>1, <1>4, <2>4, <2>7, <4>1 DEF Results, Err, init_read
    <3>2. Dispatch(io, n)
      BY <1>4, <3>1 DEF ResumeFuseRead
    <3>. QED
      BY <2>3, <3>2
  <2>9. fheader(io) = u
    <3>1. header_buf[io] # <<>>
      BY <1>1, <2>7 DEF init_read
    <3>. QED
      BY <1>1, <2>3, <3>1, HeaderNames DEF Reading
  <2>. QED
    BY <1>1, <1>2, <2>6, <2>7, <2>8, <2>9, DispatchFlags
<1>5. CASE ResumeFuseHeader(io)
  BY <1>5 DEF FlagsInv, ResumeFuseHeader, Resumed
<1>6. CASE ResumeRbytes(io)
  <2>1. pc[io] = "rbytes"
    BY <1>6 DEF ResumeRbytes, Resumed
  <2>2. PICK u \in Reqs : HeaderOf(io, u)
    BY <1>1, <2>1 DEF SlotInv, InRbytes
  <2>3. fheader(io) = u
    <3>1. header_buf[io] # <<>>
      BY <1>1, <2>2 DEF HeaderOf, init_read
    <3>. QED
      BY <1>1, <2>2, <3>1, HeaderNames DEF HeaderOf
  <2>4. ~IsOpen(msg[u])
    BY <2>1, <2>3 DEF FlagsInv
  <2>5. CASE Handle(io, fheader(io))
    BY <1>1, <1>2, <2>3, <2>4, <2>5, HandleFlags
  <2>6. CASE \E chain : Await(io, "rbytes", chain)
    <3>1. pc'[io] = "rbytes" /\ fheader(io)' = u
      BY <1>1, <1>2, <2>3, <2>6 DEF Await, TypeOK, fheader
    <3>2. msg'[fheader(io)'] = msg[u]
      BY <1>2, <3>1
    <3>. QED
      BY <2>4, <3>1, <3>2 DEF FlagsInv
  <2>. QED
    BY <1>3, <1>6, <2>5, <2>6 DEF ResumeRbytes
<1>7. CASE ResumeReply(io) \/ ResumeRead(io)
  BY <1>3, <1>7 DEF ResumeReply, ResumeRead
<1>8. CASE ResumeWrite(io)
  <2>. DEFINE u == reply[io].req
  <2>1. pc[io] = "write"
    BY <1>8 DEF ResumeWrite, Resumed
  <2>2. u \in Reqs /\ msg[u].op = "WRITE"
    BY <1>1, <2>1 DEF SlotInv, InWrite
  <2>3. ASSUME NEW err, NEW len, send_reply(io, u, err, len) PROVE FlagsInv(io)'
    <3>1. pc'[io] = "reply" /\ reply'[io].req = u
      BY <1>1, <2>3 DEF send_reply, Await, TypeOK
    <3>2. ~IsOpen(Asked(io)')
      BY <1>2, <2>2, <3>1 DEF Asked, IsOpen
    <3>. QED
      BY <3>1, <3>2 DEF FlagsInv
  <2>. QED
    BY <1>3, <1>8, <2>3 DEF ResumeWrite, send_scratch
<1>9. CASE ResumeFuseRead(io) /\ ~(res[io][1] >= InHeader /\ res[io][2] > 0)
  BY <1>3, <1>9 DEF ResumeFuseRead
<1>. QED
  BY <1>4, <1>5, <1>6, <1>7, <1>8, <1>9 DEF Resume

\* A step of a coroutine leaves the buffers of the other slots alone.
LEMMA ResumeBody ==
  ASSUME TypeOK, NEW io \in Ios, Resume(io), NEW j \in Ios, j # io
  PROVE  body_at'[j] = body_at[j]
<1>1. ASSUME NEW rc, Return(io, rc) PROVE body_at'[j] = body_at[j]
  BY <1>1 DEF Return, TypeOK
<1>2. ASSUME NEW n, Dispatch(io, n) PROVE body_at'[j] = body_at[j]
  <2>1. ASSUME NEW u, NEW need, read_rbytes(io, u, need) PROVE body_at'[j] = body_at[j]
    BY <2>1 DEF read_rbytes, TypeOK
  <2>. QED
    BY <1>1, <1>2, <2>1 DEF Dispatch
<1>3. CASE ResumeFuseRead(io) \/ ResumeFuseHeader(io)
  BY <1>1, <1>2, <1>3 DEF ResumeFuseRead, ResumeFuseHeader, localVars
<1>4. CASE ResumeRbytes(io) \/ ResumeReply(io) \/ ResumeRead(io) \/ ResumeWrite(io)
  BY <1>1, <1>4 DEF ResumeRbytes, ResumeReply, ResumeRead, ResumeWrite
<1>. QED
  BY <1>3, <1>4 DEF Resume

\* A step of the kernel on a chain: one read of the pipe takes all it was asked for.
LEMMA ExecuteFlags ==
  ASSUME IInv, "short_read" \notin Faults, NEW io \in Ios, FlagsInv(io), Execute(io)
  PROVE  FlagsInv(io)'
<1>1. /\ TypeOK /\ UNCHANGED <<msg, pc, body_at, reply>> /\ sqes[io] # <<>>
      /\ \E rc : Post(io, rc)
  BY DEF Execute, SpliceFromFuse, ReadPipe, WritePipe, SpliceFromBacking,
     SpliceToBacking, SpliceToFuse, Heads, localVars, IInv
<1>2. CASE pc[io] = "reply"
  BY <1>1, <1>2 DEF FlagsInv, Asked
<1>3. CASE pc[io] = "rbytes"
  <2>1. sqes[io] # <<>> /\ SlotInv(io)
    BY <1>1 DEF IInv
  <2>2. sqes[io][1].op = "read_body"
    <3>1. \E n : sqes[io] = BodyChain(n)
      BY <1>3, <2>1 DEF SlotInv, InRbytes
    <3>. QED
      BY <3>1 DEF BodyChain, Sqe
  <2>3. header_buf' = header_buf
    BY <2>2 DEF Execute, SpliceFromFuse, ReadPipe, WritePipe, SpliceFromBacking,
       SpliceToBacking, SpliceToFuse, Heads
  <2>4. msg'[fheader(io)'] = msg[fheader(io)]
    BY <1>1, <2>3 DEF fheader
  <2>. QED
    BY <1>1, <1>3, <2>4 DEF FlagsInv
<1>4. CASE pc[io] = "fuse_read"
  <2>1. SlotInv(io) /\ InFuseRead(io)
    BY <1>4 DEF IInv, SlotInv
  <2>2. CASE sqes[io] = FuseReadChain
    <3>1. sqes'[io] # <<>>
      <4>1. PICK rc : Post(io, rc)
        BY <1>1
      <4>2. sqes'[io] = Tail(FuseReadChain)
        BY <1>1, <2>2, <4>1 DEF Post, FuseReadChain, Sqe, TypeOK
      <4>. QED
        BY <4>2, ChainsRemain
    <3>. QED
      BY <1>1, <1>4, <3>1 DEF FlagsInv
  <2>3. CASE sqes[io] = Tail(FuseReadChain)
    <3>. DEFINE all   == InHeader + WriteIn
                whole == Least(all, Len(pipe[io]))
    <3>1. sqes[io] = << Sqe("read_header", all, "none") >>
      BY <2>3 DEF FuseReadChain
    <3>2. sqes[io][1] = [op |-> "read_header", len |-> all, link |-> "none"]
      <4>. HIDE DEF all
      <4>. QED
        BY <3>1 DEF Sqe
    <3>3. ReadPipe(io)
      BY <3>2 DEF Execute, SpliceFromFuse, WritePipe, SpliceFromBacking, SpliceToBacking,
         SpliceToFuse, Heads
    <3>. HIDE DEF all, whole
    <3>4. Len(res[io]) = 1 /\ header_buf[io] = <<>> /\ res[io] \in Seq(Results)
      BY <1>1, <2>1, <2>3, ChainsRemain DEF InFuseRead, TypeOK
    <3>5. ASSUME NEW rc \in Results, Post(io, rc) PROVE res'[io][2] = rc
      <4>1. sqes[io][1].link # "link"
        BY <3>2
      <4>2. res'[io] = res[io] \o <<rc>>
        BY <1>1, <3>5, <4>1, PostFacts
      <4>. QED
        BY <3>4, <4>2
    <3>6. CASE Post(io, Err)
      <4>1. res'[io][2] = Err
        BY <3>5, <3>6 DEF Results
      <4>. QED
        BY <1>1, <1>4, <4>1 DEF FlagsInv, Err
    <3>7. CASE /\ pipe[io] # <<>>
               /\ pipe' = [pipe EXCEPT ![io] = Drop(@, whole)]
               /\ header_buf' = [header_buf EXCEPT ![io] = @ \o Take(pipe[io], whole)]
      <4>1. pipe[io] \in Seq(Cell) /\ Len(pipe[io]) \in Nat /\ all \in Nat
        BY <1>1, ConstAssumption DEF TypeOK, all
      <4>2. whole \in 0..Len(pipe[io]) /\ (whole = all \/ whole = Len(pipe[io]))
        BY <4>1 DEF Least, whole
      <4>3. Len(pipe'[io]) = Len(pipe[io]) - whole /\ pipe'[io] \in Seq(Cell)
        BY <1>1, <3>7, <4>1, <4>2, DropFacts DEF TypeOK
      <4>4. Len(header_buf'[io]) = whole
        <5>1. header_buf'[io] = <<>> \o Take(pipe[io], whole)
          BY <1>1, <3>4, <3>7 DEF TypeOK
        <5>2. Take(pipe[io], whole) \in Seq(Cell) /\ Len(Take(pipe[io], whole)) = whole
          BY <4>1, <4>2, TakeFacts
        <5>. QED
          BY <5>1, <5>2
      <4>5. pipe'[io] = <<>> \/ Len(header_buf'[io]) = all
        BY <4>1, <4>2, <4>3, <4>4
      <4>. QED
        BY <1>1, <1>4, <4>5 DEF FlagsInv, init_read, all
    <3>8. sqes[io][1].op = "read_header" /\ Least(sqes[io][1].len, Len(pipe[io])) = whole
      BY <3>2 DEF whole
    <3>9. CASE pipe[io] = <<>>
      <4>1. whole = 0
        <5>1. Len(pipe[io]) = 0 /\ all \in Nat
          BY <3>9, ConstAssumption DEF all
        <5>. QED
          BY <5>1 DEF whole, Least
      <4>2. ~\E k \in 1..whole : TRUE
        BY <4>1
      <4>. QED
        BY <3>3, <3>6, <3>8, <4>2 DEF ReadPipe
    <3>10. CASE pipe[io] # <<>>
      <4>1. PICK k \in 1..whole : /\ k = whole \/ "short_read" \in Faults
                                 /\ pipe' = [pipe EXCEPT ![io] = Drop(@, k)]
                                 /\ header_buf' = [header_buf EXCEPT ![io] =
                                                     @ \o Take(pipe[io], k)]
        BY <3>3, <3>8, <3>10 DEF ReadPipe
      <4>. QED
        BY <3>7, <3>10, <4>1
    <3>. QED
      BY <3>9, <3>10
  <2>. QED
    BY <1>1, <2>1, <2>2, <2>3 DEF InFuseRead
<1>. QED
  BY <1>1, <1>2, <1>3, <1>4 DEF FlagsInv

\* Every step keeps FInv.
LEMMA FNext ==
  ASSUME "short_read" \notin Faults
  PROVE  FInv /\ [Next]_vars => FInv'
<1>. SUFFICES ASSUME FInv, [Next]_vars, NEW j \in Ios PROVE FlagsInv(j)'
  BY NextInv DEF FInv
<1>1. IInv /\ TypeOK /\ FlagsInv(j)
  BY DEF FInv, IInv
<1>2. ASSUME UNCHANGED <<pc[j], sqes[j], res[j], reply[j], pipe[j], header_buf[j], body_at[j]>>
      PROVE  FlagsInv(j)'
  BY <1>1, <1>2, FlagsStable
<1>3. ASSUME NEW io \in Ios, queue_fuse_read(io) PROVE FlagsInv(j)'
  <2>1. /\ Await(io, "fuse_read", FuseReadChain) /\ UNCHANGED <<reply, pipe, body_at>>
        /\ header_buf' = [header_buf EXCEPT ![io] = <<>>]
    BY <1>3 DEF queue_fuse_read, localVars
  <2>2. CASE j = io
    <3>1. pc'[io] = "fuse_read" /\ sqes'[io] # <<>>
      BY <1>1, <2>1, ChainsRemain DEF Await, TypeOK
    <3>. QED
      BY <2>2, <3>1 DEF FlagsInv
  <2>3. CASE j # io
    BY <1>1, <1>2, <2>1, <2>3 DEF Await, TypeOK
  <2>. QED
    BY <2>2, <2>3
<1>4. ASSUME NEW io \in Ios, Resume(io) PROVE FlagsInv(j)'
  <2>1. CASE j = io
    BY <1>1, <1>4, <2>1, ResumeFlags
  <2>2. CASE j # io
    <3>1. UNCHANGED <<pc[j], sqes[j], res[j], reply[j], body_at[j]>>
      BY <1>1, <1>4, <2>2, ResumeFrame, ResumeBody
    <3>2. UNCHANGED <<pipe, header_buf>>
      BY <1>4 DEF Resume, ResumeFuseRead, ResumeFuseHeader, ResumeRbytes, ResumeReply,
         ResumeRead, ResumeWrite, Resumed
    <3>. QED
      BY <1>2, <3>1, <3>2
  <2>. QED
    BY <2>1, <2>2
<1>5. ASSUME NEW io \in Ios, Execute(io) PROVE FlagsInv(j)'
  <2>1. CASE j = io
    BY <1>1, <1>5, <2>1, ExecuteFlags
  <2>2. CASE j # io
    BY <1>1, <1>2, <1>5, <2>2, ExecuteFrame
  <2>. QED
    BY <2>1, <2>2
<1>6. CASE \/ submit_and_wait \/ end_batch \/ UNCHANGED vars \/ KernelUnmount
           \/ \E u \in Reqs : KernelRecycle(u) \/ \E m \in Messages : KernelSend(u, m)
  BY <1>2, <1>6 DEF submit_and_wait, end_batch, vars, slotVars, localVars, KernelUnmount,
     KernelRecycle, KernelSend, Idle
<1>. QED
  BY <1>3, <1>4, <1>5, <1>6 DEF Next, Returned

\* If no read of a pipe comes up short, the body of an OPEN or OPENDIR is behind its header in
\* header_buf when the handler, which has written scratch_buf by then, reads its flags.
THEOREM OpenFlags ==
  ASSUME "short_read" \notin Faults
  PROVE  Spec => []OpenFlagsIntact
<1>1. Init => FInv
  BY InitInv DEF Init, FInv, FlagsInv
<1>2. FInv /\ [Next]_vars => FInv'
  BY FNext
<1>3. FInv => OpenFlagsIntact
  BY DEF FInv, FlagsInv, IsOpen, Asked, OpenFlagsIntact
<1>. QED
  BY <1>1, <1>2, <1>3, PTL DEF Spec

-----------------------------------------------------------------------------
(* Where nothing fails, see Healthy.                                       *)

Taking(io) == pc[io] \in {"fuse_read", "fuse_header", "rbytes"}

\* The kernel waits for the request a slot works on.
Waited(io) == work[io] # NoReq => kstate[work[io]] = "processing"

\* The n cells of p are the first n of the reply r.
Packed(p, r, n) ==
  /\ Len(p) = n /\ p[1] = ReplyCell(r, 1)
  /\ \A i \in 2..n : p[i].req = r.req /\ p[i].part \in {"out_body", "data"}

\* What the steps done of each chain have left, each done in full.
WellFuseRead(io) ==
  /\ Len(sqes[io]) <= 1 => res[io][1] # Err
  /\ sqes[io] = <<>> => res[io][2] > 0
WellReply(io) ==
  LET len == reply[io].len
  IN /\ Len(sqes[io]) = 2 => pipe[io] = <<>>
     /\ Len(sqes[io]) = 1 => Packed(pipe[io], reply[io], len)
     /\ sqes[io] = <<>> => res[io] = <<len, len>>
WellRead(io) ==
  LET len  == reply[io].len
      size == ReadSize(Asked(io))
  IN /\ ~reply[io].err /\ len = OutHeader + size
     /\ Len(sqes[io]) = 2 => Packed(pipe[io], reply[io], OutHeader)
     /\ Len(sqes[io]) = 1 => Packed(pipe[io], reply[io], len)
     /\ sqes[io] = <<>> => res[io] = <<OutHeader, size, len>>
WellWrite(io) ==
  LET len == reply[io].len
  IN /\ ~reply[io].err
     /\ Len(sqes[io]) = 1 => Packed(pipe[io], reply[io], len)
     /\ sqes[io] = <<>> => res[io] = <<Asked(io).size, len, len>>

\* No step of a slot's chain has failed, or will.
WellInv(io) ==
  /\ pc[io] = "fuse_read" => WellFuseRead(io)
  /\ pc[io] \in {"fuse_header", "rbytes"} /\ sqes[io] = <<>> => res[io][1] > 0
  /\ pc[io] = "reply" => WellReply(io)
  /\ pc[io] = "read"  => WellRead(io)
  /\ pc[io] = "write" => WellWrite(io)
  /\ Answering(io) => /\ reply[io].len > 0
                      /\ reply[io].err => reply[io].len = OutHeader
  /\ Taking(io) \/ sqes[io] # <<>> => Waited(io)

WInv ==
  /\ IInv
  /\ last_rc = 0 /\ mounted
  /\ \A io \in Ios : WellInv(io)

LEMMA ChainLens ==
  ASSUME NEW size, NEW len
  PROVE  /\ Len(FuseReadChain) = 2 /\ Len(Tail(FuseReadChain)) = 1
         /\ Len(HeaderChain(len)) = 1 /\ Len(BodyChain(len)) = 1
         /\ Len(ReplyChain(len)) = 2 /\ Len(Tail(ReplyChain(len))) = 1
         /\ Len(ReadChain(size, len)) = 3 /\ Len(Tail(ReadChain(size, len))) = 2
         /\ Len(Tail(Tail(ReadChain(size, len)))) = 1
         /\ Len(WriteChain(size, len)) = 3 /\ Len(Tail(WriteChain(size, len))) = 2
         /\ Len(Tail(Tail(WriteChain(size, len)))) = 1
BY DEF FuseReadChain, HeaderChain, BodyChain, ReplyChain, ReadChain, WriteChain

\* A request the mount has told the kernel of has a range inside the file.
LEMMA ProperSize ==
  ASSUME TypeOK, NEW u \in Reqs, Proper(msg[u]), msg[u].op = "READ"
  PROVE  /\ ReadSize(msg[u]) \in Nat /\ ReadSize(msg[u]) <= FileSize - msg[u].off
         /\ msg[u].off <= FileSize
         /\ (OutHeader + ReadSize(msg[u])) % SizeMod = OutHeader + ReadSize(msg[u])
<1>. DEFINE off == msg[u].off
            size == msg[u].size
<1>1. /\ off \in Nat /\ size \in Nat /\ OutHeader + size < SizeMod
      /\ FileSize \in Nat /\ SizeMod \in Nat \ {0} /\ OutHeader = 1
      /\ off <= FileSize
  BY MessageFacts, ConstAssumption DEF Proper, OutHeader
<1>2. ReadSize(msg[u]) = IF off + size > FileSize THEN (FileSize - off) % SizeMod ELSE size
  BY DEF ReadSize
<1>. HIDE DEF off, size
<1>3. off + size > FileSize => (FileSize - off) % SizeMod = FileSize - off
  <2>1. FileSize - off \in Int
    BY <1>1
  <2>2. off + size > FileSize => FileSize - off \in 0..(SizeMod - 1)
    BY <1>1
  <2>. QED
    BY <1>1, <2>1, <2>2, ModFacts
<1>4. /\ ReadSize(msg[u]) \in Nat /\ ReadSize(msg[u]) <= FileSize - off
      /\ ReadSize(msg[u]) <= size
  BY <1>1, <1>2, <1>3
<1>5. OutHeader + ReadSize(msg[u]) \in 0..(SizeMod - 1)
  BY <1>1, <1>4
<1>6. (OutHeader + ReadSize(msg[u])) % SizeMod = OutHeader + ReadSize(msg[u])
  <2>1. OutHeader + ReadSize(msg[u]) \in Int
    BY <1>5
  <2>. QED
    BY <1>1, <1>5, <2>1, ModFacts
<1>. QED
  BY <1>1, <1>4, <1>6 DEF off

\* The kernel goes on waiting for a request in a slot's hands, until it is answered.
LEMMA HeldWaits ==
  ASSUME IInv, [Next]_vars, "unmount" \notin Faults, NEW j \in Ios, NEW u \in Reqs,
         Holds(j, u), kstate[u] = "processing"
  PROVE  kstate'[u] = "processing" \/ Answers(u)
<1>1. TypeOK
  BY DEF IInv
<1>2. ASSUME UNCHANGED kstate PROVE kstate'[u] = "processing"
  BY <1>2
<1>3. ASSUME NEW io \in Ios, queue_fuse_read(io) \/ Resume(io)
      PROVE  UNCHANGED kstate
  BY <1>3 DEF queue_fuse_read, Resume, ResumeFuseRead, ResumeFuseHeader, ResumeRbytes,
     ResumeReply, ResumeRead, ResumeWrite, Resumed, kernelVars
<1>4. ASSUME submit_and_wait \/ end_batch \/ UNCHANGED vars
      PROVE  UNCHANGED kstate
  BY <1>4 DEF submit_and_wait, end_batch, vars, kernelVars
<1>5. ASSUME NEW io \in Ios, SpliceFromFuse(io)
      PROVE  kstate'[u] = "processing"
  <2>1. CASE UNCHANGED kstate
    BY <2>1
  <2>2. CASE /\ pending # <<>>
             /\ kstate' = [kstate EXCEPT ![pending[1]] =
                             IF msg[pending[1]].op \in NoReplyOps THEN "noreply" ELSE "processing"]
    <3>1. 1 \in 1..Len(pending)
      BY <1>1, <2>2 DEF TypeOK
    <3>2. kstate[pending[1]] = "pending"
      BY <3>1 DEF IInv, QueueInv
    <3>. QED
      BY <1>1, <2>2, <3>2 DEF TypeOK
  <2>. QED
    BY <1>5, <2>1, <2>2 DEF SpliceFromFuse
<1>6. ASSUME NEW io \in Ios,
             \/ ReadPipe(io) \/ WritePipe(io)
             \/ SpliceFromBacking(io) \/ SpliceToBacking(io)
      PROVE  UNCHANGED kstate
  BY <1>6 DEF ReadPipe, WritePipe, SpliceFromBacking, SpliceToBacking, Heads
<1>7. ASSUME NEW io \in Ios, SpliceToFuse(io)
      PROVE  kstate'[u] = "processing" \/ Answers(u)
  <2>1. \/ UNCHANGED kstate
        \/ \E w \in Reqs : kstate' = [kstate EXCEPT ![w] = "answered"]
    BY <1>7 DEF SpliceToFuse
  <2>. QED
    BY <1>1, <2>1 DEF TypeOK, Answers
<1>8. ASSUME NEW w \in Reqs, KernelRecycle(w) \/ \E m \in Messages : KernelSend(w, m)
      PROVE  kstate'[u] = "processing"
  BY <1>1, <1>8 DEF KernelSend, KernelRecycle, TypeOK
<1>9. ~KernelUnmount
  BY DEF KernelUnmount
<1>. QED
  BY <1>2, <1>3, <1>4, <1>5, <1>6, <1>7, <1>8, <1>9 DEF Next, Returned, Execute

\* The step that answers a request ends the chain of the slot that holds it.
LEMMA HolderAnswers ==
  ASSUME IInv, [Next]_vars, NEW j \in Ios, NEW u \in Reqs, Holds(j, u), Answers(u)
  PROVE  Answering(j) /\ sqes[j] # <<>> /\ sqes'[j] = <<>>
<1>1. PICK io \in Ios :
        /\ SpliceToFuse(io) /\ Post(io, sqes[io][1].len)
        /\ Accepts(Take(pipe[io], sqes[io][1].len), u)
        /\ sqes[io][1].len \in 1..Len(pipe[io])
  BY AnswerIsAccepted
<1>2. header_buf[io] # <<>> /\ fheader(io) = u /\ sqes'[io] = <<>>
  BY <1>1, AnswererHolds
<1>3. sqes[io] # <<>> /\ pc[io] \in {"reply", "read", "write"}
  BY <1>1, HeadStage DEF SpliceToFuse, Heads
<1>4. Holds(io, u)
  <2>1. work[io] = u /\ u # NoReq
    BY <1>2, <1>3, ConstAssumption DEF work
  <2>. QED
    BY <2>1, WorkHeld DEF IInv
<1>5. io = j
  BY <1>4 DEF IInv, OneSlotPerRequest
<1>. QED
  BY <1>2, <1>3, <1>5 DEF Answering

\* What a slot has done stays so while others move.
LEMMA WellStable ==
  ASSUME IInv, [Next]_vars, "unmount" \notin Faults, NEW j \in Ios, WellInv(j),
         UNCHANGED <<pc[j], sqes[j], res[j], reply[j], pipe[j], header_buf[j]>>
  PROVE  WellInv(j)'
<1>1. TypeOK
  BY DEF IInv
<1>2. work'[j] = work[j]
  BY DEF work, fheader
<1>3. Answering(j) => Asked(j)' = Asked(j)
  <2>1. Answering(j) => msg'[reply[j].req] = msg[reply[j].req]
    BY ReplyHolds, HeldKept DEF Answering
  <2>. QED
    BY <2>1 DEF Asked
<1>4. Waited(j) => Waited(j)'
  <2>1. CASE work[j] = NoReq
    BY <1>2, <2>1 DEF Waited
  <2>2. CASE work[j] # NoReq
    <3>1. work[j] \in Reqs /\ Holds(j, work[j])
      BY <1>1, <2>2, WorkHeld
    <3>2. ~Answers(work[j])
      BY <3>1, HolderAnswers
    <3>3. kstate[work[j]] = "processing" => kstate'[work[j]] = "processing"
      BY <3>1, <3>2, HeldWaits
    <3>. QED
      BY <1>2, <2>2, <3>3 DEF Waited
  <2>. QED
    BY <2>1, <2>2
<1>5. pc[j] = "fuse_read" => WellFuseRead(j)'
  BY DEF WellInv, WellFuseRead
<1>6. pc[j] = "reply" => WellReply(j)'
  BY DEF WellInv, WellReply
<1>7. pc[j] = "read" => WellRead(j)'
  BY <1>3 DEF WellInv, WellRead, Answering
<1>8. pc[j] = "write" => WellWrite(j)'
  BY <1>3 DEF WellInv, WellWrite, Answering
<1>9. /\ Taking(j)' = Taking(j) /\ (sqes'[j] # <<>>) = (sqes[j] # <<>>)
      /\ Answering(j)' = Answering(j)
  BY DEF Taking, Answering
<1>. QED
  BY <1>4, <1>5, <1>6, <1>7, <1>8, <1>9 DEF WellInv

-----------------------------------------------------------------------------
(* Where nothing fails: the coroutines.                                    *)

\* A coroutine that goes on to its next co_await works on the same request.
LEMMA WaitedOn ==
  ASSUME NEW io \in Ios, Waited(io), pc[io] # "pool", pc'[io] # "pool",
         UNCHANGED <<kstate, pipe, header_buf>>
  PROVE  Waited(io)'
BY DEF Waited, work, fheader

\* send_reply, with an empty pipe.
LEMMA WellSend ==
  ASSUME TypeOK, NEW io \in Ios, NEW u \in Reqs, NEW err, NEW len,
         send_reply(io, u, err, len), pipe'[io] = <<>>, len > 0,
         err => len = OutHeader, Waited(io)'
  PROVE  WellInv(io)' /\ last_rc' = last_rc
<1>1. /\ pc'[io] = "reply" /\ sqes'[io] = ReplyChain(len) /\ last_rc' = last_rc
      /\ reply'[io] = [req |-> u, err |-> err, len |-> len]
  BY DEF send_reply, Await, TypeOK
<1>2. Len(sqes'[io]) = 2 /\ sqes'[io] # <<>>
  BY <1>1, ChainLens, ChainsRemain
<1>3. WellReply(io)'
  BY <1>2 DEF WellReply
<1>. QED
  BY <1>1, <1>3 DEF WellInv

\* A handler of a request the mount has told the kernel of.
LEMMA WellHandle ==
  ASSUME TypeOK, NEW io \in Ios, NEW u \in Reqs, Handle(io, u), Proper(msg[u]),
         UNCHANGED <<msg, pipe>>, pc'[io] # "pool" => Waited(io)',
         msg[u].op # "WRITE" => pipe[io] = <<>>
  PROVE  WellInv(io)' /\ last_rc' = last_rc
<1>. DEFINE m == msg[u]
<1>1. CASE handle_simple(io, u)
  <2>1. m.op \notin {"READ", "WRITE"} /\ send_reply(io, u, ReplyErr(m), ReplyLen(m))
    BY <1>1 DEF handle_simple, send_scratch
  <2>2. pipe'[io] = <<>> /\ ReplyLen(m) > 0 /\ (ReplyErr(m) => ReplyLen(m) = OutHeader)
    BY <2>1 DEF ReplyLen, OutHeader, OutBody
  <2>3. Waited(io)'
    BY <2>1 DEF send_reply, Await, TypeOK
  <2>. QED
    BY <2>1, <2>2, <2>3, WellSend
<1>2. ~handle_read_noent(io, u) /\ ~handle_write_refused(io, u)
  BY DEF handle_read_noent, handle_write_refused, Proper
<1>3. CASE handle_read(io, u)
  <2>. DEFINE size == ReadSize(m)
              len  == OutHeader + size
  <2>1. m.op = "READ" /\ size \in Nat /\ (OutHeader + size) % SizeMod = len
    BY <1>3, ProperSize DEF handle_read
  <2>2. /\ pc'[io] = "read" /\ sqes'[io] = ReadChain(size, len) /\ last_rc' = last_rc
        /\ reply'[io] = [req |-> u, err |-> FALSE, len |-> len]
    <3>1. /\ reply' = [reply EXCEPT ![io] =
                         [req |-> u, err |-> FALSE, len |-> (OutHeader + size) % SizeMod]]
          /\ Await(io, "read", ReadChain(size, (OutHeader + size) % SizeMod))
      BY <1>3 DEF handle_read
    <3>2. /\ reply' = [reply EXCEPT ![io] = [req |-> u, err |-> FALSE, len |-> len]]
          /\ Await(io, "read", ReadChain(size, len))
      BY <2>1, <3>1
    <3>. HIDE DEF size, len
    <3>. QED
      BY <3>2 DEF Await, TypeOK
  <2>3. len > 0 /\ ReadSize(Asked(io)') = size
    BY <2>1, <2>2 DEF Asked, OutHeader
  <2>4. Len(sqes'[io]) = 3 /\ sqes'[io] # <<>>
    <3>. HIDE DEF size, len
    <3>. QED
      BY <2>2, ChainLens, ChainsRemain
  <2>5. ReadSize(Asked(io))' = size
    BY <2>3 DEF ReadSize
  <2>6. reply'[io].len = OutHeader + size /\ ~reply'[io].err
    BY <2>2
  <2>. HIDE DEF size, len
  <2>7. WellRead(io)'
    BY <2>4, <2>5, <2>6 DEF WellRead
  <2>. QED
    BY <2>2, <2>3, <2>6, <2>7 DEF WellInv
<1>4. CASE handle_write(io, u)
  <2>. DEFINE len == OutHeader + OutBody
  <2>1. /\ pc'[io] = "write" /\ sqes'[io] = WriteChain(m.size, len) /\ last_rc' = last_rc
        /\ reply'[io] = [req |-> u, err |-> FALSE, len |-> len]
    BY <1>4 DEF handle_write, Await, TypeOK
  <2>2. Len(sqes'[io]) = 3 /\ sqes'[io] # <<>>
    <3>. HIDE DEF len
    <3>. QED
      BY <2>1, ChainLens, ChainsRemain
  <2>3. len > 0
    BY DEF OutHeader, OutBody
  <2>4. ~reply'[io].err
    BY <2>1
  <2>5. WellWrite(io)'
    BY <2>2, <2>4 DEF WellWrite
  <2>. QED
    BY <2>1, <2>3, <2>5 DEF WellInv
<1>. QED
  BY <1>1, <1>2, <1>3, <1>4 DEF Handle

\* A coroutine that waits for more of the header or the body.
LEMMA WellMore ==
  ASSUME TypeOK, NEW io \in Ios, NEW l \in {"fuse_header", "rbytes"}, NEW chain,
         Await(io, l, chain), chain # <<>>, Waited(io)'
  PROVE  WellInv(io)' /\ last_rc' = last_rc
<1>1. pc'[io] = l /\ sqes'[io] = chain /\ last_rc' = last_rc
  BY DEF Await, TypeOK
<1>. QED
  BY <1>1 DEF WellInv, Answering

\* The body of such a request has the size its opcode calls for.
LEMMA ProperBody ==
  ASSUME TypeOK, NEW u \in Reqs, Proper(msg[u])
  PROVE  /\ msg[u].op # "WRITE" => BodySize(msg[u], ReqLen(u)) = msg[u].body
         /\ msg[u].op = "WRITE" => /\ BodySize(msg[u], ReqLen(u)) = WriteIn
                                   /\ msg[u].body = WriteIn + msg[u].size
<1>1. ReqLen(u) - InHeader = msg[u].body
  BY MessageFacts
<1>2. CASE msg[u].op = "WRITE"
  BY <1>2 DEF BodySize, Proper, FixedBody
<1>3. CASE msg[u].op = "SETATTR"
  BY <1>3 DEF BodySize, Proper, FixedBody
<1>4. CASE msg[u].op \in FixedBody
  BY <1>4 DEF BodySize, Proper, FixedBody
<1>5. CASE msg[u].op \notin FixedBody \cup {"WRITE", "SETATTR"}
  BY <1>1, <1>5 DEF BodySize
<1>. QED
  BY <1>2, <1>3, <1>4, <1>5

\* From the whole header to the handler or the rest of the body.
LEMMA WellDispatch ==
  ASSUME TypeOK, NEW io \in Ios, NEW u \in Reqs, Dispatch(io, ReqLen(u)),
         Reading(io, u), init_read(io) >= InHeader, Proper(msg[u]), Waited(io),
         pc[io] # "pool", UNCHANGED <<msg, kstate, pipe, header_buf>>
  PROVE  WellInv(io)' /\ last_rc' = last_rc
<1>. DEFINE need == BodySize(msg[u], ReqLen(u))
            have == init_read(io) - InHeader
<1>1. /\ InHeader \in Nat \ {0} /\ WriteIn \in Nat \ {0} /\ msg[u].body \in Nat
      /\ pipe[io] \in Seq(Cell) /\ header_buf[io] \in Seq(Cell)
      /\ ReqLen(u) = InHeader + msg[u].body
  BY ConstAssumption, MessageFacts DEF TypeOK
<1>2. fheader(io) = u
  <2>1. header_buf[io] # <<>>
    BY <1>1 DEF init_read
  <2>. QED
    BY <2>1, HeaderNames DEF Reading
<1>3. /\ msg[u].op # "WRITE" => need = msg[u].body
      /\ msg[u].op = "WRITE" => need = WriteIn
  BY ProperBody
<1>4. need \in Nat
  BY <1>1, <1>3
<1>5. need = 0 \/ msg[u].op = "WRITE" \/ need = ReqLen(u) - InHeader
  BY <1>1, <1>3
<1>6. read_rbytes(io, u, need)
  BY <1>2, <1>5 DEF Dispatch
<1>7. pc'[io] # "pool" => Waited(io)'
  BY WaitedOn
<1>8. ASSUME need = 0 \/ have = need, msg[u].op # "WRITE" PROVE pipe[io] = <<>>
  <2>1. Len(header_buf[io]) + Len(pipe[io]) = InHeader + need
    BY <1>1, <1>3, <1>8 DEF Reading
  <2>2. Len(header_buf[io]) >= InHeader + need
    BY <1>1, <1>4, <1>8 DEF init_read
  <2>3. Len(header_buf[io]) \in Nat /\ Len(pipe[io]) \in Nat
    BY <1>1
  <2>4. \A a, b, c, d \in Nat : a + b = c + d /\ a >= c + d => b = 0
    OBVIOUS
  <2>. HIDE DEF need
  <2>5. Len(pipe[io]) = 0
    BY <1>1, <1>4, <2>1, <2>2, <2>3, <2>4
  <2>. QED
    BY <1>1, <2>5, LenZero
<1>9. CASE Handle(io, u) /\ (need = 0 \/ have = need)
  <2>1. msg[u].op # "WRITE" => pipe[io] = <<>>
    BY <1>8, <1>9
  <2>. QED
    BY <1>7, <1>9, <2>1, WellHandle
<1>10. CASE Await(io, "rbytes", BodyChain(need - have))
  <2>1. BodyChain(need - have) # <<>>
    BY ChainsRemain
  <2>2. pc'[io] = "rbytes"
    BY <1>10 DEF Await, TypeOK
  <2>3. Waited(io)'
    BY <1>7, <2>2
  <2>. QED
    BY <1>10, <2>1, <2>3, WellMore
<1>. QED
  BY <1>6, <1>9, <1>10 DEF read_rbytes

\* The resumption of each await.
LEMMA WellResumeFuseRead ==
  ASSUME IInv, Healthy, NEW io \in Ios, WellInv(io), ResumeFuseRead(io)
  PROVE  WellInv(io)' /\ last_rc' = last_rc
<1>. DEFINE n == res[io][1]
            k == res[io][2]
<1>1. /\ TypeOK /\ SlotInv(io) /\ pc[io] = "fuse_read" /\ sqes[io] = <<>>
      /\ UNCHANGED <<msg, kstate, pipe, header_buf>>
      /\ InHeader \in Nat \ {0}
  BY ResumedFacts, ConstAssumption DEF ResumeFuseRead, kernelVars
<1>2. /\ n # Err /\ k > 0 /\ Waited(io)
  <2>1. Len(sqes[io]) <= 1
    BY <1>1
  <2>. QED
    BY <1>1, <2>1 DEF WellInv, WellFuseRead, Taking
<1>3. PICK u \in Reqs : Reading(io, u) /\ n = ReqLen(u) /\ Len(res[io]) = 2
  BY <1>1, <1>2, ChainsRemain DEF SlotInv, InFuseRead
<1>4. n \in Nat /\ n >= InHeader /\ Proper(msg[u])
  BY <1>1, <1>3, MessageFacts DEF Healthy, TypeOK
<1>5. init_read(io) \in Nat
  BY <1>1 DEF TypeOK, init_read
<1>6. k \in Int
  <2>1. res[io] \in Seq(Results)
    BY <1>1 DEF TypeOK
  <2>. QED
    BY <1>3, <2>1 DEF Results, Err
<1>. HIDE DEF n, k
<1>7. ~(n < InHeader \/ k <= 0)
  BY <1>1, <1>2, <1>4, <1>6
<1>8. CASE /\ init_read(io) >= InHeader
           /\ Dispatch(io, n)
  <2>1. Dispatch(io, ReqLen(u))
    BY <1>3, <1>8
  <2>. QED
    BY <1>1, <1>2, <1>3, <1>4, <1>8, <2>1, WellDispatch
<1>9. CASE Await(io, "fuse_header", HeaderChain(InHeader - init_read(io)))
  <2>1. HeaderChain(InHeader - init_read(io)) # <<>>
    BY ChainsRemain
  <2>2. pc'[io] = "fuse_header"
    BY <1>1, <1>9 DEF Await, TypeOK
  <2>3. Waited(io)'
    BY <1>1, <1>2, <2>2, WaitedOn
  <2>. QED
    BY <1>1, <1>9, <2>1, <2>3, WellMore
<1>. QED
  BY <1>7, <1>8, <1>9 DEF ResumeFuseRead, n, k

LEMMA WellResumeFuseHeader ==
  ASSUME IInv, Healthy, NEW io \in Ios, WellInv(io), ResumeFuseHeader(io)
  PROVE  WellInv(io)' /\ last_rc' = last_rc
<1>. DEFINE k == res[io][1]
<1>1. /\ TypeOK /\ SlotInv(io) /\ pc[io] = "fuse_header" /\ sqes[io] = <<>>
      /\ UNCHANGED <<msg, kstate, pipe, header_buf>>
  BY ResumedFacts DEF ResumeFuseHeader, kernelVars
<1>2. k > 0 /\ Waited(io)
  BY <1>1 DEF WellInv, Taking
<1>3. PICK u \in Reqs : Reading(io, u) /\ rbytes[io] = ReqLen(u) /\ Len(res[io]) = 1
  BY <1>1, ChainsRemain DEF SlotInv, InFuseHeader
<1>4. Proper(msg[u])
  BY <1>1 DEF Healthy, TypeOK
<1>5. k \in Int
  <2>1. res[io] \in Seq(Results)
    BY <1>1 DEF TypeOK
  <2>. QED
    BY <1>3, <2>1 DEF Results, Err
<1>. HIDE DEF k
<1>6. ~(k <= 0)
  BY <1>2, <1>5
<1>7. CASE /\ init_read(io) >= InHeader
           /\ Dispatch(io, rbytes[io])
  <2>1. Dispatch(io, ReqLen(u))
    BY <1>3, <1>7
  <2>. QED
    BY <1>1, <1>2, <1>3, <1>4, <1>7, <2>1, WellDispatch
<1>8. CASE Await(io, "fuse_header", HeaderChain(InHeader - init_read(io)))
  <2>1. HeaderChain(InHeader - init_read(io)) # <<>>
    BY ChainsRemain
  <2>2. pc'[io] = "fuse_header"
    BY <1>1, <1>8 DEF Await, TypeOK
  <2>3. Waited(io)'
    BY <1>1, <1>2, <2>2, WaitedOn
  <2>. QED
    BY <1>1, <1>8, <2>1, <2>3, WellMore
<1>. QED
  BY <1>6, <1>7, <1>8 DEF ResumeFuseHeader, k

LEMMA WellResumeRbytes ==
  ASSUME IInv, Healthy, NEW io \in Ios, WellInv(io), ResumeRbytes(io)
  PROVE  WellInv(io)' /\ last_rc' = last_rc
<1>. DEFINE k == res[io][1]
<1>1. /\ TypeOK /\ SlotInv(io) /\ pc[io] = "rbytes" /\ sqes[io] = <<>>
      /\ UNCHANGED <<msg, kstate, pipe, header_buf>>
  BY ResumedFacts DEF ResumeRbytes, kernelVars
<1>2. k > 0 /\ Waited(io)
  BY <1>1 DEF WellInv, Taking
<1>3. PICK u \in Reqs : InRbytes(io, u)
  BY <1>1 DEF SlotInv
<1>. DEFINE need == BodySize(msg[u], rbytes[io])
            done == read_done[io] + k
<1>4. Proper(msg[u]) /\ msg[u].body \in Nat
  BY <1>1, MessageFacts DEF Healthy, TypeOK
<1>5. /\ HeaderOf(io, u) /\ rbytes[io] = ReqLen(u) /\ Len(res[io]) = 1
      /\ k <= need - read_done[io]
      /\ Len(pipe[io]) + read_done[io] + k = msg[u].body
  BY <1>1, <1>2, <1>3, ChainsRemain DEF InRbytes
<1>6. fheader(io) = u
  <2>1. header_buf[io] # <<>>
    BY <1>1, HandlingHeader
  <2>. QED
    BY <1>1, <1>5, <2>1, HeaderNames DEF HeaderOf
<1>7. k \in Int
  <2>1. res[io] \in Seq(Results)
    BY <1>1 DEF TypeOK
  <2>. QED
    BY <1>5, <2>1 DEF Results, Err
<1>8. CASE done < need /\ Await(io, "rbytes", BodyChain(need - done))
  <2>1. BodyChain(need - done) # <<>>
    BY ChainsRemain
  <2>2. pc'[io] = "rbytes"
    BY <1>1, <1>8 DEF Await, TypeOK
  <2>3. Waited(io)'
    BY <1>1, <1>2, <2>2, WaitedOn
  <2>. QED
    BY <1>1, <1>8, <2>1, <2>3, WellMore
<1>9. CASE done >= need /\ Handle(io, u)
  <2>1. msg[u].op # "WRITE" => pipe[io] = <<>>
    <3>1. SUFFICES ASSUME msg[u].op # "WRITE" PROVE pipe[io] = <<>>
      OBVIOUS
    <3>2. need = msg[u].body
      BY <1>1, <1>4, <1>5, <3>1, ProperBody
    <3>3. Len(pipe[io]) \in Nat /\ read_done[io] \in Nat /\ pipe[io] \in Seq(Cell)
      BY <1>1 DEF TypeOK
    <3>. HIDE DEF need, k
    <3>4. Len(pipe[io]) = 0
      BY <1>4, <1>5, <1>7, <1>9, <3>2, <3>3
    <3>. QED
      BY <3>3, <3>4, LenZero
  <2>2. pc'[io] # "pool" => Waited(io)'
    BY <1>1, <1>2, WaitedOn
  <2>. QED
    BY <1>1, <1>4, <1>9, <2>1, <2>2, WellHandle
<1>10. ~(k <= 0)
  <2>. HIDE DEF k
  <2>. QED
    BY <1>2, <1>7
<1>. QED
  BY <1>6, <1>8, <1>9, <1>10 DEF ResumeRbytes

\* A coroutine that ends without an error.
LEMMA WellReturn ==
  ASSUME TypeOK, NEW io \in Ios, Return(io, 0), sqes[io] = <<>>
  PROVE  WellInv(io)' /\ last_rc' = last_rc
<1>1. pc'[io] = "pool" /\ sqes'[io] = <<>> /\ last_rc' = last_rc
  BY DEF Return, TypeOK
<1>. QED
  BY <1>1 DEF WellInv, Answering, Taking

LEMMA WellResumeReply ==
  ASSUME IInv, NEW io \in Ios, WellInv(io), ResumeReply(io)
  PROVE  WellInv(io)' /\ last_rc' = last_rc
<1>1. TypeOK /\ pc[io] = "reply" /\ sqes[io] = <<>>
  BY ResumedFacts DEF ResumeReply
<1>2. res[io] = <<reply[io].len, reply[io].len>>
  BY <1>1 DEF WellInv, WellReply
<1>3. Return(io, 0)
  BY <1>2 DEF ResumeReply
<1>. QED
  BY <1>1, <1>3, WellReturn

LEMMA WellResumeRead ==
  ASSUME IInv, Healthy, NEW io \in Ios, WellInv(io), ResumeRead(io)
  PROVE  WellInv(io)' /\ last_rc' = last_rc
<1>. DEFINE len  == reply[io].len
            size == ReadSize(Asked(io))
<1>1. TypeOK /\ pc[io] = "read" /\ sqes[io] = <<>> /\ SlotInv(io)
  BY ResumedFacts DEF ResumeRead
<1>2. res[io] = <<OutHeader, size, len>> /\ len = OutHeader + size
  BY <1>1 DEF WellInv, WellRead
<1>3. size \in Nat
  <2>1. reply[io].req \in Reqs
    BY <1>1, ReplyHolds
  <2>. QED
    BY <1>1, <2>1, SizeFacts DEF Asked
<1>4. Return(io, 0)
  <2>1. /\ ~\E i \in 1..3 : res[io][i] < 0
        /\ ~(res[io][1] < OutHeader) /\ ~(res[io][2] < size) /\ ~(res[io][3] < len)
    <3>. HIDE DEF size
    <3>1. len \in Nat /\ OutHeader \in Nat
      BY <1>2, <1>3 DEF OutHeader
    <3>2. res[io][1] = OutHeader /\ res[io][2] = size /\ res[io][3] = len
      BY <1>2
    <3>. QED
      BY <1>3, <3>1, <3>2
  <2>. QED
    BY <2>1 DEF ResumeRead, Asked
<1>. QED
  BY <1>1, <1>4, WellReturn

LEMMA WellResumeWrite ==
  ASSUME IInv, NEW io \in Ios, WellInv(io), ResumeWrite(io)
  PROVE  WellInv(io)' /\ last_rc' = last_rc
<1>. DEFINE len  == reply[io].len
            size == Asked(io).size
<1>1. TypeOK /\ pc[io] = "write" /\ sqes[io] = <<>> /\ SlotInv(io)
  BY ResumedFacts DEF ResumeWrite
<1>2. res[io] = <<size, len, len>>
  BY <1>1 DEF WellInv, WellWrite
<1>3. size \in Nat
  <2>1. reply[io].req \in Reqs
    BY <1>1, ReplyHolds
  <2>. QED
    BY <1>1, <2>1, MessageFacts DEF Asked
<1>4. Return(io, 0)
  <2>1. ~(res[io][1] < 0) /\ ~(res[io][1] < size)
    <3>. HIDE DEF size
    <3>. QED
      BY <1>2, <1>3
  <2>2. Return(io, IF res[io][2] # len \/ res[io][3] # len THEN -1 ELSE 0)
    BY <2>1 DEF ResumeWrite, Asked
  <2>. QED
    BY <1>2, <2>2
<1>. QED
  BY <1>1, <1>4, WellReturn

\* A step of a coroutine fails nothing.
LEMMA WellResume ==
  ASSUME IInv, Healthy, NEW io \in Ios, WellInv(io), Resume(io)
  PROVE  WellInv(io)' /\ last_rc' = last_rc
BY WellResumeFuseRead, WellResumeFuseHeader, WellResumeRbytes, WellResumeReply,
   WellResumeRead, WellResumeWrite DEF Resume

-----------------------------------------------------------------------------
(* Where nothing fails: the kernel on a slot's chain.                      *)

\* A step that does all it was asked for: the chain goes on.
LEMMA PostAll ==
  ASSUME TypeOK, NEW io \in Ios, sqes[io] # <<>>, Post(io, sqes[io][1].len)
  PROVE  /\ sqes'[io] = Tail(sqes[io])
         /\ res'[io] = res[io] \o <<sqes[io][1].len>>
         /\ sqes[io][1].len \in Nat
<1>1. sqes[io] \in Seq(SqeSet)
  BY DEF TypeOK
<1>2. sqes[io][1] \in SqeSet
  BY <1>1, ElementOfSeq, LenZero
<1>3. sqes[io][1].len \in Nat /\ sqes[io][1].len \in Results
  BY <1>2 DEF SqeSet, Results
<1>. QED
  BY <1>3, PostFacts

\* The stages of each handler's chain.
LEMMA ReplyStage ==
  ASSUME IInv, NEW io \in Ios, pc[io] = "reply", sqes[io] # <<>>
  PROVE  LET len == reply[io].len
         IN \/ /\ sqes[io][1].op = "write_pipe" /\ sqes[io][1].len = len
               /\ Len(sqes[io]) = 2 /\ Len(Tail(sqes[io])) = 1 /\ res[io] = <<>>
            \/ /\ sqes[io][1].op = "splice_to_fuse" /\ sqes[io][1].len = len
               /\ Len(sqes[io]) = 1 /\ Tail(sqes[io]) = <<>> /\ res[io] = <<len>>
<1>. DEFINE len == reply[io].len
<1>1. PICK u \in Reqs : InReply(io, u)
  BY DEF IInv, SlotInv
<1>2. CASE sqes[io] = ReplyChain(len) /\ res[io] = <<>>
  <2>. HIDE DEF len
  <2>1. /\ sqes[io][1] = Sqe("write_pipe", len, "link")
        /\ Len(sqes[io]) = 2 /\ Len(Tail(sqes[io])) = 1
    BY <1>2, ChainHeads, ChainLens
  <2>. QED
    BY <1>2, <2>1, SqeFields DEF len
<1>3. CASE sqes[io] = Tail(ReplyChain(len)) /\ res[io] = <<len>>
  <2>. HIDE DEF len
  <2>1. /\ sqes[io][1] = Sqe("splice_to_fuse", len, "none")
        /\ Len(sqes[io]) = 1 /\ Tail(sqes[io]) = <<>>
    BY <1>3, ChainHeads, ChainLens
  <2>. QED
    BY <1>3, <2>1, SqeFields DEF len
<1>. QED
  BY <1>1, <1>2, <1>3 DEF InReply

LEMMA ReadStage ==
  ASSUME IInv, NEW io \in Ios, pc[io] = "read", sqes[io] # <<>>
  PROVE  LET len  == reply[io].len
             size == ReadSize(Asked(io))
         IN \/ /\ sqes[io][1].op = "write_pipe" /\ sqes[io][1].len = OutHeader
               /\ Len(Tail(sqes[io])) = 2 /\ res[io] = <<>> /\ pipe[io] = <<>>
            \/ /\ sqes[io][1].op = "splice_from_backing" /\ sqes[io][1].len = size
               /\ Len(sqes[io]) = 2 /\ Len(Tail(sqes[io])) = 1 /\ res[io] = <<OutHeader>>
            \/ /\ sqes[io][1].op = "splice_to_fuse" /\ sqes[io][1].len = len
               /\ Len(sqes[io]) = 1 /\ Tail(sqes[io]) = <<>> /\ res[io] = <<OutHeader, size>>
<1>. DEFINE len  == reply[io].len
            size == ReadSize(Asked(io))
<1>1. PICK u \in Reqs : InRead(io, u)
  BY DEF IInv, SlotInv
<1>2. Asked(io) = msg[u]
  BY <1>1 DEF InRead, Asked
<1>3. \/ sqes[io] = ReadChain(size, len) /\ res[io] = <<>> /\ pipe[io] = <<>>
      \/ sqes[io] = Tail(ReadChain(size, len)) /\ res[io] = <<OutHeader>>
      \/ sqes[io] = Tail(Tail(ReadChain(size, len))) /\ res[io] = <<OutHeader, size>>
  BY <1>1, <1>2 DEF InRead
<1>. HIDE DEF len, size
<1>4. CASE sqes[io] = ReadChain(size, len) /\ res[io] = <<>> /\ pipe[io] = <<>>
  <2>1. sqes[io][1] = Sqe("write_pipe", OutHeader, "link") /\ Len(Tail(sqes[io])) = 2
    BY <1>4, ChainHeads
  <2>. QED
    BY <1>4, <2>1, SqeFields
<1>5. CASE sqes[io] = Tail(ReadChain(size, len)) /\ res[io] = <<OutHeader>>
  <2>1. /\ sqes[io][1] = Sqe("splice_from_backing", size, "link")
        /\ Len(sqes[io]) = 2 /\ Len(Tail(sqes[io])) = 1
    BY <1>5, ChainHeads, ChainLens
  <2>. QED
    BY <1>5, <2>1, SqeFields DEF size
<1>6. CASE sqes[io] = Tail(Tail(ReadChain(size, len))) /\ res[io] = <<OutHeader, size>>
  <2>1. sqes[io][1] = Sqe("splice_to_fuse", len, "none")
    BY <1>6, ChainHeads
  <2>2. Tail(sqes[io]) = <<>>
    <3>1. Tail(Tail(Tail(ReadChain(size, len)))) = <<>>
      BY ChainHeads
    <3>. QED
      BY <1>6, <3>1
  <2>3. Len(sqes[io]) = 1
    BY <1>6, ChainLens
  <2>4. sqes[io][1].op = "splice_to_fuse" /\ sqes[io][1].len = len
    BY <2>1, SqeFields
  <2>. QED
    BY <1>6, <2>2, <2>3, <2>4 DEF size, len
<1>. QED
  BY <1>3, <1>4, <1>5, <1>6

LEMMA WriteStage ==
  ASSUME IInv, NEW io \in Ios, pc[io] = "write", sqes[io] # <<>>
  PROVE  LET len  == reply[io].len
             size == Asked(io).size
         IN \/ /\ sqes[io][1].op = "splice_to_backing" /\ sqes[io][1].len = size
               /\ Len(Tail(sqes[io])) = 2 /\ res[io] = <<>> /\ Len(pipe[io]) = size
            \/ /\ sqes[io][1].op = "write_pipe" /\ sqes[io][1].len = len
               /\ Len(Tail(sqes[io])) = 1 /\ res[io] = <<size>> /\ pipe[io] = <<>>
            \/ /\ sqes[io][1].op = "splice_to_fuse" /\ sqes[io][1].len = len
               /\ Len(sqes[io]) = 1 /\ Tail(sqes[io]) = <<>> /\ res[io] = <<size, len>>
<1>. DEFINE len  == reply[io].len
            size == Asked(io).size
<1>1. PICK u \in Reqs : InWrite(io, u)
  BY DEF IInv, SlotInv
<1>2. Asked(io) = msg[u]
  BY <1>1 DEF InWrite, Asked
<1>3. \/ sqes[io] = WriteChain(size, len) /\ res[io] = <<>> /\ Len(pipe[io]) = size
      \/ sqes[io] = Tail(WriteChain(size, len)) /\ res[io] = <<size>> /\ pipe[io] = <<>>
      \/ sqes[io] = Tail(Tail(WriteChain(size, len))) /\ res[io] = <<size, len>>
  BY <1>1, <1>2 DEF InWrite
<1>. HIDE DEF len, size
<1>4. CASE sqes[io] = WriteChain(size, len) /\ res[io] = <<>> /\ Len(pipe[io]) = size
  <2>1. sqes[io][1] = Sqe("splice_to_backing", size, "link") /\ Len(Tail(sqes[io])) = 2
    BY <1>4, ChainHeads, ChainLens
  <2>. QED
    BY <1>4, <2>1, SqeFields DEF size
<1>5. CASE sqes[io] = Tail(WriteChain(size, len)) /\ res[io] = <<size>> /\ pipe[io] = <<>>
  <2>1. sqes[io][1] = Sqe("write_pipe", len, "link") /\ Len(Tail(sqes[io])) = 1
    BY <1>5, ChainHeads, ChainLens
  <2>. QED
    BY <1>5, <2>1, SqeFields DEF len, size
<1>6. CASE sqes[io] = Tail(Tail(WriteChain(size, len))) /\ res[io] = <<size, len>>
  <2>1. sqes[io][1] = Sqe("splice_to_fuse", len, "none")
    BY <1>6, ChainHeads
  <2>2. Tail(sqes[io]) = <<>>
    <3>1. Tail(Tail(Tail(WriteChain(size, len)))) = <<>>
      BY ChainHeads
    <3>. QED
      BY <1>6, <3>1
  <2>3. Len(sqes[io]) = 1
    BY <1>6, ChainLens
  <2>4. sqes[io][1].op = "splice_to_fuse" /\ sqes[io][1].len = len
    BY <2>1, SqeFields
  <2>. QED
    BY <1>6, <2>2, <2>3, <2>4 DEF size, len
<1>. QED
  BY <1>3, <1>4, <1>5, <1>6

\* A step that leaves the slot's request, and what the kernel has of it, alone.
LEMMA WaitedThrough ==
  ASSUME NEW io \in Ios, Waited(io), UNCHANGED Session!vars
  PROVE  Waited(io)'
BY DEF Waited, Session!vars

LEMMA NotEmpty ==
  ASSUME NEW s, Len(s) \in {1, 2}
  PROVE  s # <<>>
<1>1. Len(<<>>) = 0
  OBVIOUS
<1>. QED
  BY <1>1

\* The data of a READ goes behind the header of its reply.
LEMMA PackedMore ==
  ASSUME NEW r \in Reply, NEW p \in Seq(Cell), NEW d \in Seq(Cell),
         Packed(p, r, OutHeader),
         \A i \in 1..Len(d) : d[i] = [req |-> r.req, part |-> "data"]
  PROVE  Packed(p \o d, r, OutHeader + Len(d))
<1>. DEFINE c == [req |-> r.req, part |-> "data"]
<1>1. Len(p) = 1 /\ p[1] = ReplyCell(r, 1) /\ OutHeader = 1 /\ Len(d) \in Nat
  BY DEF Packed, OutHeader
<1>2. /\ Len(p \o d) = 1 + Len(d)
      /\ \A i \in 1..(1 + Len(d)) : (p \o d)[i] = IF i <= 1 THEN p[i] ELSE d[i - 1]
  <2>1. /\ Len(p \o d) = Len(p) + Len(d)
        /\ \A i \in 1..(Len(p) + Len(d)) :
             (p \o d)[i] = IF i <= Len(p) THEN p[i] ELSE d[i - Len(p)]
    BY ConcatProperties
  <2>. QED
    BY <1>1, <2>1
<1>3. \A i \in 2..(1 + Len(d)) : i \in 1..(1 + Len(d)) /\ ~(i <= 1) /\ i - 1 \in 1..Len(d)
  BY <1>1
<1>4. 1 \in 1..(1 + Len(d)) /\ 1 <= 1
  BY <1>1
<1>5. (p \o d)[1] = ReplyCell(r, 1)
  BY <1>1, <1>2, <1>4
<1>6. \A i \in 2..(1 + Len(d)) : (p \o d)[i] = c
  BY <1>2, <1>3
<1>7. c.req = r.req /\ c.part \in {"out_body", "data"}
  OBVIOUS
<1>. HIDE DEF c
<1>. QED
  BY <1>1, <1>2, <1>5, <1>6, <1>7 DEF Packed

LEMMA WellWritePipe ==
  ASSUME IInv, NEW io \in Ios, WellInv(io), WritePipe(io)
  PROVE  WellInv(io)'
<1>. DEFINE n   == sqes[io][1].len
            len == reply[io].len
<1>1. /\ sqes[io] # <<>> /\ sqes[io][1].op = "write_pipe" /\ TypeOK
      /\ UNCHANGED <<msg, pc, reply>> /\ Post(io, n)
      /\ pipe' = [pipe EXCEPT ![io] = @ \o ReplyCells(reply[io], n)]
  BY DEF WritePipe, Heads, IInv, localVars
<1>2. sqes'[io] = Tail(sqes[io]) /\ n \in Nat
  BY <1>1, PostAll
<1>3. Answering(io) /\ Waited(io)'
  <2>1. Waited(io)
    BY <1>1 DEF WellInv
  <2>2. UNCHANGED Session!vars
    BY SimMiddle
  <2>. QED
    BY <1>1, <2>1, <2>2, HeadStage, WaitedThrough DEF Answering
<1>4. reply[io] \in Reply /\ reply[io].req \in Reqs
  BY <1>1, <1>3, ReplyHolds DEF TypeOK, Answering
<1>5. UNCHANGED <<pc[io], reply[io]>> /\ Asked(io)' = Asked(io) /\ ~Taking(io)'
  BY <1>1, <1>3 DEF Asked, Answering, Taking
<1>6. Answering(io)' /\ len > 0 /\ (reply[io].err => len = OutHeader)
  BY <1>3, <1>5 DEF WellInv, Answering
<1>. HIDE DEF n
<1>7. ASSUME pipe[io] = <<>>, n > 0 PROVE Packed(pipe'[io], reply[io], n)
  <2>1. Len(pipe[io]) = 0
    BY <1>7
  <2>2. /\ Len(pipe'[io]) = 0 + n
        /\ \A i \in 1..(0 + n) : pipe'[io][i] = IF i <= 0 THEN pipe[io][i]
                                                ELSE ReplyCell(reply[io], i - 0)
    BY <1>1, <1>2, <1>4, <2>1, AppendReply
  <2>3. Len(pipe'[io]) = n /\ \A i \in 1..n : pipe'[io][i] = ReplyCell(reply[io], i)
    BY <1>2, <2>2
  <2>4. \A i \in 2..n : i \in 1..n /\ i > OutHeader
    BY <1>2 DEF OutHeader
  <2>5. 1 \in 1..n
    BY <1>2, <1>7
  <2>6. \A i \in 2..n : ReplyCell(reply[io], i) = [req |-> reply[io].req, part |-> "out_body"]
    BY <2>4 DEF ReplyCell
  <2>7. \A i \in 2..n : /\ pipe'[io][i].req = reply[io].req
                        /\ pipe'[io][i].part = "out_body"
    BY <2>3, <2>4, <2>6
  <2>. QED
    BY <2>3, <2>5, <2>7 DEF Packed
<1>8. CASE pc[io] = "reply"
  <2>1. n = len /\ Len(sqes'[io]) = 1 /\ Len(sqes[io]) = 2
    BY <1>1, <1>2, <1>8, ReplyStage DEF n
  <2>2. pipe[io] = <<>>
    BY <1>8, <2>1 DEF WellInv, WellReply
  <2>3. Packed(pipe'[io], reply'[io], reply'[io].len) /\ sqes'[io] # <<>>
    BY <1>5, <1>6, <1>7, <2>1, <2>2, NotEmpty
  <2>4. WellReply(io)'
    BY <2>1, <2>3 DEF WellReply
  <2>. QED
    BY <1>3, <1>5, <1>6, <1>8, <2>4 DEF WellInv
<1>9. CASE pc[io] = "read"
  <2>1. n = OutHeader /\ Len(sqes'[io]) = 2 /\ pipe[io] = <<>>
    BY <1>1, <1>2, <1>9, ReadStage DEF n
  <2>2. Packed(pipe'[io], reply'[io], OutHeader) /\ sqes'[io] # <<>>
    BY <1>5, <1>7, <2>1, NotEmpty DEF OutHeader
  <2>3. ~reply[io].err /\ len = OutHeader + ReadSize(Asked(io))
    BY <1>9 DEF WellInv, WellRead
  <2>4. WellRead(io)'
    BY <1>5, <2>1, <2>2, <2>3 DEF WellRead
  <2>. QED
    BY <1>3, <1>5, <1>6, <1>9, <2>4 DEF WellInv
<1>10. CASE pc[io] = "write"
  <2>1. n = len /\ Len(sqes'[io]) = 1 /\ pipe[io] = <<>>
    BY <1>1, <1>2, <1>10, WriteStage DEF n
  <2>2. Packed(pipe'[io], reply'[io], reply'[io].len) /\ sqes'[io] # <<>>
    BY <1>5, <1>6, <1>7, <2>1, NotEmpty
  <2>3. ~reply[io].err
    BY <1>10 DEF WellInv, WellWrite
  <2>4. WellWrite(io)'
    BY <1>5, <2>1, <2>2, <2>3 DEF WellWrite
  <2>. QED
    BY <1>3, <1>5, <1>6, <1>10, <2>4 DEF WellInv
<1>. QED
  BY <1>3, <1>8, <1>9, <1>10 DEF Answering

LEMMA WellSpliceFromBacking ==
  ASSUME IInv, Healthy, NEW io \in Ios, WellInv(io), SpliceFromBacking(io)
  PROVE  WellInv(io)'
<1>. DEFINE u     == reply[io].req
            n     == sqes[io][1].len
            size  == ReadSize(Asked(io))
            len   == reply[io].len
            avail == IF msg[u].off < FileSize THEN FileSize - msg[u].off ELSE 0
            whole == Least(n, avail)
<1>1. /\ sqes[io] # <<>> /\ sqes[io][1].op = "splice_from_backing" /\ TypeOK
      /\ UNCHANGED <<msg, pc, reply>>
  BY DEF SpliceFromBacking, Heads, IInv, localVars
<1>2. pc[io] = "read"
  BY <1>1, HeadStage
<1>3. u \in Reqs /\ msg[u].op = "READ" /\ Proper(msg[u])
  <2>1. u \in Reqs
    BY <1>2, ReplyHolds
  <2>2. msg[u].op = "READ"
    BY <1>2 DEF IInv, SlotInv, InRead
  <2>. QED
    BY <1>1, <2>1, <2>2 DEF Healthy, TypeOK
<1>4. Waited(io)'
  <2>1. Waited(io)
    BY <1>1 DEF WellInv
  <2>. QED
    BY <2>1, SimMiddle, WaitedThrough
<1>5. UNCHANGED <<pc[io], reply[io]>> /\ Asked(io)' = Asked(io)
  BY <1>1 DEF Asked
<1>6. /\ n = size /\ Len(sqes[io]) = 2 /\ Len(Tail(sqes[io])) = 1
  BY <1>1, <1>2, ReadStage
<1>7. whole = size /\ size \in Nat
  <2>1. /\ size \in Nat /\ size <= FileSize - msg[u].off /\ msg[u].off <= FileSize
        /\ msg[u].off \in Nat /\ FileSize \in Nat
    BY <1>1, <1>3, ProperSize, MessageFacts, ConstAssumption DEF Asked
  <2>. HIDE DEF size
  <2>. QED
    BY <1>6, <2>1 DEF Least
<1>8. /\ pipe' = [pipe EXCEPT ![io] = @ \o DataCells(u, size)]
      /\ Post(io, n)
  <2>1. "backing_read" \notin Faults
    BY DEF Healthy
  <2>. HIDE DEF whole, size
  <2>. QED
    BY <1>6, <1>7, <2>1 DEF SpliceFromBacking, whole
<1>9. sqes'[io] = Tail(sqes[io])
  BY <1>1, <1>8, PostAll
<1>10. /\ Packed(pipe[io], reply[io], OutHeader)
       /\ ~reply[io].err /\ len = OutHeader + size /\ len > 0
  BY <1>2, <1>6 DEF WellInv, WellRead, Answering
<1>11. Packed(pipe'[io], reply[io], OutHeader + size)
  <2>. DEFINE d == DataCells(u, size)
  <2>1. d \in Seq(Cell) /\ Len(d) = size
    <3>1. [req |-> u, part |-> "data"] \in Cell
      BY <1>3 DEF Cell, Parts
    <3>. HIDE DEF size
    <3>. QED
      BY <1>7, <3>1 DEF DataCells
  <2>2. \A i \in 1..size : d[i] = [req |-> u, part |-> "data"]
    BY DEF DataCells
  <2>3. pipe'[io] = pipe[io] \o d /\ pipe[io] \in Seq(Cell) /\ reply[io] \in Reply
    BY <1>1, <1>8 DEF TypeOK
  <2>. HIDE DEF d, size
  <2>. QED
    BY <1>10, <2>1, <2>2, <2>3, PackedMore
<1>12. WellRead(io)'
  <2>1. Len(sqes'[io]) = 1 /\ sqes'[io] # <<>>
    BY <1>6, <1>9, NotEmpty
  <2>2. Packed(pipe'[io], reply'[io], reply'[io].len)
    BY <1>5, <1>10, <1>11
  <2>3. ReadSize(Asked(io))' = size
    BY <1>5
  <2>. HIDE DEF size
  <2>. QED
    BY <1>5, <1>10, <2>1, <2>2, <2>3 DEF WellRead
<1>. QED
  BY <1>2, <1>4, <1>5, <1>10, <1>12 DEF WellInv

LEMMA WellSpliceToBacking ==
  ASSUME IInv, Healthy, NEW io \in Ios, WellInv(io), SpliceToBacking(io)
  PROVE  WellInv(io)'
<1>. DEFINE n == sqes[io][1].len
<1>1. /\ sqes[io] # <<>> /\ sqes[io][1].op = "splice_to_backing" /\ TypeOK
      /\ UNCHANGED <<msg, pc, reply>>
  BY DEF SpliceToBacking, Heads, IInv, localVars
<1>2. pc[io] = "write"
  BY <1>1, HeadStage
<1>3. Waited(io)'
  <2>1. Waited(io)
    BY <1>1 DEF WellInv
  <2>. QED
    BY <2>1, SimMiddle, WaitedThrough
<1>4. Len(Tail(sqes[io])) = 2 /\ Len(pipe[io]) = n
  BY <1>1, <1>2, WriteStage
<1>5. Post(io, n)
  <2>1. "backing_write" \notin Faults
    BY DEF Healthy
  <2>2. Least(n, Len(pipe[io])) = n
    BY <1>4 DEF Least
  <2>. HIDE DEF n
  <2>. QED
    BY <2>1, <2>2 DEF SpliceToBacking, n
<1>6. Len(sqes'[io]) = 2 /\ sqes'[io] # <<>>
  <2>1. sqes'[io] = Tail(sqes[io])
    BY <1>1, <1>5, PostAll
  <2>2. Len(sqes'[io]) = 2
    BY <1>4, <2>1
  <2>. QED
    BY <2>2, NotEmpty
<1>7. UNCHANGED <<pc[io], reply[io]>> /\ ~reply[io].err
  BY <1>1, <1>2 DEF WellInv, WellWrite
<1>8. WellWrite(io)'
  BY <1>6, <1>7 DEF WellWrite
<1>. QED
  BY <1>2, <1>3, <1>7, <1>8 DEF WellInv, Answering

\* Appending a third result.
LEMMA ThirdResult ==
  ASSUME NEW S, NEW a \in S, NEW b \in S, NEW c \in S
  PROVE  <<a, b>> \o <<c>> = <<a, b, c>>
<1>. DEFINE s == <<a, b>>
            t == <<c>>
<1>1. s \in Seq(S) /\ t \in Seq(S) /\ Len(s) = 2 /\ Len(t) = 1
  OBVIOUS
<1>2. /\ s \o t \in Seq(S) /\ Len(s \o t) = 3
      /\ (s \o t)[1] = a /\ (s \o t)[2] = b /\ (s \o t)[3] = c
  BY <1>1, ConcatProperties
<1>3. <<a, b, c>> \in Seq(S) /\ Len(<<a, b, c>>) = 3
  OBVIOUS
<1>. DEFINE x == s \o t
            y == <<a, b, c>>
<1>4. \A i \in 1..3 : x[i] = y[i]
  BY <1>2
<1>5. x \in Seq(S) /\ y \in Seq(S) /\ Len(x) = 3 /\ Len(y) = 3
  BY <1>2, <1>3
<1>6. x = y
  <2>. HIDE DEF x, y
  <2>. QED
    BY <1>4, <1>5, SeqEqual
<1>. QED
  BY <1>6

\* The reply is accepted.
LEMMA WellSpliceToFuse ==
  ASSUME IInv, NEW io \in Ios, WellInv(io), SpliceToFuse(io)
  PROVE  WellInv(io)'
<1>. DEFINE u   == reply[io].req
            n   == sqes[io][1].len
            len == reply[io].len
            c   == Take(pipe[io], n)
<1>1. /\ sqes[io] # <<>> /\ sqes[io][1].op = "splice_to_fuse" /\ TypeOK
      /\ UNCHANGED <<msg, pc, reply>>
  BY DEF SpliceToFuse, Heads, IInv, localVars
<1>2. Answering(io)
  BY <1>1, HeadStage DEF Answering
<1>3. /\ n = len /\ Len(sqes[io]) = 1 /\ Tail(sqes[io]) = <<>>
      /\ pc[io] = "reply" => res[io] = <<len>>
      /\ pc[io] = "read" => res[io] = <<OutHeader, ReadSize(Asked(io))>>
      /\ pc[io] = "write" => res[io] = <<Asked(io).size, len>>
  BY <1>1, <1>2, ReplyStage, ReadStage, WriteStage DEF Answering
<1>4. /\ Packed(pipe[io], reply[io], n)
      /\ len > 0 /\ (reply[io].err => len = OutHeader)
  BY <1>2, <1>3 DEF WellInv, WellReply, WellRead, WellWrite, Answering
<1>5. u \in Reqs /\ kstate[u] = "processing" /\ reply[io] \in Reply
  <2>1. u \in Reqs /\ HeaderOf(io, u) /\ pc[io] # "pool"
    BY <1>2, ReplyHolds DEF Answering
  <2>2. work[io] = u /\ u # NoReq
    BY <1>1, <2>1, WorkIs, ConstAssumption
  <2>. QED
    BY <1>1, <2>1, <2>2 DEF WellInv, Waited, TypeOK
<1>6. n \in Nat /\ pipe[io] \in Seq(Cell) /\ Len(pipe[io]) = n /\ n > 0
  BY <1>1, <1>3, <1>4, <1>5 DEF Packed, Reply, TypeOK
<1>7. c \in Seq(Cell) /\ Len(c) = n /\ \A i \in 1..n : c[i] = pipe[io][i]
  <2>1. n \in 0..Len(pipe[io])
    BY <1>6
  <2>. HIDE DEF n
  <2>. QED
    BY <1>6, <2>1, TakeFacts
<1>8. Accepts(c, u)
  <2>. HIDE DEF c, n, len
  <2>1. c # <<>> /\ 1 \in 1..n
    BY <1>6, <1>7
  <2>2. c[1] = ReplyCell(reply[io], 1)
    BY <1>4, <1>7, <2>1 DEF Packed
  <2>3. c[1] = [req |-> u, part |-> IF reply[io].err THEN "out_err" ELSE "out_ok"]
    BY <2>2 DEF ReplyCell, OutHeader
  <2>4. reply[io].err => Len(c) = OutHeader
    BY <1>3, <1>4, <1>7
  <2>5. \A i \in 2..n : c[i] \in Cell /\ c[i].req = u /\ c[i].part \in {"out_body", "data"}
    <3>1. \A i \in 2..n : i \in 1..n
      BY <1>6
    <3>2. \A i \in 1..n : c[i] \in Cell
      BY <1>7
    <3>. QED
      BY <1>4, <1>7, <3>1, <3>2 DEF Packed
  <2>6. \A i \in 2..n : c[i] \in [req : {u}, part : {"out_body", "data"}]
    BY <2>5 DEF Cell
  <2>7. c[1].part = "out_err" => Len(c) = OutHeader
    BY <2>3, <2>4
  <2>8. c[1] \in {[req |-> u, part |-> "out_ok"], [req |-> u, part |-> "out_err"]}
    BY <2>3
  <2>. QED
    BY <1>5, <1>7, <2>1, <2>6, <2>7, <2>8 DEF Accepts
<1>9. Post(io, n)
  <2>1. ~(n > Len(pipe[io])) /\ n # 0
    BY <1>6
  <2>. HIDE DEF n
  <2>. QED
    BY <1>5, <1>8, <2>1 DEF SpliceToFuse, n, c
<1>10. sqes'[io] = <<>> /\ res'[io] = res[io] \o <<len>>
  <2>1. sqes'[io] = Tail(sqes[io]) /\ res'[io] = res[io] \o <<n>>
    BY <1>1, <1>9, PostAll
  <2>. QED
    BY <1>3, <2>1
<1>11. /\ Len(sqes'[io]) = 0 /\ UNCHANGED <<pc[io], reply[io]>>
       /\ Asked(io)' = Asked(io)
  BY <1>1, <1>10 DEF Asked
<1>12. CASE pc[io] = "reply"
  <2>1. res'[io] = <<len, len>>
    <3>1. len \in Nat
      BY <1>3, <1>6
    <3>. HIDE DEF len
    <3>. QED
      BY <1>3, <1>10, <1>12, <3>1, SecondResult DEF len
  <2>2. WellReply(io)'
    BY <1>11, <2>1 DEF WellReply
  <2>. QED
    BY <1>4, <1>10, <1>11, <1>12, <2>2 DEF WellInv, Taking
<1>13. CASE pc[io] = "read"
  <2>. DEFINE size == ReadSize(Asked(io))
  <2>1. ~reply[io].err /\ len = OutHeader + size
    BY <1>13 DEF WellInv, WellRead
  <2>2. ReadSize(Asked(io))' = size
    BY <1>11
  <2>3. res'[io] = <<OutHeader, size, len>>
    <3>1. res[io] = <<OutHeader, size>>
      BY <1>3, <1>13
    <3>2. OutHeader \in Nat /\ size \in Nat /\ len \in Nat
      BY <1>1, <1>3, <1>5, <1>6, SizeFacts DEF OutHeader, Asked
    <3>. HIDE DEF size, len
    <3>. QED
      BY <1>10, <3>1, <3>2, ThirdResult
  <2>. HIDE DEF size
  <2>4. WellRead(io)'
    BY <1>11, <2>1, <2>2, <2>3 DEF WellRead
  <2>. QED
    BY <1>4, <1>10, <1>11, <1>13, <2>4 DEF WellInv, Taking
<1>14. CASE pc[io] = "write"
  <2>1. ~reply[io].err
    BY <1>14 DEF WellInv, WellWrite
  <2>. DEFINE size == Asked(io).size
  <2>2. res'[io] = <<size, len, len>>
    <3>1. res[io] = <<size, len>>
      BY <1>3, <1>14
    <3>2. size \in Nat /\ len \in Nat
      BY <1>1, <1>3, <1>5, <1>6, MessageFacts DEF Asked
    <3>. HIDE DEF size, len
    <3>. QED
      BY <1>10, <3>1, <3>2, ThirdResult
  <2>3. WellWrite(io)'
    BY <1>11, <2>1, <2>2 DEF WellWrite
  <2>. QED
    BY <1>4, <1>10, <1>11, <1>14, <2>3 DEF WellInv, Taking
<1>. QED
  BY <1>2, <1>12, <1>13, <1>14 DEF Answering

\* The device hands out a request, which the kernel then waits for.
LEMMA WellSpliceFromFuse ==
  ASSUME IInv, Healthy, mounted, NEW io \in Ios, SpliceFromFuse(io)
  PROVE  WellInv(io)'
<1>. DEFINE u == pending[1]
<1>1. /\ TypeOK /\ sqes[io] # <<>> /\ pc[io] = "fuse_read" /\ sqes[io] = FuseReadChain
      /\ header_buf[io] = <<>> /\ pipe[io] = <<>> /\ res[io] = <<>>
      /\ UNCHANGED <<msg, pc, header_buf>>
  BY HeadStage DEF SpliceFromFuse, Heads, IInv
<1>2. /\ pending # <<>> /\ Post(io, ReqLen(u))
      /\ pipe' = [pipe EXCEPT ![io] = @ \o ReqCells(u)]
      /\ kstate' = [kstate EXCEPT ![u] = IF msg[u].op \in NoReplyOps THEN "noreply"
                                         ELSE "processing"]
  BY DEF SpliceFromFuse
<1>3. u \in Reqs
  BY <1>1, <1>2, LenZero, ElementOfSeq DEF TypeOK
<1>4. ReqLen(u) \in Nat \ {0} /\ msg[u].op \notin NoReplyOps
  <2>1. Proper(msg[u])
    BY <1>1, <1>3 DEF Healthy, TypeOK
  <2>2. msg[u].op \notin NoReplyOps
    BY <2>1 DEF Proper
  <2>. QED
    BY <1>1, <1>3, <2>2, MessageFacts
<1>5. sqes'[io] = Tail(FuseReadChain) /\ res'[io] = <<ReqLen(u)>>
  <2>1. sqes[io][1].link # "link"
    BY <1>1, ChainHeads, SqeFields
  <2>2. ReqLen(u) \in Results
    BY <1>4 DEF Results
  <2>3. sqes'[io] = Tail(sqes[io]) /\ res'[io] = res[io] \o <<ReqLen(u)>>
    BY <1>1, <1>2, <2>1, <2>2, PostFacts
  <2>. QED
    BY <1>1, <2>3
<1>6. WellFuseRead(io)'
  <2>1. sqes'[io] # <<>>
    BY <1>5, ChainsRemain
  <2>2. res'[io][1] # Err
    BY <1>4, <1>5 DEF Err
  <2>. QED
    BY <2>1, <2>2 DEF WellFuseRead
<1>7. Waited(io)'
  <2>1. ReqCells(u) \in Seq(Cell) /\ Len(ReqCells(u)) = ReqLen(u)
    <3>1. \A i \in 1..ReqLen(u) : ReqCell(u, i) \in Cell
      BY <1>3, <1>4, CellFacts
    <3>. QED
      BY <1>4, <3>1 DEF ReqCells
  <2>2. ReqCells(u)[1] = ReqCell(u, 1)
    BY <1>4 DEF ReqCells
  <2>3. pipe'[io] = ReqCells(u)
    BY <1>1, <1>2, <2>1 DEF TypeOK
  <2>4. pipe'[io] # <<>> /\ pipe'[io][1].req = u
    BY <1>4, <2>1, <2>2, <2>3 DEF ReqCell
  <2>5. work'[io] = u
    BY <1>1, <2>4 DEF work
  <2>6. kstate'[u] = "processing"
    BY <1>1, <1>2, <1>3, <1>4 DEF TypeOK
  <2>. QED
    BY <2>5, <2>6 DEF Waited
<1>. QED
  BY <1>1, <1>6, <1>7 DEF WellInv, Answering

\* A read of the pipe finds something there.
LEMMA WellReadPipe ==
  ASSUME IInv, Healthy, NEW io \in Ios, WellInv(io), ReadPipe(io)
  PROVE  WellInv(io)'
<1>1. /\ TypeOK /\ SlotInv(io) /\ sqes[io] # <<>>
      /\ sqes[io][1].op \in {"read_header", "read_body"}
      /\ UNCHANGED <<msg, pc, reply>>
      /\ pipe[io] \in Seq(Cell) /\ header_buf[io] \in Seq(Cell)
      /\ InHeader \in Nat \ {0} /\ WriteIn \in Nat \ {0}
  BY ConstAssumption DEF ReadPipe, Heads, IInv, TypeOK, localVars
<1>2. Waited(io)'
  <2>1. Waited(io)
    BY <1>1 DEF WellInv
  <2>. QED
    BY <2>1, SimReadPipe, WaitedThrough
<1>3. ASSUME pipe[io] # <<>>, sqes[io][1].link = "none", Tail(sqes[io]) = <<>>
      PROVE  \E k \in Nat \ {0} : sqes'[io] = <<>> /\ res'[io] = res[io] \o <<k>>
  <2>1. PICK k \in 1..Least(sqes[io][1].len, Len(pipe[io])) : Post(io, k)
    BY <1>3 DEF ReadPipe
  <2>2. k \in Nat \ {0} /\ k \in Results
    BY <2>1 DEF Results
  <2>3. sqes[io][1].link # "link"
    BY <1>3
  <2>4. sqes'[io] = Tail(sqes[io]) /\ res'[io] = res[io] \o <<k>>
    BY <1>1, <2>1, <2>2, <2>3, PostFacts
  <2>. QED
    BY <1>3, <2>2, <2>4
<1>4. CASE pc[io] = "fuse_read"
  <2>1. sqes[io] = Tail(FuseReadChain) /\ Len(sqes[io]) = 1
    BY <1>1, <1>4, HeadStage, ChainLens
  <2>2. sqes[io][1].link = "none" /\ Tail(sqes[io]) = <<>>
    <3>1. sqes[io][1] = Sqe("read_header", InHeader + WriteIn, "none")
      BY <2>1, ChainHeads
    <3>2. Tail(sqes[io]) = <<>>
      BY <2>1, ChainHeads
    <3>. QED
      BY <3>1, <3>2, SqeFields
  <2>3. res[io][1] # Err
    BY <1>4, <2>1 DEF WellInv, WellFuseRead
  <2>4. sqes[io] # FuseReadChain
    BY <2>1, ChainLens
  <2>5. PICK u \in Reqs : Reading(io, u) /\ header_buf[io] = <<>> /\ Len(res[io]) = 1
    BY <1>1, <1>4, <2>3, <2>4 DEF SlotInv, InFuseRead
  <2>6. pipe[io] # <<>>
    <3>1. Len(header_buf[io]) + Len(pipe[io]) = ReqLen(u) /\ ReqLen(u) \in Nat \ {0}
      BY <1>1, <2>5, MessageFacts DEF Reading
    <3>2. Len(header_buf[io]) = 0
      BY <2>5
    <3>. QED
      BY <1>1, <3>1, <3>2, LenZero
  <2>7. PICK k \in Nat \ {0} : sqes'[io] = <<>> /\ res'[io] = res[io] \o <<k>>
    BY <1>3, <2>2, <2>6
  <2>8. res'[io][1] = res[io][1] /\ res'[io][2] = k
    <3>1. res[io] \in Seq(Results) /\ <<k>> \in Seq(Nat \ {0})
      BY <1>1 DEF TypeOK
    <3>. QED
      BY <2>5, <2>7, <3>1
  <2>9. WellFuseRead(io)'
    BY <2>3, <2>8 DEF WellFuseRead
  <2>. QED
    BY <1>1, <1>2, <1>4, <2>9 DEF WellInv, Answering
<1>5. CASE pc[io] = "fuse_header"
  <2>. DEFINE left == InHeader - init_read(io)
  <2>1. PICK u \in Reqs : InFuseHeader(io, u)
    BY <1>1, <1>5 DEF SlotInv
  <2>2. /\ Reading(io, u) /\ init_read(io) < InHeader /\ res[io] = <<>>
        /\ sqes[io] = HeaderChain(left)
    BY <1>1, <2>1 DEF InFuseHeader
  <2>3. sqes[io][1].link = "none" /\ Tail(sqes[io]) = <<>>
    <3>. HIDE DEF left
    <3>1. sqes[io][1] = Sqe("read_header", left, "none")
      BY <2>2, ChainHeads
    <3>2. Tail(HeaderChain(left)) = <<>>
      BY ChainHeads
    <3>. QED
      BY <2>2, <3>1, <3>2, SqeFields
  <2>4. pipe[io] # <<>>
    <3>1. /\ Len(header_buf[io]) + Len(pipe[io]) = ReqLen(u)
          /\ ReqLen(u) \in Nat /\ ReqLen(u) >= InHeader /\ Len(header_buf[io]) < InHeader
      BY <1>1, <2>2, MessageFacts DEF Reading, init_read
    <3>2. Len(header_buf[io]) \in Nat /\ Len(pipe[io]) \in Nat
      BY <1>1
    <3>3. \A a, b, c, d \in Nat : a + b = c /\ c >= d /\ a < d => b # 0
      OBVIOUS
    <3>4. Len(pipe[io]) # 0
      BY <1>1, <3>1, <3>2, <3>3
    <3>. QED
      BY <3>4
  <2>5. PICK k \in Nat \ {0} : sqes'[io] = <<>> /\ res'[io] = res[io] \o <<k>>
    BY <1>3, <2>3, <2>4
  <2>6. res'[io][1] > 0
    BY <2>2, <2>5
  <2>. QED
    BY <1>1, <1>2, <1>5, <2>6 DEF WellInv, Answering
<1>6. CASE pc[io] = "rbytes"
  <2>1. PICK u \in Reqs : InRbytes(io, u)
    BY <1>1, <1>6 DEF SlotInv
  <2>. DEFINE need == BodySize(msg[u], rbytes[io])
              left == need - read_done[io]
  <2>2. /\ read_done[io] < need /\ rbytes[io] = ReqLen(u)
        /\ sqes[io] = BodyChain(left) /\ res[io] = <<>>
        /\ Len(pipe[io]) + read_done[io] = msg[u].body
    BY <1>1, <2>1 DEF InRbytes
  <2>3. sqes[io][1].link = "none" /\ Tail(sqes[io]) = <<>>
    <3>. HIDE DEF left
    <3>1. sqes[io][1] = Sqe("read_body", left, "none")
      BY <2>2, ChainHeads
    <3>2. Tail(BodyChain(left)) = <<>>
      BY ChainHeads
    <3>. QED
      BY <2>2, <3>1, <3>2, SqeFields
  <2>4. pipe[io] # <<>>
    <3>1. msg[u].body \in Nat /\ msg[u].size \in Nat /\ read_done[io] \in Nat /\ Proper(msg[u])
      BY <1>1, MessageFacts DEF TypeOK, Healthy
    <3>2. need <= msg[u].body /\ need \in Nat
      <4>1. /\ msg[u].op # "WRITE" => need = msg[u].body
            /\ msg[u].op = "WRITE" => need = WriteIn /\ msg[u].body = WriteIn + msg[u].size
        BY <1>1, <2>2, <3>1, ProperBody
      <4>. HIDE DEF need
      <4>. QED
        BY <1>1, <3>1, <4>1
    <3>. HIDE DEF need
    <3>3. Len(pipe[io]) # 0
      BY <2>2, <3>1, <3>2
    <3>. QED
      BY <3>3
  <2>5. PICK k \in Nat \ {0} : sqes'[io] = <<>> /\ res'[io] = res[io] \o <<k>>
    BY <1>3, <2>3, <2>4
  <2>6. res'[io][1] > 0
    BY <2>2, <2>5
  <2>. QED
    BY <1>1, <1>2, <1>6, <2>6 DEF WellInv, Answering
<1>. QED
  BY <1>1, <1>4, <1>5, <1>6, HeadStage

LEMMA WellExecute ==
  ASSUME IInv, Healthy, mounted, NEW io \in Ios, WellInv(io), Execute(io)
  PROVE  WellInv(io)'
BY WellWritePipe, WellSpliceFromBacking, WellSpliceToBacking, WellSpliceToFuse,
   WellSpliceFromFuse, WellReadPipe DEF Execute

-----------------------------------------------------------------------------
(* Where nothing fails: the whole.                                         *)

LEMMA WInit == Init => WInv
<1>. SUFFICES ASSUME Init PROVE WInv
  OBVIOUS
<1>1. IInv /\ last_rc = 0 /\ mounted
  BY InitInv DEF Init
<1>2. ASSUME NEW io \in Ios PROVE WellInv(io)
  BY <1>2 DEF Init, WellInv, Answering, Taking
<1>. QED
  BY <1>1, <1>2 DEF WInv

LEMMA WNext ==
  ASSUME Healthy
  PROVE  WInv /\ [Next]_vars => WInv'
<1>. SUFFICES ASSUME WInv, [Next]_vars PROVE WInv'
  OBVIOUS
<1>1. IInv /\ TypeOK /\ last_rc = 0 /\ mounted /\ "unmount" \notin Faults
  BY DEF WInv, IInv, Healthy
<1>2. IInv'
  BY <1>1, NextInv
<1>3. mounted'
  <2>1. ~KernelUnmount
    BY <1>1 DEF KernelUnmount
  <2>2. ASSUME NEW io \in Ios, Execute(io) PROVE UNCHANGED mounted
    BY <2>2 DEF Execute, ReadPipe, WritePipe, SpliceFromFuse, SpliceFromBacking,
       SpliceToBacking, SpliceToFuse, Heads
  <2>3. ASSUME NEW io \in Ios, Resume(io) \/ queue_fuse_read(io) PROVE UNCHANGED mounted
    BY <2>3 DEF queue_fuse_read, Resume, ResumeFuseRead, ResumeFuseHeader, ResumeRbytes,
       ResumeReply, ResumeRead, ResumeWrite, Resumed, kernelVars
  <2>4. ASSUME \/ submit_and_wait \/ end_batch \/ UNCHANGED vars
               \/ \E u \in Reqs : KernelRecycle(u) \/ \E m \in Messages : KernelSend(u, m)
        PROVE  UNCHANGED mounted
    BY <2>4 DEF submit_and_wait, end_batch, vars, kernelVars, KernelRecycle, KernelSend
  <2>. QED
    BY <1>1, <2>1, <2>2, <2>3, <2>4 DEF Next, Returned
<1>4. last_rc' = 0 /\ \A j \in Ios : WellInv(j)'
  <2>. SUFFICES ASSUME NEW j \in Ios PROVE last_rc' = 0 /\ WellInv(j)'
    <3>1. CASE Ios = {}
      <4>1. UNCHANGED last_rc
        BY <3>1 DEF Next, Returned, submit_and_wait, end_batch, vars, KernelRecycle,
           KernelSend, KernelUnmount, Idle
      <4>. QED
        BY <1>1, <3>1, <4>1
    <3>. QED
      BY <3>1
  <2>1. WellInv(j)
    BY DEF WInv
  <2>2. ASSUME UNCHANGED <<pc[j], sqes[j], res[j], reply[j], pipe[j], header_buf[j]>>
        PROVE  WellInv(j)'
    BY <1>1, <2>1, <2>2, WellStable
  <2>3. ASSUME NEW io \in Ios, queue_fuse_read(io) PROVE last_rc' = 0 /\ WellInv(j)'
    <3>1. /\ Await(io, "fuse_read", FuseReadChain) /\ UNCHANGED <<reply, pipe, kstate>>
          /\ pc[io] = "pool" /\ header_buf' = [header_buf EXCEPT ![io] = <<>>]
      BY <2>3 DEF queue_fuse_read, localVars, kernelVars
    <3>2. last_rc' = 0
      BY <1>1, <3>1 DEF Await
    <3>3. CASE j = io
      <4>1. pc'[io] = "fuse_read" /\ sqes'[io] = FuseReadChain
        BY <1>1, <3>1 DEF Await, TypeOK
      <4>2. Len(sqes'[io]) = 2 /\ sqes'[io] # <<>>
        BY <4>1, ChainLens, ChainsRemain
      <4>3. work'[io] = NoReq
        <5>1. pipe[io] = <<>>
          BY <1>1, <3>1 DEF IInv, SlotInv, InPool
        <5>. QED
          BY <1>1, <3>1, <5>1 DEF work, TypeOK
      <4>4. WellFuseRead(io)' /\ Waited(io)'
        BY <4>2, <4>3 DEF WellFuseRead, Waited
      <4>. QED
        BY <3>2, <3>3, <4>1, <4>4 DEF WellInv, Answering
    <3>4. CASE j # io
      BY <1>1, <2>2, <3>1, <3>2, <3>4 DEF Await, TypeOK
    <3>. QED
      BY <3>3, <3>4
  <2>4. ASSUME NEW io \in Ios, Resume(io) PROVE last_rc' = 0 /\ WellInv(j)'
    <3>1. WellInv(io)' /\ last_rc' = 0
      BY <1>1, <2>4, WellResume DEF WInv
    <3>2. CASE j # io
      <4>1. UNCHANGED <<pc[j], sqes[j], res[j], reply[j]>>
        BY <1>1, <2>4, <3>2, ResumeFrame
      <4>2. UNCHANGED <<pipe, header_buf>>
        BY <1>1, <2>4, ResumeKinds
      <4>. QED
        BY <2>2, <3>1, <4>1, <4>2
    <3>. QED
      BY <3>1, <3>2
  <2>5. ASSUME NEW io \in Ios, Execute(io) PROVE last_rc' = 0 /\ WellInv(j)'
    <3>1. last_rc' = 0
      BY <1>1, <2>5 DEF Execute, ReadPipe, WritePipe, SpliceFromFuse, SpliceFromBacking,
         SpliceToBacking, SpliceToFuse, Heads
    <3>2. CASE j = io
      BY <1>1, <2>1, <2>5, <3>1, <3>2, WellExecute
    <3>3. CASE j # io
      BY <1>1, <2>2, <2>5, <3>1, <3>3, ExecuteFrame
    <3>. QED
      BY <3>2, <3>3
  <2>6. CASE \/ submit_and_wait \/ end_batch \/ UNCHANGED vars \/ KernelUnmount
             \/ \E u \in Reqs : KernelRecycle(u) \/ \E m \in Messages : KernelSend(u, m)
    BY <1>1, <2>2, <2>6 DEF submit_and_wait, end_batch, vars, slotVars, localVars,
       KernelUnmount, KernelRecycle, KernelSend, Idle
  <2>. QED
    BY <2>3, <2>4, <2>5, <2>6 DEF Next, Returned
<1>. QED
  BY <1>2, <1>3, <1>4 DEF WInv

\* Where nothing fails, every step of every chain does all it was asked for, and the
\* kernel waits for the request of each slot that has more to do.
THEOREM NothingGoesWrong ==
  ASSUME Healthy
  PROVE  Spec => []WInv
BY WInit, WNext, PTL DEF Spec

\* No request makes a worker stop, for every size of the backing file, of scratch_buf and
\* of the requests, and however the reads of the pipe are split: what may stop one is a
\* fault, a request that takes no reply (FORGET, BATCH_FORGET, INTERRUPT), a READ past
\* the end, or a request this mount gives no reason for.
THEOREM WorkersNeverFail ==
  ASSUME Healthy
  PROVE  Spec => []NeverFails
<1>1. WInv => NeverFails
  BY DEF WInv, NeverFails
<1>. QED
  BY <1>1, NothingGoesWrong, PTL

=============================================================================
