----------------------------- MODULE FuseRequest -----------------------------
(***************************************************************************)
(* The request pipeline of fuseuring_main.cpp, as one worker thread runs   *)
(* it: queue_fuse_read takes a request from the fuse device into the pipe  *)
(* of a FuseIo slot, reads its header and body out of that pipe, runs the  *)
(* handler of its opcode and splices the reply back to the device.         *)
(*                                                                         *)
(* One action is one stretch of coroutine code between two co_awaits, or   *)
(* one step of the kernel on the head of a slot's submitted chain.         *)
(*                                                                         *)
(* A pipe is a FIFO of cells.  A cell is a small fixed run of bytes tagged *)
(* with the request it belongs to and the part of the message it holds;    *)
(* lengths are counted in cells.  What a coroutine sees of the kernel is   *)
(* only the list of its completion results, as in the code.                *)
(***************************************************************************)
EXTENDS Integers, Sequences, FiniteSets

CONSTANTS
  Ios,        \* the FuseIo slots of the worker's fuse_ring (max_fuse_ios)
  Reqs,       \* identities (fuse_in_header.unique) of requests in flight
  NoReq,      \* not a request
  Messages,   \* the request messages the kernel may send, see Message
  Faults,     \* the faults that may occur, a subset of FaultKinds
  InHeader,   \* sizeof(fuse_in_header), in cells
  WriteIn,    \* sizeof(fuse_write_in), in cells
  ScratchSize,\* scratch_buf_size, in cells
  FileSize,   \* backing_f_size: the backing file's size when the run began
  SizeMod     \* modulus of the uint32_t size fields (2^32)

\* Opcodes of a body of fixed size.
FixedBody  == {"GETATTR", "OPENDIR", "READDIR", "RELEASEDIR", "OPEN", "READ",
               "RELEASE"}

\* Opcodes whose reply the device refuses.  Nobody waits for one to a forget.  One to
\* an INTERRUPT must come through the session that holds the request interrupted, and
\* a session holds one request at a time: it is never the one that reads the INTERRUPT.
NoReplyOps == {"FORGET", "BATCH_FORGET", "INTERRUPT"}

\* OTHER stands for every other opcode without a case in the switch of
\* queue_fuse_read: the kernel waits for the reply.
Opcodes    == FixedBody \cup {"SETATTR", "LOOKUP", "WRITE", "OTHER"} \cup NoReplyOps

\* body: cells after the fuse_in_header; fh: the file handle in the body (0:
\* none); off, size: the range of a READ, READDIR or WRITE.
Message == [op : Opcodes, node : Nat, fh : Nat, body : Nat, off : Nat,
            size : Nat]

OutHeader == 1   \* sizeof(fuse_out_header), in cells

FaultKinds == {"short_read", "backing_read", "backing_write", "unmount"}

ASSUME ConstAssumption ==
  /\ NoReq \notin Reqs
  /\ Messages \subseteq Message /\ Messages # {}
  /\ Faults \subseteq FaultKinds
  /\ InHeader \in Nat \ {0} /\ WriteIn \in Nat \ {0}
  /\ ScratchSize \in Nat /\ FileSize \in Nat /\ SizeMod \in Nat \ {0}
  \* the kernel asks for max_pages at most, far below 2^32 bytes
  /\ \A m \in Messages : OutHeader + m.size < SizeMod

VARIABLES
  phase,       \* where run() is: filling, reaping completions, or returned
  last_rc,     \* fuse_io_context::last_rc
  mounted,     \* kernel: the fuse connection is up
  pending,     \* kernel: requests waiting to be read from the device, FIFO
  kstate,      \* kernel: what it knows of each request
  msg,         \* kernel: the message of each request in use
  pc,          \* the co_await each slot's coroutine is suspended at
  sqes,        \* what is left of the chain the slot has submitted
  res,         \* the completion results of that chain so far
  pipe,        \* the slot's pipe
  header_buf,  \* the cells read into header_buf since the coroutine started
  rbytes,      \* local: size of the request spliced from the device
  read_done,   \* local of read_rbytes: cells of the body read so far
  body_at,     \* local: the buffer that rbytes_buf points into
  reply,       \* the out_header of the reply being sent
  scratch_len  \* the len field that scratch_buf's out_header holds

kernelVars == <<mounted, pending, kstate, msg>>
localVars  == <<rbytes, read_done, body_at, reply>>
slotVars   == <<pc, sqes, res, pipe, header_buf, localVars, scratch_len>>
vars       == <<phase, last_rc, kernelVars, slotVars>>

-----------------------------------------------------------------------------
(* Cells, replies and chains.                                              *)

Parts == {"in_header", "body", "out_ok", "out_err", "out_body", "data"}
Cell  == [req : Reqs, part : Parts]

OutBody   == 1   \* any of the fixed reply bodies (attr, entry, open, write)
Err       == -1  \* any negative completion result, -ECANCELED included

Reply   == [req : Reqs \cup {NoReq}, err : BOOLEAN, len : Nat]
NoReply == [req |-> NoReq, err |-> FALSE, len |-> 0]

Take(s, n)  == SubSeq(s, 1, n)
Drop(s, n)  == SubSeq(s, n + 1, Len(s))
Least(a, b) == IF a <= b THEN a ELSE b
Cells(s)    == {s[i] : i \in 1..Len(s)}

ReqLen(u)    == InHeader + msg[u].body
ReqCell(u, i) == [req |-> u, part |-> IF i <= InHeader THEN "in_header" ELSE "body"]
ReqCells(u)  == [i \in 1..ReqLen(u) |-> ReqCell(u, i)]

ReplyCell(r, i)  ==
  [req |-> r.req, part |-> IF i > OutHeader THEN "out_body"
                           ELSE IF r.err THEN "out_err" ELSE "out_ok"]
ReplyCells(r, n) == [i \in 1..n |-> ReplyCell(r, i)]
DataCells(u, n)  == [i \in 1..n |-> [req |-> u, part |-> "data"]]

\* Submission queue entries: a link is broken by a failed or short step.
SqeOps == {"splice_from_fuse", "read_header", "read_body", "write_pipe",
           "splice_from_backing", "splice_to_backing", "splice_to_fuse"}
Links  == {"none", "link", "hardlink"}
SqeSet == [op : SqeOps, len : Nat, link : Links]
Sqe(op, len, link) == [op |-> op, len |-> len, link |-> link]

\* The chains of queue_fuse_read, send_reply, handle_read and handle_write.
\* Mutant: only the header is read with the request.
FuseReadChain_HeaderOnly == << Sqe("splice_from_fuse", 0, "hardlink"),
                               Sqe("read_header", InHeader, "none") >>
FuseReadChain == << Sqe("splice_from_fuse", 0, "hardlink"),
                    Sqe("read_header", InHeader + WriteIn, "none") >>
ReplyChain(len) == << Sqe("write_pipe", len, "link"),
                      Sqe("splice_to_fuse", len, "none") >>
\* Mutant: the header is sent before the data has been read.
ReadChain_EarlyReply(size, len) == << Sqe("write_pipe", OutHeader, "link"),
                                      Sqe("splice_to_fuse", OutHeader, "link"),
                                      Sqe("splice_from_backing", size, "none") >>
ReadChain(size, len) == << Sqe("write_pipe", OutHeader, "link"),
                           Sqe("splice_from_backing", size, "link"),
                           Sqe("splice_to_fuse", len, "none") >>
\* Mutant: the reply is not linked to the write of the backing file.
WriteChain_Unlinked(size, len) == << Sqe("splice_to_backing", size, "none"),
                                     Sqe("write_pipe", len, "link"),
                                     Sqe("splice_to_fuse", len, "none") >>
WriteChain(size, len) == << Sqe("splice_to_backing", size, "link"),
                            Sqe("write_pipe", len, "link"),
                            Sqe("splice_to_fuse", len, "none") >>
HeaderChain(len) == << Sqe("read_header", len, "none") >>
BodyChain(len)   == << Sqe("read_body", len, "none") >>

Labels == {"pool", "fuse_read", "fuse_header", "rbytes", "reply", "read",
           "write"}

\* co_await io.complete(chain): the coroutine suspends at label l.
Await(io, l, chain) ==
  /\ pc'   = [pc EXCEPT ![io] = l]
  /\ sqes' = [sqes EXCEPT ![io] = chain]
  /\ res'  = [res EXCEPT ![io] = <<>>]
  /\ UNCHANGED last_rc

\* co_return rc: the locals end, ~FuseIoVal puts the slot back into
\* fuse_ring.ios, and queue_read_set_rc records a failure in last_rc.
Return(io, rc) ==
  /\ pc'        = [pc EXCEPT ![io] = "pool"]
  /\ rbytes'    = [rbytes EXCEPT ![io] = 0]
  /\ read_done' = [read_done EXCEPT ![io] = 0]
  /\ body_at'   = [body_at EXCEPT ![io] = "none"]
  /\ reply'     = [reply EXCEPT ![io] = NoReply]
  /\ res'       = [res EXCEPT ![io] = <<>>]
  /\ last_rc'   = IF rc # 0 THEN rc ELSE last_rc
  /\ UNCHANGED <<sqes, scratch_len>>

Completed(io) == pc[io] # "pool" /\ sqes[io] = <<>>
fheader(io)   == header_buf[io][1].req
init_read(io) == Len(header_buf[io])

-----------------------------------------------------------------------------
(* The handlers, each from its call to its first co_await.                 *)

TargetNode(m) == IF m.fh # 0 THEN m.fh ELSE m.node

\* error and len of the reply of a handler that only fills in a reply.
ReplyErr(m) ==
  \/ m.op \in {"GETATTR", "SETATTR"} /\ TargetNode(m) \notin {1, 3}
  \/ m.op \in NoReplyOps \cup {"OTHER"}
ReplyLen(m) ==
  IF \/ ReplyErr(m)
     \/ m.op \in {"RELEASE", "RELEASEDIR"}
     \/ m.op = "READDIR" /\ m.off # 0
  THEN OutHeader
  ELSE OutHeader + OutBody

\* send_reply: write the reply into the pipe, splice it to the device.
send_reply(io, u, err, len) ==
  /\ reply' = [reply EXCEPT ![io] = [req |-> u, err |-> err, len |-> len]]
  /\ Await(io, "reply", ReplyChain(len))

\* The reply of every handler but READDIR is built in scratch_buf.
send_scratch(io, u, err, len) ==
  /\ scratch_len' = [scratch_len EXCEPT ![io] = len]
  /\ send_reply(io, u, err, len)

\* out_header->len as a handler finds it in scratch_buf: of a body that was read
\* there, it is the first field of fuse_read_in.
found_len(io, u) == IF body_at[io] = "scratch" THEN msg[u].fh ELSE scratch_len[io]

handle_simple(io, u) ==
  LET m == msg[u]
  IN /\ m.op \notin {"READ", "WRITE"}
     /\ \/ /\ m.op = "READDIR"
           /\ send_reply(io, u, ReplyErr(m), ReplyLen(m))
           /\ scratch_len' = [scratch_len EXCEPT ![io] = found_len(io, u)]
        \/ /\ m.op # "READDIR"
           /\ send_scratch(io, u, ReplyErr(m), ReplyLen(m))

\* READ of another node: out_header->len is not set.
handle_read_noent(io, u) ==
  /\ msg[u].op = "READ" /\ msg[u].node # 3
  /\ send_scratch(io, u, TRUE, found_len(io, u))

\* The size handle_read serves, in the arithmetic of a uint32_t.
\* Mutant: the size is not clamped to the end of the file.
ReadSize_Unclamped(m) == m.size
ReadSize(m) == IF m.off + m.size > FileSize
               THEN (FileSize - m.off) % SizeMod
               ELSE m.size

\* Mutant: out_header->len is set before the size is added to it.
handle_read_HeaderLen(io, u) ==
  LET m == msg[u]
  IN /\ m.op = "READ" /\ m.node = 3
     /\ scratch_len' = [scratch_len EXCEPT ![io] = OutHeader]
     /\ reply' = [reply EXCEPT ![io] =
                    [req |-> u, err |-> FALSE, len |-> OutHeader]]
     /\ Await(io, "read", ReadChain(ReadSize(m), OutHeader))

handle_read(io, u) ==
  LET m   == msg[u]
      len == (OutHeader + ReadSize(m)) % SizeMod
  IN /\ m.op = "READ" /\ m.node = 3
     /\ scratch_len' = [scratch_len EXCEPT ![io] = len]
     /\ reply' = [reply EXCEPT ![io] = [req |-> u, err |-> FALSE, len |-> len]]
     /\ Await(io, "read", ReadChain(ReadSize(m), len))

\* WRITE of another node (-ENOENT), or of a length that disagrees with the
\* header (-EINVAL).
handle_write_refused(io, u) ==
  /\ msg[u].op = "WRITE"
  /\ msg[u].node # 3 \/ msg[u].body # WriteIn + msg[u].size
  /\ send_scratch(io, u, TRUE, OutHeader)

handle_write(io, u) ==
  LET m   == msg[u]
      len == OutHeader + OutBody
  IN /\ m.op = "WRITE" /\ m.node = 3 /\ m.body = WriteIn + m.size
     /\ scratch_len' = [scratch_len EXCEPT ![io] = len]
     /\ reply' = [reply EXCEPT ![io] = [req |-> u, err |-> FALSE, len |-> len]]
     /\ Await(io, "write", WriteChain(m.size, len))

\* The second switch of queue_fuse_read.
Handle(io, u) ==
  \/ handle_simple(io, u)
  \/ handle_read_noent(io, u)
  \/ handle_read(io, u)
  \/ handle_write_refused(io, u)
  \/ handle_write(io, u)

-----------------------------------------------------------------------------
(* queue_fuse_read and read_rbytes, from one co_await to the next.         *)

\* req_read_rbytes, the first switch of queue_fuse_read, for a request of n
\* cells.  Every fixed body fits beside the header in header_buf but the one
\* of SETATTR.
BodySize(m, n) ==
  CASE m.op = "WRITE"      -> WriteIn
    [] m.op = "SETATTR"    -> WriteIn + 1
    [] m.op \in FixedBody  -> 1
    [] OTHER               -> n - InHeader

\* Where read_rbytes copies a body that does not stay in header_buf.
AddZero(m)       == m.op = "LOOKUP"
CopyTo(m, need)  == IF need + (IF AddZero(m) THEN 1 ELSE 0) < ScratchSize
                    THEN "scratch" ELSE "heap"

\* read_rbytes, up to its first co_await or to the handler.
read_rbytes(io, u, need) ==
  LET have == init_read(io) - InHeader   \* the part already in header_buf
  IN \/ /\ need = 0
        /\ Handle(io, u)
        /\ UNCHANGED <<body_at, read_done>>
     \/ /\ need > 0 /\ have = need
        /\ body_at' = [body_at EXCEPT ![io] =
                         IF AddZero(msg[u]) THEN CopyTo(msg[u], need)
                         ELSE "header"]
        /\ Handle(io, u)
        /\ UNCHANGED read_done
     \/ /\ need > 0 /\ have # need
        /\ body_at'   = [body_at EXCEPT ![io] = CopyTo(msg[u], need)]
        /\ read_done' = [read_done EXCEPT ![io] = have]
        /\ Await(io, "rbytes", BodyChain(need - have))
        /\ UNCHANGED <<reply, scratch_len>>

\* Mutant: a request without a body is taken for one that needs no handler.
Dispatch_NoBody(io, n) ==
  LET u    == fheader(io)
      need == BodySize(msg[u], n)
  IN \/ /\ need = 0
        /\ Return(io, 0)
     \/ /\ need # 0
        /\ rbytes' = [rbytes EXCEPT ![io] = n]
        /\ read_rbytes(io, u, need)

\* The header of a request of n cells is complete: on to the handler, unless
\* the size of its body is not the one its opcode calls for.
Dispatch(io, n) ==
  LET u     == fheader(io)
      need  == BodySize(msg[u], n)
      match == need = 0 \/ msg[u].op = "WRITE" \/ need = n - InHeader
  IN \/ /\ ~match
        /\ Return(io, -1)
     \/ /\ match
        /\ rbytes' = [rbytes EXCEPT ![io] = n]
        /\ read_rbytes(io, u, need)

\* run() starts a coroutine on a free slot.
queue_fuse_read(io) ==
  /\ phase = "fill" /\ pc[io] = "pool"
  /\ header_buf' = [header_buf EXCEPT ![io] = <<>>]
  /\ Await(io, "fuse_read", FuseReadChain)
  /\ UNCHANGED <<phase, kernelVars, pipe, localVars, scratch_len>>

\* handle_cqe resumes the coroutine suspended at l.
Resumed(io, l) ==
  /\ phase = "reap" /\ Completed(io) /\ pc[io] = l
  /\ UNCHANGED <<phase, kernelVars, pipe, header_buf>>

\* Mutant: a short read of the header is taken for the whole header.
ResumeFuseRead_NoLoop(io) ==
  /\ Resumed(io, "fuse_read")
  /\ \/ /\ res[io][1] < InHeader \/ res[io][2] <= 0
        /\ Return(io, -1)
     \/ /\ res[io][1] >= InHeader /\ res[io][2] > 0
        /\ Dispatch(io, res[io][1])

\* The checks of what was read, up to the next co_await.
ResumeFuseRead(io) ==
  /\ Resumed(io, "fuse_read")
  /\ LET n == res[io][1]
         k == res[io][2]
     IN \/ /\ n < InHeader \/ k <= 0
           /\ Return(io, -1)
        \/ /\ n >= InHeader /\ k > 0 /\ init_read(io) < InHeader
           /\ rbytes' = [rbytes EXCEPT ![io] = n]
           /\ Await(io, "fuse_header", HeaderChain(InHeader - init_read(io)))
           /\ UNCHANGED <<read_done, body_at, reply, scratch_len>>
        \/ /\ n >= InHeader /\ k > 0 /\ init_read(io) >= InHeader
           /\ Dispatch(io, n)

\* The loop after a short read of the header.
ResumeFuseHeader(io) ==
  /\ Resumed(io, "fuse_header")
  /\ LET k == res[io][1]
     IN \/ /\ k <= 0
           /\ Return(io, -1)
        \/ /\ k > 0 /\ init_read(io) < InHeader
           /\ Await(io, "fuse_header", HeaderChain(InHeader - init_read(io)))
           /\ UNCHANGED <<localVars, scratch_len>>
        \/ /\ k > 0 /\ init_read(io) >= InHeader
           /\ Dispatch(io, rbytes[io])

\* The loop of read_rbytes.
ResumeRbytes(io) ==
  /\ Resumed(io, "rbytes")
  /\ LET u    == fheader(io)
         need == BodySize(msg[u], rbytes[io])
         k    == res[io][1]
         done == read_done[io] + k
     IN \/ /\ k <= 0
           /\ Return(io, -1)
        \/ /\ k > 0
           /\ read_done' = [read_done EXCEPT ![io] = done]
           /\ UNCHANGED <<rbytes, body_at>>
           /\ \/ /\ done < need
                 /\ Await(io, "rbytes", BodyChain(need - done))
                 /\ UNCHANGED <<reply, scratch_len>>
              \/ /\ done >= need
                 /\ Handle(io, u)

\* Mutant: the result of the splice to the device is not looked at.
ResumeReply_Unchecked(io) ==
  /\ Resumed(io, "reply")
  /\ Return(io, IF res[io][1] # reply[io].len THEN -1 ELSE 0)

\* Mutant: the number of bytes written is returned for success.
ResumeReply_Bytes(io) ==
  /\ Resumed(io, "reply")
  /\ Return(io, res[io][2])

\* The end of send_reply, whose result queue_fuse_read returns.
ResumeReply(io) ==
  LET len == reply[io].len
      rc  == IF res[io][1] # len \/ res[io][2] # len THEN -1 ELSE 0
  IN /\ Resumed(io, "reply")
     /\ Return(io, rc)

\* The end of handle_read.
ResumeRead(io) ==
  LET r  == res[io]
      rc == IF \/ \E i \in 1..3 : r[i] < 0
               \/ r[1] < OutHeader
               \/ r[2] < ReadSize(msg[reply[io].req])
               \/ r[3] < reply[io].len
            THEN -1 ELSE 0
  IN /\ Resumed(io, "read")
     /\ Return(io, rc)

\* The end of handle_write: a failed or short splice to the backing file is
\* reported by a second reply.
ResumeWrite(io) ==
  LET u    == reply[io].req
      r    == res[io]
      size == msg[u].size
      len  == reply[io].len
      rc   == IF r[2] # len \/ r[3] # len THEN -1 ELSE 0
  IN /\ Resumed(io, "write")
     /\ \/ /\ r[1] < 0
           /\ send_scratch(io, u, TRUE, OutHeader)
           /\ UNCHANGED <<rbytes, read_done, body_at>>
        \/ /\ 0 <= r[1] /\ r[1] < size
           /\ send_scratch(io, u, FALSE, len)
           /\ UNCHANGED <<rbytes, read_done, body_at>>
        \/ /\ r[1] >= size
           /\ Return(io, rc)

-----------------------------------------------------------------------------
(* The loop of fuse_io_context::run.                                       *)

\* Mutant: the loop waits for a completion of every slot.
submit_and_wait_All ==
  /\ phase = "fill"
  /\ \A io \in Ios : Completed(io)
  /\ phase' = "reap"
  /\ UNCHANGED <<last_rc, kernelVars, slotVars>>

\* No free slot is left: submit, and block until there is a completion.
submit_and_wait ==
  /\ phase = "fill"
  /\ \A io \in Ios : pc[io] # "pool"
  /\ \E io \in Ios : Completed(io)
  /\ phase' = "reap"
  /\ UNCHANGED <<last_rc, kernelVars, slotVars>>

Resume(io) ==
  \/ ResumeFuseRead(io)
  \/ ResumeFuseHeader(io)
  \/ ResumeRbytes(io)
  \/ ResumeReply(io)
  \/ ResumeRead(io)
  \/ ResumeWrite(io)

\* Mutant: the loop goes on although a task failed.
end_batch_GoOn ==
  /\ phase = "reap"
  /\ \A io \in Ios : ~Completed(io)
  /\ phase' = "fill"
  /\ UNCHANGED <<last_rc, kernelVars, slotVars>>

\* The completion queue is drained: the loop goes on unless a task failed.
end_batch ==
  /\ phase = "reap"
  /\ \A io \in Ios : ~Completed(io)
  /\ phase' = IF last_rc # 0 THEN "exit" ELSE "fill"
  /\ UNCHANGED <<last_rc, kernelVars, slotVars>>

-----------------------------------------------------------------------------
(* The kernel: io_uring executing the head of a slot's chain.  A failed or *)
(* short step cancels the steps linked after it, unless hard-linked.       *)

Heads(io, ops) ==
  /\ phase # "exit" /\ sqes[io] # <<>>
  /\ sqes[io][1].op \in ops
  /\ UNCHANGED <<phase, last_rc, mounted, msg, pc, localVars, scratch_len>>

Post(io, rc) ==
  LET sqe    == sqes[io][1]
      broken == sqe.link = "link" /\ rc # sqe.len
      rest   == [i \in 1..(Len(sqes[io]) - 1) |-> Err]
  IN /\ sqes' = [sqes EXCEPT ![io] = IF broken THEN <<>> ELSE Tail(@)]
     /\ res'  = [res EXCEPT ![io] = @ \o <<rc>> \o (IF broken THEN rest
                                                    ELSE <<>>)]

\* A read of /dev/fuse hands out the oldest request, whole; once the file
\* system is unmounted it fails with -ENODEV.
SpliceFromFuse(io) ==
  /\ Heads(io, {"splice_from_fuse"})
  /\ \/ /\ pending # <<>>
        /\ LET u == pending[1]
           IN /\ pipe'    = [pipe EXCEPT ![io] = @ \o ReqCells(u)]
              /\ kstate'  = [kstate EXCEPT ![u] =
                               IF msg[u].op \in NoReplyOps THEN "noreply"
                               ELSE "processing"]
              /\ Post(io, ReqLen(u))
        /\ pending' = Tail(pending)
     \/ /\ ~mounted
        /\ Post(io, Err)
        /\ UNCHANGED <<pipe, kstate, pending>>
  /\ UNCHANGED header_buf

\* A read of the pipe takes what is there, up to the length asked for; the
\* pipe is O_NONBLOCK, so an empty one fails with -EAGAIN.
ReadPipe(io) ==
  LET len   == sqes[io][1].len
      whole == Least(len, Len(pipe[io]))
  IN /\ Heads(io, {"read_header", "read_body"})
     /\ \/ /\ pipe[io] = <<>>
           /\ Post(io, Err)
           /\ UNCHANGED <<pipe, header_buf>>
        \/ \E k \in 1..whole :
             /\ k = whole \/ "short_read" \in Faults
             /\ pipe' = [pipe EXCEPT ![io] = Drop(@, k)]
             /\ header_buf' =
                  IF sqes[io][1].op = "read_header"
                  THEN [header_buf EXCEPT ![io] = @ \o Take(pipe[io], k)]
                  ELSE header_buf
             /\ Post(io, k)
     /\ UNCHANGED <<pending, kstate>>

\* F_SETPIPE_SZ makes the pipe large enough for any request and reply.
WritePipe(io) ==
  LET len == sqes[io][1].len
  IN /\ Heads(io, {"write_pipe"})
     /\ pipe' = [pipe EXCEPT ![io] = @ \o ReplyCells(reply[io], len)]
     /\ Post(io, len)
     /\ UNCHANGED <<pending, kstate, header_buf>>

\* The backing file never shrinks; past FileSize the step comes up short.
SpliceFromBacking(io) ==
  LET u     == reply[io].req
      avail == IF msg[u].off < FileSize THEN FileSize - msg[u].off ELSE 0
      whole == Least(sqes[io][1].len, avail)
  IN /\ Heads(io, {"splice_from_backing"})
     /\ \/ \E k \in 0..whole :
             /\ k = whole \/ "backing_read" \in Faults
             /\ pipe' = [pipe EXCEPT ![io] = @ \o DataCells(u, k)]
             /\ Post(io, k)
        \/ /\ "backing_read" \in Faults
           /\ Post(io, Err)
           /\ UNCHANGED pipe
     /\ UNCHANGED <<pending, kstate, header_buf>>

SpliceToBacking(io) ==
  LET whole == Least(sqes[io][1].len, Len(pipe[io]))
  IN /\ Heads(io, {"splice_to_backing"})
     /\ \/ \E k \in 0..whole :
             /\ k = whole \/ "backing_write" \in Faults
             /\ pipe' = [pipe EXCEPT ![io] = Drop(@, k)]
             /\ Post(io, k)
        \/ /\ "backing_write" \in Faults
           /\ Post(io, Err)
           /\ UNCHANGED pipe
     /\ UNCHANGED <<pending, kstate, header_buf>>

\* The device accepts cells c as the reply to request u.
Accepts(c, u) ==
  /\ kstate[u] = "processing"
  /\ c # <<>>
  /\ c[1] \in {[req |-> u, part |-> "out_ok"], [req |-> u, part |-> "out_err"]}
  /\ c[1].part = "out_err" => Len(c) = OutHeader
  /\ \A i \in 2..Len(c) : c[i] \in [req : {u}, part : {"out_body", "data"}]

\* A write to /dev/fuse is one whole reply; anything else is refused and lost.
SpliceToFuse(io) ==
  LET len == sqes[io][1].len
      c   == Take(pipe[io], len)
  IN /\ Heads(io, {"splice_to_fuse"})
     /\ \/ /\ len = 0
           /\ Post(io, 0)
           /\ UNCHANGED <<pipe, kstate>>
        \/ /\ len > Len(pipe[io])
           /\ Post(io, Err)
           /\ UNCHANGED <<pipe, kstate>>
        \/ /\ 0 < len /\ len <= Len(pipe[io])
           /\ pipe' = [pipe EXCEPT ![io] = Drop(@, len)]
           /\ \/ \E u \in Reqs :
                   /\ Accepts(c, u)
                   /\ kstate' = [kstate EXCEPT ![u] = "answered"]
                   /\ Post(io, len)
              \/ /\ \A u \in Reqs : ~Accepts(c, u)
                 /\ Post(io, Err)
                 /\ UNCHANGED kstate
     /\ UNCHANGED <<pending, header_buf>>

Execute(io) ==
  \/ SpliceFromFuse(io)
  \/ ReadPipe(io)
  \/ WritePipe(io)
  \/ SpliceFromBacking(io)
  \/ SpliceToBacking(io)
  \/ SpliceToFuse(io)

-----------------------------------------------------------------------------
(* The kernel: requests made by the users of the mount.                    *)

Idle == <<phase, last_rc, slotVars>>

NoMsg == CHOOSE m \in Messages : TRUE   \* of a request not in use

KernelSend(u, m) ==
  /\ phase # "exit" /\ mounted /\ kstate[u] = "none"
  /\ pending' = Append(pending, u)
  /\ kstate'  = [kstate EXCEPT ![u] = "pending"]
  /\ msg'     = [msg EXCEPT ![u] = m]
  /\ UNCHANGED <<mounted, Idle>>

\* A coroutine is at work on the request: cells of it are in the slot's pipe or
\* in its header_buf.
Holds(io, u) ==
  /\ pc[io] # "pool"
  /\ \E c \in Cells(pipe[io]) \cup Cells(header_buf[io]) : c.req = u

\* A request that is over makes room for a new one.  Its identity is used
\* again, once no slot refers to it, to keep the model finite.
KernelRecycle(u) ==
  /\ phase # "exit" /\ kstate[u] \in {"answered", "noreply"}
  /\ \A io \in Ios : ~Holds(io, u)
  /\ kstate' = [kstate EXCEPT ![u] = "none"]
  /\ msg'    = [msg EXCEPT ![u] = NoMsg]
  /\ UNCHANGED <<mounted, pending, Idle>>

\* A forced unmount ends every request the kernel still has.
KernelUnmount ==
  /\ "unmount" \in Faults /\ phase # "exit" /\ mounted
  /\ mounted' = FALSE
  /\ pending' = <<>>
  /\ kstate'  = [u \in Reqs |->
                   IF kstate[u] \in {"pending", "processing"} THEN "aborted"
                   ELSE kstate[u]]
  /\ UNCHANGED <<msg, Idle>>

-----------------------------------------------------------------------------

Init ==
  /\ phase = "fill" /\ last_rc = 0
  /\ mounted = TRUE
  /\ pending = <<>>
  /\ kstate = [u \in Reqs |-> "none"]
  /\ msg = [u \in Reqs |-> NoMsg]
  /\ pc = [io \in Ios |-> "pool"]
  /\ sqes = [io \in Ios |-> <<>>]
  /\ res = [io \in Ios |-> <<>>]
  /\ pipe = [io \in Ios |-> <<>>]
  /\ header_buf = [io \in Ios |-> <<>>]
  /\ rbytes = [io \in Ios |-> 0]
  /\ read_done = [io \in Ios |-> 0]
  /\ body_at = [io \in Ios |-> "none"]
  /\ reply = [io \in Ios |-> NoReply]
  /\ scratch_len = [io \in Ios |-> 0]

\* run() has returned: nothing happens any more.
Returned == phase = "exit" /\ UNCHANGED vars

Next ==
  \/ \E io \in Ios : queue_fuse_read(io) \/ Resume(io) \/ Execute(io)
  \/ submit_and_wait
  \/ end_batch
  \/ \E u \in Reqs : KernelRecycle(u) \/ \E m \in Messages : KernelSend(u, m)
  \/ KernelUnmount
  \/ Returned

\* The worker thread keeps running, the completion queue is a FIFO, so that
\* every completed chain has its turn, and io_uring completes every step that
\* can complete.  Nothing obliges the users of the mount.
Fairness ==
  /\ WF_vars(submit_and_wait) /\ WF_vars(end_batch)
  /\ \A io \in Ios : /\ WF_vars(queue_fuse_read(io))
                     /\ WF_vars(Resume(io))
                     /\ WF_vars(Execute(io))

Spec     == Init /\ [][Next]_vars
FairSpec == Spec /\ Fairness

-----------------------------------------------------------------------------
(* Properties.                                                             *)

Results == Nat \cup {Err}

\* Every variable keeps the type its declaration states.
TypeOK ==
  /\ phase \in {"fill", "reap", "exit"} /\ last_rc \in {0, -1}
  /\ mounted \in BOOLEAN
  /\ pending \in Seq(Reqs)
  /\ kstate \in [Reqs -> {"none", "pending", "processing", "answered",
                          "noreply", "aborted"}]
  /\ msg \in [Reqs -> Messages]
  /\ pc \in [Ios -> Labels]
  /\ sqes \in [Ios -> Seq(SqeSet)]
  /\ res \in [Ios -> Seq(Results)]
  /\ pipe \in [Ios -> Seq(Cell)]
  /\ header_buf \in [Ios -> Seq(Cell)]
  /\ rbytes \in [Ios -> Nat] /\ read_done \in [Ios -> Nat]
  /\ body_at \in [Ios -> {"none", "header", "scratch", "heap"}]
  /\ reply \in [Ios -> Reply]
  /\ scratch_len \in [Ios -> Nat]

\* A slot goes back to fuse_ring.ios with an empty pipe, or the server is on
\* its way out: nothing left of one request is ever read as the next one.
PoolPipesEmpty ==
  last_rc = 0 => \A io \in Ios : pc[io] = "pool" => pipe[io] = <<>>

\* A handler acts on the whole header of one request, the one the kernel
\* handed to its slot: short reads have been completed, in order.
Handling == {"rbytes", "reply", "read", "write"}
HeaderWhole ==
  \A io \in Ios : pc[io] \in Handling =>
    /\ init_read(io) >= InHeader
    /\ \A i \in 1..InHeader :
         header_buf[io][i] = [req |-> fheader(io), part |-> "in_header"]

\* Every request taken from the device is in the hands of a busy slot until
\* it is answered, or the server is on its way out: no slot gives up the
\* only reference to a request the kernel still waits for.
NoOrphanRequest ==
  last_rc = 0 =>
    \A u \in Reqs : kstate[u] = "processing" => \E io \in Ios : Holds(io, u)

\* No two slots work on the same request.
OneSlotPerRequest ==
  \A u \in Reqs, i, j \in Ios : Holds(i, u) /\ Holds(j, u) => i = j

\* The kernel gets the reply to a request only from the slot whose header_buf
\* names it, as the last step of the chain its handler submitted.
Answers(u) == kstate[u] = "processing" /\ kstate'[u] = "answered"
AnsweredByHolder ==
  [][\A u \in Reqs : Answers(u) =>
       \E io \in Ios : /\ header_buf[io] # <<>> /\ fheader(io) = u
                       /\ reply[io].req = u
                       /\ Len(sqes[io]) = 1 /\ sqes'[io] = <<>>]_vars

\* A reply that reports success comes with all it promises: a READ's with the data
\* of the whole range to be served, a WRITE's with its payload in the backing file: it is
\* the one linked to the splice, never the second one of handle_write after a failure.
SuccessIsWhole ==
  [][\A u \in Reqs, io \in Ios :
       Answers(u) /\ reply[io].req = u /\ ~reply[io].err =>
         /\ msg[u].op = "READ"  => /\ reply[io].len = OutHeader + ReadSize(msg[u])
                                   /\ Len(pipe[io]) = reply[io].len
         /\ msg[u].op = "WRITE" => pc[io] = "write" /\ res[io][1] = msg[u].size]_vars

\* handle_open and handle_opendir read open_in->flags after they have written
\* the out_header to scratch_buf: the body must not be there.
OpenFlagsIntact ==
  \A io \in Ios :
    pc[io] = "reply" /\ msg[reply[io].req].op \in {"OPEN", "OPENDIR"}
      => body_at[io] = "header"

\* Where nothing fails: no fault occurs but short reads, which the code completes, and
\* the kernel's requests are of the nodes and sizes that this mount has told it of, none
\* of them a FORGET, a BATCH_FORGET or an INTERRUPT: those a kernel does send of any
\* mount, and the worker stops at each.
Proper(m) ==
  /\ m.op \notin NoReplyOps
  /\ m.op \in FixedBody => m.body = 1
  /\ m.op = "SETATTR"   => m.body = WriteIn + 1
  /\ m.op = "READ"      => m.node = 3 /\ m.off <= FileSize
  /\ m.op = "WRITE"     => m.node = 3 /\ m.body = WriteIn + m.size
Healthy == Faults \subseteq {"short_read"} /\ \A m \in Messages : Proper(m)

\* No request that takes a reply makes a worker stop.  Checked, and proved, where
\* nothing fails.
NeverFails == last_rc = 0

\* What fuse_kernel.h:381 says of FUSE_FORGET, "no reply": no handler answers
\* one.  handle_unknown does, the kernel refuses the reply, the worker stops.
NoReplyToForget ==
  \A io \in Ios : pc[io] = "reply" => msg[reply[io].req].op # "FORGET"

\* What handle_read says of a READ past the end, "Reading less": it serves no
\* more than was asked for.  The subtraction wraps for an offset past the end.
ReadsLess ==
  \A io \in Ios : pc[io] = "read" =>
    ReadSize(msg[reply[io].req]) <= msg[reply[io].req].size

\* Every request the kernel queues is taken and answered, unless the server
\* stops or the file system is unmounted.
Served ==
  \A u \in Reqs :
    kstate[u] = "pending" ~> \/ kstate[u] \in {"answered", "noreply", "aborted"}
                            \/ phase = "exit"

\* After an unmount the worker winds down.
UnmountStops == ~mounted ~> phase = "exit"

=============================================================================
