---------------------------- MODULE FuseRequestInv ----------------------------
(***************************************************************************)
(* The inductive invariant of FuseRequest: what each slot's pipe, buffers  *)
(* and completion results are at every step of every chain.  FuseRequest-  *)
(* Proofs proves it; the runs of MCFuseRequest check it first.             *)
(***************************************************************************)
EXTENDS FuseRequest

\* Every cell of c belongs to u; every one is a cell of its body.
CellsOf(c, u)   == \A i \in 1..Len(c) : c[i].req = u
BodyCells(c, u) == \A i \in 1..Len(c) : c[i] = [req |-> u, part |-> "body"]

\* header_buf and pipe together hold the message of u, in order.
Reading(io, u) ==
  /\ Len(header_buf[io]) + Len(pipe[io]) = ReqLen(u)
  /\ \A i \in 1..Len(header_buf[io]) : header_buf[io][i] = ReqCell(u, i)
  /\ \A i \in 1..Len(pipe[io]) :
       pipe[io][i] = ReqCell(u, Len(header_buf[io]) + i)

\* header_buf begins with the whole header of u.
HeaderOf(io, u) ==
  /\ init_read(io) >= InHeader
  /\ \A i \in 1..Len(header_buf[io]) : header_buf[io][i] = ReqCell(u, i)

InPool(io) ==
  /\ sqes[io] = <<>>
  /\ last_rc = 0 => pipe[io] = <<>>

InFuseRead(io) ==
  \/ /\ sqes[io] = FuseReadChain /\ res[io] = <<>>
     /\ header_buf[io] = <<>> /\ pipe[io] = <<>>
  \/ /\ sqes[io] = Tail(FuseReadChain) /\ Len(res[io]) = 1
     /\ header_buf[io] = <<>>
     /\ \/ res[io][1] = Err /\ pipe[io] = <<>>
        \/ \E u \in Reqs : Reading(io, u) /\ res[io][1] = ReqLen(u)
  \/ /\ sqes[io] = <<>> /\ Len(res[io]) = 2
     /\ Len(header_buf[io]) <= InHeader + WriteIn
     /\ \/ res[io][1] = Err /\ pipe[io] = <<>> /\ header_buf[io] = <<>>
        \/ \E u \in Reqs : Reading(io, u) /\ res[io][1] = ReqLen(u)

InFuseHeader(io, u) ==
  /\ Reading(io, u) /\ rbytes[io] = ReqLen(u)
  /\ \/ /\ init_read(io) < InHeader /\ res[io] = <<>>
        /\ sqes[io] = HeaderChain(InHeader - init_read(io))
     \/ /\ init_read(io) <= InHeader
        /\ sqes[io] = <<>> /\ Len(res[io]) = 1

InRbytes(io, u) ==
  LET need == BodySize(msg[u], rbytes[io])
      left == Len(pipe[io]) + read_done[io]
  IN /\ HeaderOf(io, u) /\ BodyCells(pipe[io], u)
     /\ rbytes[io] = ReqLen(u)
     /\ msg[u].op # "WRITE" => need = msg[u].body
     /\ read_done[io] < need
     /\ \/ /\ sqes[io] = BodyChain(need - read_done[io]) /\ res[io] = <<>>
           /\ left = msg[u].body
        \/ /\ sqes[io] = <<>> /\ Len(res[io]) = 1
           /\ res[io][1] <= need - read_done[io]
           /\ res[io][1] > 0 => left + res[io][1] = msg[u].body

\* A residue of a refused or failed WRITE may be in the pipe before the reply;
\* the kernel then refuses the reply.
InReply(io, u) ==
  LET len    == reply[io].len
      before == Len(pipe[io]) - len
  IN /\ HeaderOf(io, u) /\ reply[io].req = u
     /\ \/ /\ sqes[io] = ReplyChain(len) /\ res[io] = <<>>
           /\ BodyCells(pipe[io], u)
           /\ len = 0 => pipe[io] = <<>>
        \/ /\ sqes[io] = Tail(ReplyChain(len)) /\ res[io] = <<len>>
           /\ before >= 0
           /\ \A i \in 1..Len(pipe[io]) :
                pipe[io][i] = IF i <= before
                              THEN [req |-> u, part |-> "body"]
                              ELSE ReplyCell(reply[io], i - before)
           /\ len = 0 => pipe[io] = <<>>
        \/ /\ sqes[io] = <<>> /\ Len(res[io]) = 2
           /\ CellsOf(pipe[io], u)
           /\ res[io][1] = len /\ res[io][2] = len => pipe[io] = <<>>

InRead(io, u) ==
  LET len   == reply[io].len
      size  == ReadSize(msg[u])
      chain == ReadChain(size, len)
  IN /\ HeaderOf(io, u) /\ reply[io].req = u /\ msg[u].op = "READ"
     /\ len = (OutHeader + size) % SizeMod
     /\ CellsOf(pipe[io], u)
     /\ \/ sqes[io] = chain /\ res[io] = <<>> /\ pipe[io] = <<>>
        \/ /\ sqes[io] = Tail(chain) /\ res[io] = <<OutHeader>>
           /\ Len(pipe[io]) = OutHeader
        \/ /\ sqes[io] = Tail(Tail(chain)) /\ res[io] = <<OutHeader, size>>
           /\ len = OutHeader + size /\ Len(pipe[io]) = len
        \/ /\ sqes[io] = <<>> /\ Len(res[io]) = 3
           /\ pipe[io] = <<>> \/ res[io][3] = Err

InWrite(io, u) ==
  LET len   == reply[io].len
      size  == msg[u].size
      chain == WriteChain(size, len)
  IN /\ HeaderOf(io, u) /\ reply[io].req = u /\ msg[u].op = "WRITE"
     /\ len = OutHeader + OutBody
     /\ CellsOf(pipe[io], u)
     /\ \/ /\ sqes[io] = chain /\ res[io] = <<>>
           /\ BodyCells(pipe[io], u) /\ Len(pipe[io]) = size
        \/ /\ sqes[io] = Tail(chain) /\ res[io] = <<size>>
           /\ pipe[io] = <<>>
        \/ /\ sqes[io] = Tail(Tail(chain)) /\ res[io] = <<size, len>>
           /\ Len(pipe[io]) = len
        \/ /\ sqes[io] = <<>> /\ Len(res[io]) = 3
           /\ res[io][1] < size /\ BodyCells(pipe[io], u)
        \/ /\ sqes[io] = <<>> /\ Len(res[io]) = 3
           /\ res[io][1] = size
           /\ pipe[io] = <<>> \/ res[io][3] = Err

SlotInv(io) ==
  /\ pc[io] = "pool"        => InPool(io)
  /\ pc[io] = "fuse_read"   => InFuseRead(io)
  /\ pc[io] = "fuse_header" => \E u \in Reqs : InFuseHeader(io, u)
  /\ pc[io] = "rbytes"      => \E u \in Reqs : InRbytes(io, u)
  /\ pc[io] = "reply"       => \E u \in Reqs : InReply(io, u)
  /\ pc[io] = "read"        => \E u \in Reqs : InRead(io, u)
  /\ pc[io] = "write"       => \E u \in Reqs : InWrite(io, u)

\* The device's queue holds each pending request once, and a slot holds only
\* requests that have been taken from it.
QueueInv ==
  /\ \A i \in 1..Len(pending) : kstate[pending[i]] = "pending"
  /\ \A i, j \in 1..Len(pending) : pending[i] = pending[j] => i = j
  /\ \A io \in Ios, u \in Reqs : Holds(io, u) => kstate[u] \notin {"none", "pending"}

\* run() starts coroutines only while no task has failed.
PhaseInv == phase = "fill" => last_rc = 0

\* The inductive invariant: what every pipe, buffer and result list holds at
\* each await of queue_fuse_read and its handlers.
IInv ==
  /\ TypeOK
  /\ PhaseInv
  /\ QueueInv
  /\ OneSlotPerRequest
  /\ \A io \in Ios : SlotInv(io)
=============================================================================
