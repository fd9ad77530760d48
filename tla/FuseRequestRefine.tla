-------------------------- MODULE FuseRequestRefine --------------------------
(***************************************************************************)
(* FuseRequest implements FuseSession: a slot works on the request whose   *)
(* cells are in its pipe or header_buf, from the splice that takes it from *)
(* the device to the end of its coroutine.                                 *)
(***************************************************************************)
EXTENDS FuseRequestInv

\* The request a slot works on.
work == [io \in Ios |->
           IF pc[io] = "pool" THEN NoReq
           ELSE IF header_buf[io] # <<>> THEN fheader(io)
           ELSE IF pipe[io] # <<>> THEN pipe[io][1].req
           ELSE NoReq]

\* A READ of another node than the file's is answered with a len that handle_read does
\* not set: nothing comes out of the pipe, and send_reply finds that in order.
excused == {u \in Reqs : msg[u].op = "READ" /\ msg[u].node # 3}

Session == INSTANCE FuseSession
             WITH Slots <- Ios, queue <- pending, running <- phase # "exit",
                  failed <- last_rc # 0

\* What the refinement needs beside IInv: only a READ of another node sends a reply
\* without a length, and a coroutine that finds no error in the last step of its chain
\* has had its reply accepted, or is excused.
Sent(io) ==
  /\ pc[io] \in {"reply", "read", "write"} /\ sqes[io] = <<>>
  /\ res[io][Len(res[io])] # Err

ReplyInv(io) ==
  /\ pc[io] = "reply" /\ reply[io].len = 0 => reply[io].req \in excused
  /\ Sent(io) => Session!Over(reply[io].req)

RInv == IInv /\ \A io \in Ios : ReplyInv(io)

\* The pipeline does nothing a worker may not do: no step of any handler, chain or
\* short read drops a request, takes one twice or answers for another slot.
RefinesSession == Session!Spec
=============================================================================
