# fuseuring: verification project

fuseuring exports one file as `volume` on a FUSE mount. Each worker thread owns
an io_uring and a set of request slots; a slot is a pipe, two buffers and a
session descriptor of the fuse device. A C++20 coroutine per slot splices a
request from the device into the pipe, reads the header and body out of it, runs
the handler of the opcode, and splices the reply (with the data of a READ taken
from the backing file straight through the pipe) back to the device.

This directory holds TLA+ modules of that program, TLC configurations that check
them on small instances, and TLAPS proofs that hold for every instance. Source
references are to the repository's `fuseuring_main.cpp`, `fuse_io_context.cpp`,
`fuse_io_context.h` and `fuse_kernel.h`.

    tlc -workers 2 -config request_base.cfg MCFuseRequest
    tlapm FuseRequestProofs.tla

`PROJECT.json` lists every run with its module and configuration, the lines each
definition models, and the theorems.

## Inventory

| component | state it keeps | operations | interacts with | hard part |
|---|---|---|---|---|
| request pipeline (`queue_fuse_read`, `read_rbytes`, `send_reply`, `handle_*`) | a slot's pipe, `header_buf`, `scratch_buf`, locals of the coroutine | one per opcode; each is cut in pieces by its `co_await`s | submits chains of SQEs, is resumed by completions | short and failed steps of a chain; a slot and its pipe are reused by the next request |
| loop and rings (`fuse_io_context`) | SQ, CQ, `last_rc`, free slots | `run`, `get_sqe`, `fuseuring_submit`, `fuseuring_handle_cqe` | kernel side of io_uring; resumes coroutines | bounded queues, EBUSY, completion order, failures ending the loop |
| tasks (`io_uring_task`, `io_uring_task_discard`) | coroutine frame, state of its result | await, resume, finish, detach | nested handlers, the loop | who resumes, who frees the frame, in each order |
| frame cache (`malloc_cache`) | thread-local free list | allocate, free, clear | promise `new`/`delete` | a block is reused while the native stack still mentions it |
| handshake (`fuseuring_main`) | init buffers, descriptor | mount, INIT, negotiation, reply | kernel | a second INIT, unset fields |
| volume | `backing_f_size`, the file | attributes, lookup, directory, read, write | backing file, page cache of the kernel | the size is cached at start-up |
| set-up and teardown (`fuseuring_run`) | descriptors, buffers, registrations | create slots, register, run, release | loop | failure half way, release with work in flight |
| threads (`fuseuring_main`) | `thread_rc`, shared ring descriptor | start, join | workers on one connection | one worker stops, the others go on |
| command line (`main`) | none | parse, open file | | straight-line |

What makes each correct:

* **pipeline**: a reply belongs to the request its slot took; a success reply
  carries all it promises; nothing of one request is ever read as part of the
  next; no request is dropped; no request that takes a reply stops the worker.
* **loop and rings**: the entries of one chain are submitted together; no
  completion is lost; the loop never waits for room that only it can make (true of
  most sizes of the rings, see *Observations*); a failed task ends the loop.
* **tasks, frame cache**: a frame is freed once, after its last use; an awaiter
  is resumed once, after the result is there; no two frames share an allocation.
* **handshake**: a reply matches the INIT it answers; no unset field is sent.
* **volume**: replies agree with each other and with the file.
* **set-up, threads**: a slot uses its own pipe and session; nobody closes
  another's descriptor; the program ends when the mount does.

`PROJECT.json` lists the hazards, each at its line, with the properties that
cover it.

## Modules

| module | contents |
|---|---|
| `FuseSession` | abstract: what a worker promises to the kernel it serves |
| `FuseRequest` | the request pipeline over the loop of one worker |
| `FuseRequestInv` | its inductive invariant, by parts |
| `FuseRequestRefine` | the refinement mapping from `FuseRequest` to `FuseSession` |
| `UringLoop` | `run()`, `get_sqe` and the two bounded rings |
| `IoUringTask` | coroutines, their frames and the list of free frames |
| `FuseInit` | the handshake of `fuseuring_main` with the kernel |
| `FuseVolume` | what all workers answer about the one file |
| `FuseuringWorkers` | start, set-up, teardown and join of the workers |
| `FuseSessionProofs`, `FuseRequestProofs`, `FuseRequestRefineProofs`, `UringLoopProofs`, `IoUringTaskProofs`, `FuseInitProofs`, `FuseVolumeProofs`, `FuseuringWorkersProofs` | theorems about the module in the name |
| `MC*` | constants of a module for TLC |

How they fit together:

* `FuseRequest` is the centre. It composes the handlers with the loop of `run()`
  and with io_uring and the fuse device as the coroutines see them, and is shown
  to implement `FuseSession`.
* `UringLoop` opens up what `FuseRequest` takes for granted about io_uring: that
  a chain is submitted in one piece, that its results arrive at the coroutine
  that awaits it, once and all together, that there is room for them. Its
  properties `ChainTogether`, `PeekHolds`, `Accounted` and `WaitNeverBusy` are the
  assumptions under which a chain is one `sqes[io]` in `FuseRequest`.
* `IoUringTask` does the same for the language: that a handler called and awaited
  in C++ runs, returns its result and continues its caller, as the
  straight-line actions of `FuseRequest` have it.
* `FuseVolume` fills in the contents that `FuseRequest` leaves out, for all
  workers at once. Its `Take` clamps a READ as `ReadSize` of `FuseRequest` does.
* `FuseInit` ends where `FuseuringWorkers` begins (`run`, `start`), and a worker of
  `FuseuringWorkers` that serves is one `FuseRequest`. `UnmountStops` of
  `FuseRequest` is the fairness `FuseuringWorkers` assumes of `run_returns`.

They were written in the order of importance: pipeline, handshake, abstract
service and refinement, rings, tasks, volume, workers. What is left is listed at
the end, under *Open*.

## FuseRequest

### State and actions

| model | code |
|---|---|
| `pc[io]`, `sqes[io]`, `res[io]` | the `co_await` a slot's coroutine is suspended at, what is left of the chain it submitted, the results so far (`IoUringAwaiter`) |
| `pipe[io]` | the slot's pipe, a FIFO of cells |
| `header_buf[io]` | what has been read into `header_buf` |
| `rbytes`, `read_done`, `body_at`, `reply`, `scratch_len` | locals of the coroutine, the buffer the body is in, the `out_header` being sent, the `len` field lying in `scratch_buf` |
| `phase`, `last_rc` | filling, reaping or out of the loop of `run()`; `fuse_io_context::last_rc` |
| `pending`, `kstate`, `msg`, `mounted` | the kernel's side of the fuse connection |

An action is one stretch of coroutine code between two `co_await`s, from the
completion that resumes it to the next chain or to the `co_return`, handler
included, with everything it changes; or one step of the kernel on the head of a
submitted chain; or one step of the kernel's fuse client.

| action | code |
|---|---|
| `queue_fuse_read` | `run()` starts a coroutine on a free slot; it submits the splice and the hard-linked read |
| `ResumeFuseRead`, `ResumeFuseHeader` | the checks on `rbytes`, `init_read`, the loop after a short header, both switches |
| `ResumeRbytes` | the loop of `read_rbytes`, then the handler |
| `ResumeReply`, `ResumeRead`, `ResumeWrite` | the checks on the results after a reply's chain; the second reply of a failed write |
| `submit_and_wait`, `end_batch` | the loop of `run()`, the test of `last_rc` |
| `SpliceFromFuse`, `ReadPipe`, `WritePipe`, `SpliceFromBacking`, `SpliceToBacking`, `SpliceToFuse` | io_uring executing a step (external), with links and hard links |
| `KernelSend`, `KernelRecycle`, `KernelUnmount` | the kernel's fuse client (external) |

### What is abstracted

* Bytes are cells, each tagged with its request and its place in a message. One
  cell stands for a fixed run of bytes: headers and bodies are one to three
  cells, so a short read can fall inside the header and inside the body. The
  cells never look alike unless the bytes are the same part of the same message,
  so a mix-up is seen.
* Attributes, names and file contents are left to `FuseVolume`; a READ's data
  is told apart only by the request it was read for.
* A chain is open to the kernel as soon as the coroutine awaits it. The code
  submits it at the next `io_uring_submit`, at the latest when the loop blocks:
  the model allows every order the code does and some in which the kernel is
  earlier. Failing `get_sqe` and full rings are `UringLoop`'s.
* Completed chains are resumed in any order. In the code it is the order of
  their last completions. A completion posted during a batch is part of that
  batch: `io_uring_for_each_cqe` reads the live tail.
* The opcodes without a case in the switch all reach `handle_unknown`, so they differ
  only in what the kernel makes of the reply. `OTHER` stands for those it waits for;
  `NoReplyOps` are the three whose reply it refuses. Nobody waits for an answer to
  a FORGET or a BATCH_FORGET. An INTERRUPT may be answered, but only through the
  session that holds the interrupted request, and a session (each slot clones its own)
  holds one request at a time: it is always another that reads the INTERRUPT.
  NOTIFY_REPLY answers a notification the program never sends, DESTROY is
  sent for mounts of block devices only, and the INITs are over before (`FuseInit`).
* The uint32_t arithmetic of sizes is modulo `SizeMod`.
* The kernel's refusal of a reply (`Accepts`) is that of the fuse device: no
  request of that `unique` is waiting, a length that disagrees with the header,
  a header that carries an error and a body.
* The identity of a request that is over is used again when no slot holds it;
  this only keeps the model finite.

### Runs

| run | shows | instance |
|---|---|---|
| `request_base` | with every message of a healthy mount that takes a reply, and nothing failing: `NoOrphanRequest`, `OpenFlagsIntact`, `NeverFails` (and `TypeOK`) | 2 slots, 2 requests, 23 messages: each opcode, each READ and WRITE of a file of 2 cells; 610,182 states |
| `request_faults` | with short reads, failing or short backing I/O, unmount, an INTERRUPT, and messages that are refused or disagree with themselves: `IInv`, `PoolPipesEmpty`, `HeaderWhole`, `OneSlotPerRequest`, `AnsweredByHolder`, `SuccessIsWhole`, `RefinesSession` | 2 slots, 2 requests, 8 messages; 638,161 states |
| `request_live` | `Served`: every pending request is answered unless the worker stops or the mount goes; `UnmountStops` | 2 slots, 2 requests, one message for each shape of chain, unmount; 123,627 states |
| `request_forget` | the code answers FUSE_FORGET, and FUSE_BATCH_FORGET as well (finding) | expected violation |
| `request_past_end` | the code serves a READ past the end a wrapped size (finding) | expected violation |

Two slots and two requests are enough for one slot to be reused while the other
is at any point of its work, for a request to be taken by either, and for cells
of one to be met by the other; more slots add no new pair. `InHeader = 2`,
`WriteIn = 1` let a read stop inside the header and let the first read take the
header and one cell of the body; `ScratchSize = 4` puts a body of four cells on
the heap and a shorter one in `scratch_buf`; `FileSize = 2` and sizes up to 2
give a READ inside, at and across the end. `SizeMod = 8` is above every honest
size, as 2^32 is (`max_pages`).

`NoOrphanRequest` is checked only without faults. A message a real kernel does
not send of this mount, a READ of another node, is in `request_faults`: there
`out_header->len` is whatever `scratch_buf` held (line 379), and if that is 0
the empty reply succeeds and the request is never answered. This is why
`request_faults` does not state it, why a length of 0 is part of `InReply`, and
why `FuseSession` has `excused` requests. With faults and without that message it
is proved (`NoOrphans`).

`OpenFlagsIntact` holds only as long as no read of a pipe comes up short. If one
does, the body of an OPEN goes to `scratch_buf`, over which the handler writes its
`out_header` before it reads `open_in->flags`; the reply then shows the flags
that header makes. Reads of a pipe that holds enough are not short on Linux, so
this is no finding; the theorem `OpenFlags` names the assumption.

### Fairness

`Served` and `UnmountStops` use weak fairness of each slot's resumption and
start, of the loop's steps, and of io_uring's steps on each slot. The code
justifies it: one thread runs the loop and does nothing else; the completion
queue is a FIFO, drained whole in each batch; io_uring completes a step that can
complete. Nothing is assumed of the users: no fairness on `KernelSend`,
`KernelRecycle` or `KernelUnmount`, so a splice from the device may wait for
ever when nobody sends.

## FuseSession and the refinement

`FuseSession` says what the kernel may rely on, in six variables and without
pipes, chains or buffers. Requests wait in a queue; a slot takes the oldest
(`Take`); its reply reaches the kernel (`Answer`); the slot is given back
(`Release`) only if the kernel does not wait for that request any more or the
worker is about to stop. From it follows `NothingLost`: a request the kernel waits
for is in some slot's hands, or the worker has failed.

`FuseRequestRefine` maps to it: `queue` is the device's queue, `running` and
`failed` are the loop's phase and `last_rc`, and `work[io]` is the request whose
cells are in the slot's `header_buf` or pipe, `NoReq` for a free slot. So a `Take`
is the splice from the device, an `Answer` the splice back, and a `Release` the
`co_return` of `queue_fuse_read`; everything between is a stutter.
`RefinesSession` is checked in `request_faults` and proved for every instance.

## UringLoop

| model | code |
|---|---|
| `ring` | the slots of a worker and the sizes of its queues; which chains and which faults its run has |
| `where[<<io, k>>]` | where step k of the slot's chain is: submission queue, kernel, completion queue, or kept aside by the kernel because that is full |
| `cur` | the coroutine that is queueing its chain, and at which of its `get_sqe` calls it is |
| `tocomplete` | `IoUringAwaiterGlobalRes::tocomplete` |
| `count` | completions of this batch, reaped but not given back by `io_uring_cq_advance` |
| `stray` | entries that `queue_fuse_read` took and left unfilled |
| `phase`, `last_rc`, `ring_submit` | of `run()` |

Each call of `get_sqe` is a step: with room, without (it submits and looks again),
with EBUSY, with another error, both with `peek` (first entry of a chain) and
without. When the first `get_sqe` of `queue_fuse_read` fails, the second is called all
the same (`get_sqe_peek_fail`, `get_sqe_peek_fail_submit`). `fuseuring_submit` has its three outcomes, `handle_cqe` one completion,
`cq_advance` the end of a batch. A submission that executes a stray entry, or a
coroutine that uses a null entry, goes to `phase = "undefined"`, where nothing
more is claimed.

| run | shows | instance |
|---|---|---|
| `uring_loop` | `ChainTogether`, `PeekHolds`: no submission comes between the entries of a chain, and it never runs out of room half way; `Accounted`: a coroutine is resumed when nothing of its chain is left anywhere; `WaitNeverBusy`: the loop does not meet EBUSY when it goes to wait; `BusyForGood`: a `get_sqe` that meets EBUSY stays there; `FailureStops`: a failed task ends the loop | 2 slots with rings in the program's proportion (4 and 8) and failing tasks; 2 slots with rings of 3 and all faults; 3 slots with rings of 3; 49,319 states |

A ring of 3 is the smallest that takes a chain. It reaches every branch of
`get_sqe` and of `fuseuring_submit`, overflow and EBUSY included; the first
instance is the proportion `fuseuring_run` sets up for many slots, on which
`FailureStops` and `WaitNeverBusy` are stated (`RunSizes`).

`BusyForGood` is about the wait of `get_sqe` inside the reaping loop: the kernel refuses
submissions until the completion queue has room, `io_uring_cq_advance` makes it at the
end of that loop, and `get_sqe` is called from within. In the run the
instances with rings of 3 meet it. Whether it is met with the sizes of
`fuseuring_run` depends on the number of slots, and two or three of them are far too few to
tell: see `GetSqeMeetsNoEbusy` under *Proofs* for the sizes that are safe, and *Observations*
for those that are not.

Fairness: the worker thread runs, and the kernel completes each step that has
been submitted except a read of the device, which may wait for ever.

## IoUringTask

| model | code |
|---|---|
| `frame[b]` | the coroutine frame in a block: its promise's `awaiter` and `res_state`, where the coroutine is, the `io_uring_task` it holds |
| `cache` | the list at `malloc_cache_head` |
| `stack` | the native stack above `run()`: who runs, who is in `final_suspend` |
| `discard` | the `io_uring_task_discard` in `run()` |
| `ios`, `failed`, `phase` | free slots, `last_rc`, where `run()` is |

The coroutines are those of the program with the calls their source has
(`queue_read_set_rc` calls `queue_fuse_read`, that calls `read_rbytes` and a handler,
that calls `send_*`); each may return early. `ReturnToAwaiter`, `ReturnToCaller` and
`ReturnDetached` are the branches of `final_suspend`; `TakeResult` is
`await_resume` with the end of the `io_uring_task`; `Discard` that of the discarded
task.

| run | shows | instance |
|---|---|---|
| `task_frames` | `CacheClean`, `NoDangling`: no frame is freed twice or used after it is freed, though `final_suspend` outlives the frame it is of; `ResultThere`, `AwaiterWaits`: an awaiter is resumed once, by the coroutine it waits for, when its result is there; `NoLeak`: between two steps of the loop there are the frames of the slots in use and no others; `StackBounded` | one slot with every coroutine, one of them too large for the cache; two slots with three coroutines; 6 blocks; 1,111 states |

One slot has at most five nested frames, which six blocks hold; two slots with
three coroutines each exchange blocks through the list in every order. Frames
that are still suspended when `run()` returns are not freed: the code leaks them
at exit, and `NoLeak` speaks of the loop only.

## FuseInit

One action per step of `fuseuring_main` up to the start of the workers:
`mount_fuse` (umount, stat, open, mount), `read_init`, `check_init`,
`write_version`, `read_init_again`, `check_flags`, `write_reply`; each may
return its error code. `init_buf` and `init_out` are the two messages; `limits`
says whether the fields after the version (`max_readahead`, `max_write` and the
rest) have been set, so that a reply with unset fields is told apart. The kernel
follows the negotiation that `fuse_kernel.h:150-165` describes, and may abort
the connection at any step. The workers (`run`) and the end of the program
(`exit`) are the last states.

| run | shows | instance |
|---|---|---|
| `init_base` | `RunsOnGranted`: the workers start only on a connection whose kernel granted what they need; `UpByWholeReply`: no reply with unset fields completes the handshake; `HandshakeInv`; `Decides`: the handshake comes to an end | kernels of major version 6, 7, 8; every set of four capabilities, two required; INITs of the expected and another length; 2,464 states |
| `init_new` | the reply after a second INIT carries the `unique` of the first (finding) | expected violation |

Three versions are all the code tells apart, and two INITs are all it reads.
`Decides` uses weak fairness of the program's steps, which no other process can
hold up, and of the new INIT of a kernel that fell back.

## FuseVolume

| model | code |
|---|---|
| `file` | the size of the backing file |
| `backing_f_size[w]` | what worker w found with `fstat` when it started |
| `call[c]` | a request a worker has taken; a READ with its size clamped |
| `dir` | a user who lists the directory: the next offset, the names so far |

`attr`, `handle_lookup`, `add_dir` and `handle_readdir` are operators, with byte
offsets where packing matters; `Parsed` is the kernel's reading of a READDIR reply.
`ReadSplice` and `ReadReply` are two steps, so that other workers' WRITEs come
between the clamp, the splice and the reply.

| run | shows | instance |
|---|---|---|
| `volume` | `ServedWhole`: what a READ promises stays in the file until it is answered; `ListedOnce`: each name once and in order, and an end; `LookupAgrees`: LOOKUP and GETATTR agree, on a size that is there | 2 workers, 2 calls, an old file smaller or larger than the given size; sizes to 3; 18,749 states |
| `volume_trunc` | an OPEN with O_TRUNC leaves the data (finding) | expected violation |

Two workers are enough to cache two different sizes, and two calls for a WRITE to
come between the steps of a READ.

## FuseuringWorkers

| model | code |
|---|---|
| `cmd` | the numbers on the command line |
| `table` | what each descriptor number stands for; the kernel gives out the lowest free one |
| `at`, `rc`, `ring_fd`, `fixed_fds`, `pipe_fds`, `ios` | each worker's place in `fuseuring_run` and its locals |
| `main_at`, `thread_rc`, `uring_fd` | `fuseuring_main`; the number through which workers attach to worker 0's ring |

`setup_ring`, `create_pipe`, `clone_fuse_fd` and `register` are the set-up, each with
every return it has; `run_returns` the end of service; `queue_exit` and `close_pipes`
the teardown, one `close` a step. `call_run` is `n_threads <= 1`;
`queue_init`, `create` and `join` the other branch.

| run | shows | instance |
|---|---|---|
| `workers` | `SlotWiring`: the indices a slot uses are those of its own pipe and session; `DescriptorsKept`: no worker closes another's descriptor, and one that has served leaves its sessions open and nothing else; `UnmountEnds`: an unmount ends the program | one worker with two slots, two workers with one; 14 descriptor numbers; 16,750 states |

Two slots show an index that is off by a slot, two workers a number that is closed
and given out again. Fourteen numbers are one more than either command line needs,
so no step is held up for want of one.

Fairness: every thread runs, and `run()` returns once the mount is gone. Without an
unmount nothing makes a worker return: one that has stopped leaves `main` waiting
for the others (see *Observations*).

## Proofs

Everything below holds for all values of the constants under the named assumption
on them (`ConstAssumption`, `RingAssumption`, `TaskAssumption`,
`VolumeAssumption`, `WorkersAssumption`); assumptions beyond these are part of the
theorem. Every invariant and every action property that a run checks is proved.

| module | theorems |
|---|---|
| `FuseRequestProofs` | `Invariance` (`IInv`), `TypeCorrect`, `PipesEmpty`, `HeadersWhole`, `OneSlot`, `AnswersGenuine` (action property `AnsweredByHolder`) |
| `FuseRequestRefineProofs` | `ReplyInvariance` (`RInv`), `Refinement` (`RefinesSession`), `NoneLost`; `NoOrphans`, assuming that a READ is always of the file's node; `AnswerInvariance` (`AInv`), `SuccessWhole` (action property `SuccessIsWhole`); `OpenFlags` (`OpenFlagsIntact`), assuming no short reads; `NothingGoesWrong` (`WInv`), `WorkersNeverFail` (`NeverFails`), both assuming `Healthy` |
| `FuseSessionProofs` | `SessionCorrect`: the abstract service keeps `SessionInv`, assuming `NoReq` is not a request |
| `UringLoopProofs` | `UringInvariance` (`UInv`), `UringTypes`, `StepsAccounted`, `PeekSuffices`, `ChainsTogether`, `WaitsWithRoom` (`WaitNeverBusy`); `GetSqeMeetsNoEbusy` (`BInv`, `GetSqeNeverBusy`), for rings with five entries for two slots (`Ample`); `EbusyIsForGood` (action property `BusyForGood`) |
| `IoUringTaskProofs` | `TaskInvariance` (`TInv`), `TypeCorrect`, `CacheIsClean`, `NothingDangles`, `ResultIsThere`, `AwaitersWait`, `NothingLeaks`, `StackIsBounded` |
| `FuseInitProofs` | `HandshakeInvariance`, `HandshakeTypes`, `WorkersGranted`, `WholeReply` |
| `FuseVolumeProofs` | `SizesHold` (`VInv`), `ReadsServedWhole`, `LookupsAgree`; `ListingHolds` (`DirInv`), `DirectoryListed` (`ListedOnce`); `TypeCorrect` |
| `FuseuringWorkersProofs` | `WorkersInvariance` (`WInv`), `WorkersTypes`, `SlotsWired`, `NothingElseClosed` |

The arguments:

* **IInv.** None of the safety invariants of `FuseRequest` is inductive.
  `PoolPipesEmpty` says that a slot returned without a failure has an empty pipe,
  and whether a pipe is empty when a chain ends depends on each step before: so
  `IInv` says for each await what the pipe, the buffer and the results are at each
  point of its chain (`InFuseRead` to `InWrite`): that header and pipe together are
  the message in order (`Reading`), that what remains after the body is the payload
  of a WRITE, and that a chain whose results are all good has emptied the pipe.
  `OneSlotPerRequest` needs `QueueInv`: a pending request is queued once and held by
  no slot. `AnsweredByHolder` follows because what the device accepts begins with
  a cell of the `out_header`, and only the chain of the slot that `IInv` says holds
  the request has put one there. The proof has one lemma per action
  (`StepFuseRead` to `StepKernelUnmount`), and under each the parts of `IInv` it can
  disturb; `HandleStep` covers all handlers, `SlotStable` and `QueueStable` carry
  the slots a step leaves alone.
* **Refinement.** A `Release` without a failure must come when the kernel does not
  wait for the request. `RInv` adds to `IInv` that a chain without an error in its
  last step has had its reply accepted, which is what the handlers' checks look
  at. Each action is then shown to be a step of `FuseSession` or a stutter.
  `NoneLost` and `NoOrphans` bring `NothingLost` of the abstract module, proved
  there in a page, down through the mapping.
* **AInv.** A WRITE whose splice to the file was short is answered by a second
  reply that reports success for the bytes written. `SuccessIsWhole` needs that
  the kernel never takes it: `AnswerInv` says that there is a rest of the payload
  in front of it, so that what the device is given does not begin with a header.
* **WInv of the pipeline.** That no task fails where nothing else does (`Healthy`)
  rests on every check of every handler. `WellInv` says for each await that each
  step done of its chain has done all it was asked for, what that has left in the
  pipe, so that the next step finds it there, and that the kernel waits for the
  request of each slot that has more to do, which is why it takes the reply. A
  READ's splice gets its whole size because the size is clamped to the file
  (`ProperSize`). `Healthy` allows short reads of the pipe, which `read_rbytes`
  completes. Of the requests it asks that bodies are as long as their opcode has
  them, that a READ or WRITE is of the file's node and that no READ begins past the
  end, and that none is a FORGET, a BATCH_FORGET or an INTERRUPT. Those and that READ are
  left out because the code does stop on the first three, which a kernel sends of any
  mount, and can on the last (see *Findings*): `NeverFails` is not a promise that a
  mount in use keeps its workers. `RealAreProper` of `MCFuseRequest` has TLC
  evaluate that the messages of `request_base` are such. The run has no faults; the
  theorem has short reads in any combination.
* **UInv** counts: the entries of a slot in the queues and the kernel are those
  its awaiter still waits for, those in a queue that is being filled are the first
  `cur.k - 1`, and no slot has more than its chain. `WaitNeverBusy` is the sum over
  the slots: when the loop goes to wait all are at `fuse_read` or one of the
  further chains, at most three completions each, and the completion queue has
  four for each.
* **BInv** bounds what one batch of completions can take before `cq_advance`, in
  rings with `5 * slots <= 2 * sq`. `get_sqe` is out of room only when the submission
  queue is full, and a slot has more than two entries there only if its chain is long
  (READ, WRITE, three steps). So at least `sq + 1 - 2 * slots` slots have one
  (`NoRoomLong`). The submission spends all these but the one that is calling: what a
  slot queues after its READ or WRITE in the same batch is at most a reply, of two
  steps (`Spent`). A second submission in the batch would need as many long slots
  again among the rest, which are too few (`Batch`). So there is at most one. It
  finds at most three entries of each slot outside the submission queue
  (`Taken`), and the completion queue has room for those.
* **TInv** says who has whom. A frame that is not a `queue_read_set_rc`'s is the task of
  exactly one other, and where that one is in its code tells what the promise holds
  (`Linked`, `Owners`, `Promises`). `Stacked` is the shape of the native stack: on top the
  coroutines that run, each called by the one below it and deeper in the order of
  calls (`Level`), under them only `final_suspend`s. Each of those has resumed the
  awaiter above it, so the nesting of calls alone does not bound the stack. `Depths`
  does: what is on the stack up to a coroutine is at most its level until it is
  resumed from a call, and at most what its awaiters leave room for once it is
  awaited. `NoLeak` counts: the `queue_read_set_rc`s whose
  `queue_fuse_read` has not finished (`Holding`) are as many as slots in use, and with
  an empty stack there are no others.
* **FuseInit's** invariant must carry, from the read on, that the INIT in
  `init_buf` is the one the kernel waits for, and that the version was found equal.
* **VInv** is that no worker's cached size exceeds the file, and that a clamped
  READ within it lies in the file.
* **DirInv** is that a listing has no name or all three. `Parsed` of a READDIR's reply
  is a recursive function. That there is one is shown by unfolding its equation as
  often as entries fit in such a reply (`StepFixed`), and its value by unfolding it
  again. No induction is needed, because the entries are constants of the program.
* **WInv of FuseuringWorkers** says for each worker which descriptors it has
  opened, in the order in which it registered them, and that those it has still to
  close are its own.
  `WorkersAssumption` fixes no number of workers, slots or descriptors.

Only model-checked is liveness: `Served`, `UnmountStops`, `Decides`, `FailureStops`
and `UnmountEnds`. TLAPS does not reason about fairness and ENABLED.

## Findings

* `request_forget`: FUSE_FORGET falls to the `default` of the switch; its
  -ENOSYS reply is refused by the kernel and the worker, hence the mount, stops.
  `fuse_kernel.h:381` says "no reply". FUSE_BATCH_FORGET and FUSE_INTERRUPT go the same
  way (`NoReplyOps`).
* `request_past_end`: `fuseuring_main.cpp:384` subtracts an offset past the end
  from the file size in a `uint32_t`. The kernel can send such a READ when the
  file was extended through the mount, because `backing_f_size` is never
  updated.
* `init_new`: `fuseuring_main.cpp:971` sets the reply's `unique` from the first
  INIT and keeps it after reading the second, so a kernel with a larger major
  version refuses the reply. `fuse_kernel.h:156-159` describes the exchange of
  two INITs that the code starts.
* `volume_trunc`: the handshake asks for FUSE_ATOMIC_O_TRUNC
  (`fuseuring_main.cpp:1014`), which says that the file system
  "handles the O_TRUNC open flag" (`fuse_kernel.h:254`), and `handle_open` does not.

## Observations

Met while modelling; no document or comment claims the opposite, so no run states
them as findings.

* A failed or short backing write leaves its payload in the pipe in front of the
  second reply, so the kernel refuses it and the worker stops instead of reporting
  the error (`InReply`, `AnswerInv`).
* `get_sqe` with `peek` tries again on EBUSY without reaping. Called from the batch
  that has reaped but not yet advanced the completion queue, it waits for room
  that only its caller can make, and the worker hangs (`BusyForGood`). This can
  happen with sizes of `fuseuring_run`: TLC, given the sequence of steps, reaches it with 64
  slots on rings of 128 and 256 entries, and in small with 16 slots on 32 and 64. There, one
  batch has the short splice of a WRITE and 15 `fuse_read`s, 33 entries. The failed write
  goes on to its second reply and ten of the requests are WRITEs; these chains fill the
  submission queue, and the next `get_sqe` submits its 32 entries. They all complete
  during the batch, which makes one completion too many. The chains of the other requests
  and of those completed fill the submission queue again, and the next `get_sqe` meets EBUSY.
  It takes a batch as long as the whole completion queue and a failed write.
  `GetSqeMeetsNoEbusy` excludes it up to 51 slots with the 128 entries that
  `max(100, 2*max_fuse_ios)` comes to, and for `200 5000 1` of `readme.md:143` (512 entries
  for 200 slots, 16384 for 5000). It does not cover the last fifth below each
  power of two.
* `queue_fuse_read` that fails in its first `get_sqe` gives its slot back at once, and
  `while(!fuse_ring.ios.empty())` (`fuse_io_context.cpp:83`) starts it again; as long as
  submissions keep failing the loop never comes to its test of `last_rc`. This is
  why `FailureStops` is stated without failing submissions.
* `get_sqe` without `peek` takes EBUSY for a failure. Its callers at
  `fuseuring_main.cpp:727` and `:136` do not look at the result; `PeekHolds` covers
  the second, not the first. `queue_fuse_read` that fails in its first `get_sqe` only
  may leave the second entry unfilled in the ring.
* With one thread `fuseuring_run` gets `max_background` as its number of slots
  (`fuseuring_main.cpp:1034`), not `max_fuse_ios` as the usage of `main.cpp:23` has it.
* `main.cpp:21` tests for fewer than six arguments and reads the seventh.
* A worker that stops alone leaves the program running: `join` waits for the others,
  and the stopped worker's sessions stay open, so that requests it had taken are
  never answered or aborted. `fuseuring_run` never returns 0.
* A failed set-up returns past the teardown (`WInv` of `FuseuringWorkersProofs` counts what stays open), and
  workers attach to worker 0's ring by a number that may be closed by then, in which
  case they fail to start (`setup_ring`).
* SETATTR succeeds without any effect; attributes do not follow a WRITE past the
  end, and workers that started at different times show different sizes.
* The inode numbers in a directory listing are not those of GETATTR; a READDIR from
  any offset but 0 is empty, so a listing that does not fit one buffer loses
  entries.
* `operator delete` of a large frame (`fuse_io_context.h:293`) deletes the right
  operand of a comma expression; the size is not used.

## Not modelled

* `main.cpp`: the parsing of arguments and the process limits have no state. What it
  hands over, and its `close` at the end, are in `Init` of `FuseVolume` and in
  `FuseuringWorkers`.
* `fuse_kernel.h` is the kernel's protocol header; its opcodes, capabilities and
  layouts are modelled as the code uses them.
* Build files and `bench.sh` have no run-time behaviour.
* Mode, time and link fields of attributes are constants. The slices of
  `header_buf` and `scratch_buf` are numbered by the slot.
* A worker's memory after the end of `run()`, with requests in flight.

## Open

* Between 51 and 64 slots on 128 and 256 entries, from how many on a batch can fill the
  completion queue (`GetSqeNeverBusy`): the proof reaches 51, by hand we find a batch from about
  61.
