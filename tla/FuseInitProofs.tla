---------------------------- MODULE FuseInitProofs ----------------------------
(***************************************************************************)
(* What the handshake of FuseInit settles, for every set of capabilities   *)
(* and every major version the kernel may speak.                           *)
(***************************************************************************)
EXTENDS FuseInit, TLAPS

\* The inductive invariant.
IInv == TypeOK /\ HandshakeInv /\ RunsOnGranted

\* A read of the device gives the INIT the kernel has queued, or ends the program.
LEMMA ReadFacts ==
  ASSUME TypeOK, NEW l \in Labels, NEW code \in 0..9, Read(l, code)
  PROVE  /\ TypeOK' /\ UNCHANGED <<init_out, init, granted>>
         /\ \/ pc' = l /\ kernel = "queued" /\ kernel' = "waiting" /\ init_buf' = init
            \/ pc' = "exit"
BY DEF Read, Goto, Fail, TypeOK, Labels, KernelStates

\* A write of the reply is taken by the kernel, or ends the program.
LEMMA WriteFacts ==
  ASSUME TypeOK, NEW l \in Labels, NEW code \in 0..9, Write(l, code)
  PROVE  /\ TypeOK' /\ UNCHANGED <<init_buf, init_out, init>>
         /\ \/ pc' = l /\ Accepts(init_out) /\ Accept(init_out)
            \/ pc' = "exit" /\ UNCHANGED kernelVars
<1>1. CASE Accepts(init_out) /\ Accept(init_out) /\ Goto(l) /\ UNCHANGED <<init_buf, init_out>>
  <2>1. [init_out EXCEPT !.flags = @ \cap init.flags] \in InitOut
    BY DEF TypeOK, InitOut, InitIn
  <2>2. kernel' \in KernelStates /\ granted' \in InitOut /\ UNCHANGED init
    BY <1>1, <2>1 DEF Accept, TypeOK, KernelStates
  <2>. QED
    BY <1>1, <2>2 DEF Goto, TypeOK
<1>2. CASE Fail(code) /\ UNCHANGED kernelVars /\ UNCHANGED <<init_buf, init_out>>
  BY <1>2 DEF Fail, TypeOK, Labels, kernelVars
<1>. QED
  BY <1>1, <1>2 DEF Write

\* An INIT the kernel queues has its type and the version asked of it.
LEMMA KernelInitFacts ==
  ASSUME NEW unique \in 0..2, NEW major \in Nat, KernelInit(unique, major)
  PROVE  /\ init' \in InitIn /\ init'.major = major
         /\ kernel' = "queued" /\ UNCHANGED granted
BY DEF KernelInit, InitIn

\* The invariant holds at the start.
LEMMA InitIInv == Init => IInv
BY InitAssumption DEF Init, IInv, TypeOK, HandshakeInv, RunsOnGranted, Labels,
   KernelStates, InitIn, InitOut, NoInit, NoReply

\* The invariant is kept by every step.
LEMMA NextIInv == IInv /\ [Next]_vars => IInv'
<1>. SUFFICES ASSUME IInv, [Next]_vars PROVE IInv'
  OBVIOUS
<1>1. TypeOK /\ HandshakeInv /\ RunsOnGranted
  BY DEF IInv
<1>2. CASE mount_fuse
  <2>1. CASE (\E code \in 1..3 : Fail(code)) /\ UNCHANGED kernelVars
             /\ UNCHANGED <<init_buf, init_out>>
    BY <1>1, <2>1 DEF Fail, kernelVars, IInv, TypeOK, HandshakeInv, RunsOnGranted, Labels
  <2>2. ASSUME NEW m \in Majors, Goto("read"), KernelInit(1, m),
               UNCHANGED <<init_buf, init_out>>
        PROVE  IInv'
    <3>1. init' \in InitIn /\ kernel' = "queued" /\ UNCHANGED granted
      BY <2>2, KernelInitFacts, InitAssumption
    <3>. QED
      BY <1>1, <2>2, <3>1
         DEF Goto, IInv, TypeOK, HandshakeInv, RunsOnGranted, Labels, KernelStates
  <2>. QED
    BY <1>2, <2>1, <2>2 DEF mount_fuse
<1>3. CASE read_init
  <2>1. pc = "read" /\ Read("check", 4)
    BY <1>3 DEF read_init
  <2>2. TypeOK' /\ \/ pc' = "check" /\ kernel' = "waiting" /\ init_buf' = init /\ UNCHANGED init
                   \/ pc' = "exit"
    BY <1>1, <2>1, ReadFacts DEF Labels
  <2>. QED
    BY <2>2 DEF IInv, HandshakeInv, RunsOnGranted
<1>4. CASE check_init
  <2>1. CASE Fail(5) /\ UNCHANGED <<init_out, init_buf, kernelVars>>
    BY <1>1, <2>1 DEF Fail, kernelVars, IInv, TypeOK, HandshakeInv, RunsOnGranted, Labels
  <2>2. CASE /\ pc = "check" /\ init_buf.major >= Version
             /\ init_out' = [NoReply EXCEPT !.unique = init_buf.unique,
                                            !.major = Version]
             /\ Goto(IF init_buf.major > Version THEN "version" ELSE "flags")
             /\ UNCHANGED <<init_buf, kernelVars>>
    <3>1. /\ init_buf.unique \in 0..2 /\ init_buf.major \in Nat /\ Version \in Nat
      BY <1>1, InitAssumption DEF TypeOK, InitIn
    <3>2. init_out' \in InitOut /\ init_out'.major = Version
      BY <2>2, <3>1 DEF NoReply, InitOut
    <3>3. /\ pc' \in {"version", "flags"} /\ UNCHANGED rc
          /\ pc' = "version" => init_buf.major > Version
          /\ pc' = "flags" => init_buf.major = Version
      BY <2>2, <3>1 DEF Goto
    <3>4. TypeOK'
      BY <1>1, <2>2, <3>2, <3>3 DEF TypeOK, Labels, kernelVars
    <3>. QED
      BY <1>1, <2>2, <3>2, <3>3, <3>4 DEF IInv, HandshakeInv, RunsOnGranted, kernelVars
  <2>. QED
    BY <1>4, <2>1, <2>2 DEF check_init
<1>5. CASE write_version
  <2>1. pc = "version" /\ Write("read_again", 6)
    BY <1>5 DEF write_version
  <2>2. TypeOK' /\ UNCHANGED <<init_buf, init_out, init>>
        /\ \/ pc' = "read_again" /\ Accepts(init_out) /\ Accept(init_out)
           \/ pc' = "exit"
    BY <1>1, <2>1, WriteFacts DEF Labels
  <2>3. CASE pc' = "exit"
    BY <2>2, <2>3 DEF IInv, HandshakeInv, RunsOnGranted
  <2>4. CASE pc' = "read_again" /\ Accepts(init_out) /\ Accept(init_out)
    <3>1. init_out.major = Version /\ init.major > Version
      BY <1>1, <2>1, <2>4 DEF HandshakeInv, Accepts
    <3>2. init_out.major # init.major
      BY <3>1, InitAssumption
    <3>3. kernel' = "resend"
      BY <2>4, <3>2 DEF Accept
    <3>. QED
      BY <2>2, <2>4, <3>1, <3>3 DEF IInv, HandshakeInv, RunsOnGranted
  <2>. QED
    BY <2>2, <2>3, <2>4
<1>6. CASE read_init_again
  <2>1. pc = "read_again" /\ Read("flags", 7)
    BY <1>6 DEF read_init_again
  <2>2. /\ TypeOK' /\ UNCHANGED <<init_out, init>>
        /\ \/ pc' = "flags" /\ kernel = "queued" /\ kernel' = "waiting" /\ init_buf' = init
           \/ pc' = "exit"
    BY <1>1, <2>1, ReadFacts DEF Labels
  <2>. QED
    BY <1>1, <2>1, <2>2 DEF IInv, HandshakeInv, RunsOnGranted
<1>7. CASE check_flags
  <2>1. CASE Fail(8) /\ UNCHANGED <<init_out, init_buf, kernelVars>>
    BY <1>1, <2>1 DEF Fail, kernelVars, IInv, TypeOK, HandshakeInv, RunsOnGranted, Labels
  <2>2. CASE /\ pc = "flags" /\ Required \subseteq init_buf.flags
             /\ init_out' = [init_out EXCEPT !.flags = Wanted, !.limits = TRUE]
             /\ Goto("reply") /\ UNCHANGED <<init_buf, kernelVars>>
    <3>1. /\ init_out' \in InitOut /\ init_out'.major = init_out.major
          /\ init_out'.flags = Wanted /\ init_out'.limits
      BY <1>1, <2>2, InitAssumption DEF TypeOK, InitOut
    <3>. QED
      BY <1>1, <2>2, <3>1
         DEF Goto, kernelVars, IInv, TypeOK, HandshakeInv, RunsOnGranted, Labels
  <2>. QED
    BY <1>7, <2>1, <2>2 DEF check_flags
<1>8. CASE write_reply
  <2>1. pc = "reply" /\ Write("run", 9)
    BY <1>8 DEF write_reply
  <2>2. TypeOK' /\ UNCHANGED <<init_buf, init_out, init>>
        /\ \/ pc' = "run" /\ Accepts(init_out) /\ Accept(init_out)
           \/ pc' = "exit"
    BY <1>1, <2>1, WriteFacts DEF Labels
  <2>3. CASE pc' = "exit"
    BY <2>2, <2>3 DEF IInv, HandshakeInv, RunsOnGranted
  <2>4. CASE pc' = "run" /\ Accepts(init_out) /\ Accept(init_out)
    <3>1. /\ init_buf = init /\ init.major = Version /\ init_out.major = Version
          /\ init_out.flags = Wanted /\ Required \subseteq init.flags
      BY <1>1, <2>1, <2>4 DEF HandshakeInv, Accepts
    <3>2. granted' = [init_out EXCEPT !.flags = @ \cap init.flags]
      BY <2>4, <3>1 DEF Accept
    <3>3. granted'.major = Version /\ granted'.flags = Wanted \cap init.flags
      BY <1>1, <3>1, <3>2 DEF TypeOK, InitOut
    <3>4. Required \subseteq granted'.flags
      BY <3>1, <3>3, InitAssumption
    <3>. QED
      BY <2>2, <2>4, <3>3, <3>4 DEF IInv, HandshakeInv, RunsOnGranted
  <2>. QED
    BY <2>2, <2>3, <2>4
<1>9. CASE KernelResend
  <2>1. /\ kernel = "resend" /\ UNCHANGED serverVars /\ init' \in InitIn
        /\ init'.major = Version /\ kernel' = "queued" /\ UNCHANGED granted
    BY <1>9, KernelInitFacts, InitAssumption DEF KernelResend
  <2>. QED
    BY <1>1, <2>1 DEF serverVars, IInv, TypeOK, HandshakeInv, RunsOnGranted, KernelStates
<1>10. CASE KernelAbort
  BY <1>1, <1>10 DEF KernelAbort, serverVars, IInv, TypeOK, HandshakeInv,
     RunsOnGranted, KernelStates
<1>11. CASE UNCHANGED vars
  BY <1>1, <1>11 DEF vars, serverVars, kernelVars, IInv, TypeOK, HandshakeInv,
     RunsOnGranted
<1>. QED
  BY <1>2, <1>3, <1>4, <1>5, <1>6, <1>7, <1>8, <1>9, <1>10, <1>11
     DEF Next, fuseuring_main, Done

\* What has been settled at each step of fuseuring_main, and the types.
THEOREM HandshakeInvariance == Spec => [](TypeOK /\ HandshakeInv /\ RunsOnGranted)
<1>1. Spec => []IInv
  BY InitIInv, NextIInv, PTL DEF Spec
<1>. QED
  BY <1>1, PTL DEF IInv

\* Type correctness of the handshake.
THEOREM HandshakeTypes == Spec => []TypeOK
BY HandshakeInvariance, PTL

\* Every connection the workers of fuseuring_run are started on has been granted
\* the capabilities that they use.
THEOREM WorkersGranted == Spec => []RunsOnGranted
BY HandshakeInvariance, PTL

\* Only the reply written last completes the handshake.
LEMMA UpStep ==
  ASSUME IInv, [Next]_vars, kernel' = "up", kernel # "up"
  PROVE  pc = "reply" /\ granted'.limits
<1>1. TypeOK /\ HandshakeInv
  BY DEF IInv
<1>2. CASE write_version
  <2>1. pc = "version" /\ Accepts(init_out) /\ Accept(init_out)
    BY <1>2 DEF write_version, Write, kernelVars
  <2>2. init_out.major = Version /\ init.major > Version
    BY <1>1, <2>1 DEF HandshakeInv, Accepts
  <2>3. init_out.major # init.major
    BY <2>2, InitAssumption
  <2>. QED
    BY <2>1, <2>3 DEF Accept
<1>3. CASE write_reply
  <2>1. pc = "reply" /\ Accepts(init_out) /\ Accept(init_out)
    BY <1>3 DEF write_reply, Write, kernelVars
  <2>2. init_out.limits /\ granted' = [init_out EXCEPT !.flags = @ \cap init.flags]
    BY <1>1, <2>1 DEF HandshakeInv, Accepts, Accept
  <2>3. granted'.limits = init_out.limits
    BY <1>1, <2>2 DEF TypeOK, InitOut
  <2>. QED
    BY <2>1, <2>2, <2>3
<1>4. CASE UNCHANGED kernel
  BY <1>4
<1>5. ASSUME kernel' \in {"queued", "waiting", "dead"} PROVE FALSE
  BY <1>5
<1>6. CASE mount_fuse
  BY <1>5, <1>6 DEF mount_fuse, KernelInit, kernelVars
<1>7. CASE read_init \/ read_init_again
  BY <1>5, <1>7 DEF read_init, read_init_again, Read
<1>8. CASE KernelResend \/ KernelAbort
  BY <1>5, <1>8 DEF KernelResend, KernelInit, KernelAbort
<1>. QED
  BY <1>2, <1>3, <1>4, <1>6, <1>7, <1>8
     DEF Next, fuseuring_main, Done, check_init, check_flags, kernelVars, vars

\* The kernel never completes the handshake on the reply to a larger major
\* version, whose other fields are not set.
THEOREM WholeReply == Spec => UpByWholeReply
<1>1. IInv /\ [Next]_vars =>
        [kernel' = "up" /\ kernel # "up" => pc = "reply" /\ granted'.limits]_vars
  BY UpStep
<1>. QED
  BY <1>1, InitIInv, NextIInv, PTL DEF Spec, UpByWholeReply
=============================================================================
