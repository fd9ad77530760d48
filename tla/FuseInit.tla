------------------------------- MODULE FuseInit -------------------------------
(***************************************************************************)
(* The handshake of fuseuring_main: mount, take the FUSE_INIT of the       *)
(* kernel, settle the major version, answer, and go on to the workers.     *)
(*                                                                         *)
(* The program is sequential; the kernel may end the connection at any     *)
(* moment.  The kernel's side of the negotiation is the one fuse_kernel.h  *)
(* describes above FUSE_KERNEL_VERSION.                                    *)
(***************************************************************************)
EXTENDS Integers

CONSTANTS
  Majors,    \* the major versions a kernel may speak
  Version,   \* FUSE_KERNEL_VERSION
  Flags,     \* the capabilities of an INIT
  Required,  \* those that fuseuring_main insists on
  Wanted     \* those it asks for in its reply

ASSUME InitAssumption ==
  /\ Majors \subseteq Nat /\ Version \in Nat
  /\ Required \subseteq Wanted /\ Wanted \subseteq Flags

VARIABLES
  pc,        \* where fuseuring_main is
  rc,        \* its return value, 0 until it returns
  init_buf,  \* the INIT in init_buf
  init_out,  \* the InitOutMsg
  kernel,    \* kernel: the state of the connection
  init,      \* kernel: the INIT it has sent last
  granted    \* kernel: what it took from the reply that completed the handshake

serverVars == <<pc, rc, init_buf, init_out>>
kernelVars == <<kernel, init, granted>>
vars       == <<serverVars, kernelVars>>

\* An INIT, and an InitOutMsg.  fits: the length is sizeof(InitInMsg).  limits:
\* max_readahead, max_write and the other fields after the flags have been set.
InitIn  == [unique : 0..2, major : Nat, flags : SUBSET Flags, fits : BOOLEAN]
InitOut == [unique : 0..2, major : Nat, flags : SUBSET Flags, limits : BOOLEAN]

NoInit  == [unique |-> 0, major |-> 0, flags |-> {}, fits |-> FALSE]
NoReply == [unique |-> 0, major |-> 0, flags |-> {}, limits |-> FALSE]

KernelStates == {"unmounted", "queued", "waiting", "resend", "up", "dead"}
Labels == {"mount", "read", "check", "version", "read_again", "flags", "reply",
           "run", "exit"}

-----------------------------------------------------------------------------
(* The kernel.                                                             *)

\* An INIT is queued on the device.
KernelInit(unique, major) ==
  /\ \E f \in SUBSET Flags, fits \in BOOLEAN :
       init' = [unique |-> unique, major |-> major, flags |-> f, fits |-> fits]
  /\ kernel' = "queued"
  /\ UNCHANGED granted

\* A reply to the INIT outstanding completes the handshake when it names the
\* kernel's major version, and has the kernel start again when it names a
\* smaller one.
Accepts(r) == kernel = "waiting" /\ r.unique = init.unique

Accept(r) ==
  /\ kernel'  = IF r.major = init.major THEN "up" ELSE "resend"
  /\ granted' = IF r.major = init.major
                THEN [r EXCEPT !.flags = @ \cap init.flags] ELSE granted
  /\ UNCHANGED init

\* The new INIT with a matching major version.
KernelResend ==
  /\ kernel = "resend"
  /\ KernelInit(2, Version)
  /\ UNCHANGED serverVars

\* The connection ends: an unmount, or an abort.
KernelAbort ==
  /\ kernel \notin {"unmounted", "dead"}
  /\ kernel' = "dead"
  /\ UNCHANGED <<init, granted, serverVars>>

-----------------------------------------------------------------------------
(* fuseuring_main.                                                         *)

Goto(l) == pc' = l /\ UNCHANGED rc

\* Mutant: an error is returned with its sign turned.
Fail_Negative(code) == pc' = "exit" /\ rc' = -code

Fail(code) == pc' = "exit" /\ rc' = code

\* umount, stat, open and mount; the mount makes the kernel send its INIT.
mount_fuse ==
  /\ pc = "mount"
  /\ \/ /\ \E code \in 1..3 : Fail(code)
        /\ UNCHANGED kernelVars
     \/ /\ Goto("read")
        /\ \E m \in Majors : KernelInit(1, m)
  /\ UNCHANGED <<init_buf, init_out>>

\* A read of the device into init_buf, which fails once the connection ended.
Read(l, code) ==
  /\ \/ /\ kernel = "queued"
        /\ kernel'   = "waiting"
        /\ init_buf' = init
        /\ Goto(l)
     \/ /\ kernel = "dead"
        /\ Fail(code)
        /\ UNCHANGED <<kernel, init_buf>>
  /\ UNCHANGED <<init_out, init, granted>>

\* A write of init_out to the device.
Write(l, code) ==
  /\ \/ /\ Accepts(init_out)
        /\ Accept(init_out)
        /\ Goto(l)
     \/ /\ ~Accepts(init_out)
        /\ Fail(code)
        /\ UNCHANGED kernelVars
  /\ UNCHANGED <<init_buf, init_out>>

read_init == pc = "read" /\ Read("check", 4)

\* Mutant: an equal major version is taken for a larger one.
check_init_Equal ==
  /\ pc = "check"
  /\ \/ /\ ~init_buf.fits \/ init_buf.major < Version
        /\ Fail(5)
        /\ UNCHANGED init_out
     \/ /\ init_buf.fits /\ init_buf.major >= Version
        /\ init_out' = [NoReply EXCEPT !.unique = init_buf.unique,
                                       !.major = Version]
        /\ Goto("version")
  /\ UNCHANGED <<init_buf, kernelVars>>

\* The checks of the first INIT.  What is set of the reply here is all that
\* is, until it is known that the version is the one expected.
check_init ==
  /\ pc = "check"
  /\ \/ /\ ~init_buf.fits \/ init_buf.major < Version
        /\ Fail(5)
        /\ UNCHANGED init_out
     \/ /\ init_buf.fits /\ init_buf.major >= Version
        /\ init_out' = [NoReply EXCEPT !.unique = init_buf.unique,
                                       !.major = Version]
        /\ Goto(IF init_buf.major > Version THEN "version" ELSE "flags")
  /\ UNCHANGED <<init_buf, kernelVars>>

\* Mutant: the kernel is not told of the version before the next INIT is read.
write_version_Silent ==
  /\ pc = "version"
  /\ Goto("read_again")
  /\ UNCHANGED <<init_buf, init_out, kernelVars>>

write_version == pc = "version" /\ Write("read_again", 6)

\* The second INIT takes the place of the first in init_buf, unchecked.
read_init_again == pc = "read_again" /\ Read("flags", 7)

\* Mutant: a missing capability is not an error.
check_flags_Any ==
  /\ pc = "flags"
  /\ init_out' = [init_out EXCEPT !.flags = Wanted, !.limits = TRUE]
  /\ Goto("reply")
  /\ UNCHANGED <<init_buf, kernelVars>>

\* The capabilities, and the rest of the reply.
check_flags ==
  /\ pc = "flags"
  /\ \/ /\ ~(Required \subseteq init_buf.flags)
        /\ Fail(8)
        /\ UNCHANGED init_out
     \/ /\ Required \subseteq init_buf.flags
        /\ init_out' = [init_out EXCEPT !.flags = Wanted, !.limits = TRUE]
        /\ Goto("reply")
  /\ UNCHANGED <<init_buf, kernelVars>>

write_reply == pc = "reply" /\ Write("run", 9)

-----------------------------------------------------------------------------

Init ==
  /\ pc = "mount" /\ rc = 0
  /\ init_buf = NoInit /\ init_out = NoReply
  /\ kernel = "unmounted" /\ init = NoInit /\ granted = NoReply

fuseuring_main ==
  \/ mount_fuse
  \/ read_init
  \/ check_init
  \/ write_version
  \/ read_init_again
  \/ check_flags
  \/ write_reply

\* The workers run, or the program has ended.
Done == pc \in {"run", "exit"} /\ UNCHANGED vars

Next == fuseuring_main \/ KernelResend \/ KernelAbort \/ Done

\* The program runs on, and a kernel that fell back sends its new INIT.
Fairness == WF_vars(fuseuring_main) /\ WF_vars(KernelResend)

Spec     == Init /\ [][Next]_vars
FairSpec == Spec /\ Fairness

-----------------------------------------------------------------------------
(* Properties.                                                             *)

\* Every variable keeps its type.
TypeOK ==
  /\ pc \in Labels /\ rc \in 0..9
  /\ init_buf \in InitIn /\ init \in InitIn
  /\ init_out \in InitOut /\ granted \in InitOut
  /\ kernel \in KernelStates

\* What has been settled of the handshake at each step of fuseuring_main.
HandshakeInv ==
  /\ pc \in {"check", "version", "flags", "reply"} /\ kernel # "dead" =>
       kernel = "waiting" /\ init_buf = init
  /\ pc = "mount" => kernel = "unmounted"
  /\ pc = "version" => init_buf.major > Version
  /\ pc \in {"version", "read_again", "flags", "reply"} => init_out.major = Version
  /\ pc = "read_again" /\ kernel # "dead" =>
       \/ kernel = "resend"
       \/ kernel = "queued" /\ init.major = Version
  /\ pc \in {"flags", "reply"} => init_buf.major = Version
  /\ pc = "reply" => /\ init_out.flags = Wanted /\ init_out.limits
                     /\ Required \subseteq init_buf.flags

\* The workers start only on a connection whose kernel completed the handshake
\* with this program's version and granted every capability it relies on, the
\* splices of the device among them.
RunsOnGranted ==
  pc = "run" => /\ granted.major = Version
                /\ Required \subseteq granted.flags

\* The kernel completes the handshake on a reply whose every field has been
\* set, never on the one that only names the version.
UpByWholeReply ==
  [][kernel' = "up" /\ kernel # "up" => pc = "reply" /\ granted'.limits]_vars

\* The handshake comes to an end, with workers or with an error.
Decides == <>(pc \in {"run", "exit"})

\* What fuse_kernel.h:157 says of a kernel with a larger major version: reply
\* with the version supported "and expect a new INIT message".  The reply that
\* follows it is to that INIT.  The code keeps the unique of the first.
AnswersNewInit == pc = "reply" => init_out.unique = init_buf.unique
=============================================================================
