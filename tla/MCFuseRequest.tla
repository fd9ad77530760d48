---------------------------- MODULE MCFuseRequest ----------------------------
(* Constants of FuseRequest for model checking.                            *)
EXTENDS FuseRequestRefine, TLC

M(op, node, fh, body, off, size) ==
  [op |-> op, node |-> node, fh |-> fh, body |-> body, off |-> off,
   size |-> size]

\* What a kernel sends of a mount whose file has FileSize cells: one message
\* for each path through the handlers.
Attributes == {M("GETATTR", 1, 0, 1, 0, 0), M("GETATTR", 3, 3, 1, 0, 0),
               M("SETATTR", 3, 3, WriteIn + 1, 0, 0)}
Names      == {M("LOOKUP", 1, 0, 1, 0, 0), M("LOOKUP", 1, 0, WriteIn + 1, 0, 0)}
Files      == {M("OPEN", 3, 0, 1, 0, 0), M("RELEASE", 3, 0, 1, 0, 0)}
Dirs       == {M("OPENDIR", 1, 0, 1, 0, 0), M("READDIR", 1, 0, 1, 0, 0),
               M("READDIR", 1, 0, 1, 1, 0), M("RELEASEDIR", 1, 0, 1, 0, 0)}
Others     == {M("OTHER", 1, 0, b, 0, 0) : b \in {0, 1, ScratchSize}}
Reads      == {M("READ", 3, 0, 1, o, s) : o \in 0..FileSize, s \in {1, 2}}
Writes     == {M("WRITE", 3, 0, WriteIn + s, 0, s) : s \in {0, 1, 2}}

RealMessages == Attributes \cup Names \cup Files \cup Dirs \cup Others
                  \cup Reads \cup Writes

\* They are messages of a mount where nothing fails (Healthy).
ASSUME RealAreProper == \A m \in RealMessages : Proper(m)

\* One message of each shape of chain.
FewMessages == {M("SETATTR", 3, 3, WriteIn + 1, 0, 0),
                M("OPEN", 3, 0, 1, 0, 0), M("READDIR", 1, 0, 1, 0, 0),
                M("READ", 3, 0, 1, 1, 2), M("WRITE", 3, 0, WriteIn + 2, 0, 2)}

\* Messages for the runs with faults.  The last five are of another node, disagree
\* with themselves or take no reply; the code has a path for each.
FaultMessages == {M("LOOKUP", 1, 0, ScratchSize, 0, 0),
                  M("READ", 3, 0, 1, 1, 2), M("WRITE", 3, 0, WriteIn + 2, 0, 2),
                  M("GETATTR", 2, 0, 1, 0, 0), M("READ", 1, 3, 1, 0, 1),
                  M("OPEN", 3, 0, 2, 0, 0), M("INTERRUPT", 0, 0, 1, 0, 0),
                  M("WRITE", 3, 0, WriteIn + 1, 0, 2)}

\* Requests the kernel does send of this mount, but which stop the worker.
ForgetMessages  == {M("OPEN", 3, 0, 1, 0, 0), M("FORGET", 3, 0, 1, 0, 0),
                    M("BATCH_FORGET", 0, 0, 2, 0, 0)}
PastEndMessages == {M("READ", 3, 0, 1, o, 1) : o \in 0..(FileSize + 1)}

Symmetry == Permutations(Ios) \cup Permutations(Reqs)
=============================================================================
