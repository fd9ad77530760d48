------------------------------ MODULE FuseVolume ------------------------------
(***************************************************************************)
(* What the handlers of all workers answer about the one file they export: *)
(* its attributes, the directory it is in, and which part of it a READ or  *)
(* WRITE touches.  main() makes the file large enough, each worker reads   *)
(* its size once, when it starts, and WRITEs may extend it after that.     *)
(*                                                                         *)
(* How a request comes to its handler and its reply back is FuseRequest's. *)
(* A file is its size here; sizes and offsets of READs and WRITEs are      *)
(* counted in a unit of their own, those of directory entries in bytes.    *)
(***************************************************************************)
EXTENDS Integers, Sequences, FiniteSets

CONSTANTS
  Workers,   \* the threads that run fuseuring_run
  Calls,     \* requests in flight
  OldSizes,  \* sizes the backing file may have had before
  GivenSize, \* the backing file size of the command line
  MaxSize,   \* WRITEs end here at the latest
  SizeMod    \* modulus of the uint32_t size fields (2^32)

ASSUME VolumeAssumption ==
  /\ OldSizes \subseteq 0..MaxSize /\ GivenSize \in 0..MaxSize
  /\ MaxSize \in Nat /\ SizeMod \in Nat /\ MaxSize < SizeMod

VARIABLES
  file,           \* the size of the backing file
  backing_f_size, \* what each worker takes for it, or Unknown before it has started
  call,           \* the requests
  dir             \* a user who lists the directory

vars == <<file, backing_f_size, call, dir>>

Unknown == -1
Started == {w \in Workers : backing_f_size[w] # Unknown}
NoCall  == [op |-> "none", w |-> "none", off |-> 0, size |-> 0, at |-> "none"]
Larger(a, b) == IF a >= b THEN a ELSE b

-----------------------------------------------------------------------------
(* Attributes.                                                             *)

Root  == 1
File  == 3
NoAttr == [ino |-> 0, type |-> "none", size |-> 0]   \* -EACCES

\* send_attr
attr(node, size) ==
  CASE node = Root -> [ino |-> 1, type |-> "dir", size |-> 0]
    [] node = File -> [ino |-> 3, type |-> "reg", size |-> size]
    [] OTHER       -> NoAttr

\* Mutant: the volume gets the node that its directory entry shows.
handle_lookup_Listed(name, size) ==
  IF name = "volume"
  THEN [node |-> 4, attr |-> [ino |-> 4, type |-> "reg", size |-> size]]
  ELSE [node |-> Root, attr |-> [ino |-> 1, type |-> "dir", size |-> 0]]

\* handle_lookup: every name but one is the directory itself.
handle_lookup(name, size) ==
  IF name = "volume"
  THEN [node |-> File, attr |-> [ino |-> 3, type |-> "reg", size |-> size]]
  ELSE [node |-> Root, attr |-> [ino |-> 1, type |-> "dir", size |-> 0]]

-----------------------------------------------------------------------------
(* Directory entries.                                                      *)

NameOffset      == 24                       \* offsetof(fuse_dirent, name)
DirentAlign(x)  == ((x + 7) \div 8) * 8
NameLen ==
  [name \in {".", "..", "volume"} |->
     CASE name = "." -> 1 [] name = ".." -> 2 [] name = "volume" -> 6]

\* What follows the fuse_out_header of a READDIR reply: its length, and the entry that
\* begins at an offset.
NoEntries == [len |-> 0, at |-> <<>>]
Put(at, p, e) == [q \in DOMAIN at \cup {p} |-> IF q = p THEN e ELSE at[q]]

\* Mutant: the next entry begins where the name ends.
add_dir_Unaligned(buf, name, off, ino) ==
  [len |-> buf.len + NameOffset + NameLen[name],
   at  |-> Put(buf.at, buf.len, [name |-> name, off |-> off, ino |-> ino])]

add_dir(buf, name, off, ino) ==
  [len |-> buf.len + DirentAlign(NameOffset + NameLen[name]),
   at  |-> Put(buf.at, buf.len, [name |-> name, off |-> off, ino |-> ino])]

\* handle_readdir: everything, or nothing if the user has read on.
handle_readdir(offset) ==
  IF offset # 0 THEN NoEntries
  ELSE LET b1 == add_dir(NoEntries, ".", 1, 2)
           b2 == add_dir(b1, "..", 2, 3)
       IN add_dir(b2, "volume", 3, 4)

\* What the kernel reads in it (external): an entry at each aligned end of the last.
Garbage == [name |-> "garbage", off |-> 0, ino |-> 0]
Parsed(buf) ==
  LET entry(p) == IF p \in DOMAIN buf.at THEN buf.at[p] ELSE Garbage
      size(p)  == IF p \in DOMAIN buf.at
                  THEN DirentAlign(NameOffset + NameLen[buf.at[p].name])
                  ELSE NameOffset
      f[p \in 0..(2 * buf.len + NameOffset)] ==
        IF p + NameOffset > buf.len \/ p + size(p) > buf.len THEN <<>>
        ELSE <<entry(p)>> \o f[p + size(p)]
  IN f[0]

-----------------------------------------------------------------------------
(* The program.                                                            *)

\* main: open(O_CREAT) and posix_fallocate, which extends the file but never cuts it.
Init ==
  /\ \E old \in OldSizes : file = Larger(old, GivenSize)
  /\ backing_f_size = [w \in Workers |-> Unknown]
  /\ call = [c \in Calls |-> NoCall]
  /\ dir = [off |-> 0, names |-> <<>>, done |-> FALSE]

\* fstat in fuseuring_run.  The workers start in any order, and serve as soon as they
\* have started.
fuseuring_run(w) ==
  /\ w \notin Started
  /\ backing_f_size' = [backing_f_size EXCEPT ![w] = file]
  /\ UNCHANGED <<file, call, dir>>

\* A worker takes a request: an OPEN, with O_TRUNC or not, a SETATTR of the size, a READ
\* or a WRITE.
Requests ==
  {r \in [op : {"open", "open_trunc", "setattr", "read", "write"},
          off : 0..MaxSize, size : 0..MaxSize] :
     CASE r.op \in {"read", "write"} -> r.size > 0 /\ r.off + r.size <= MaxSize
       [] r.op = "setattr"           -> r.off = 0
       [] OTHER                      -> r.off = 0 /\ r.size = 0}

\* Mutant: signed arithmetic.
ReadSize_Signed(off, size, fsize) == IF off + size > fsize THEN fsize - off ELSE size

\* The clamp of handle_read, in the arithmetic of a uint32_t.
ReadSize(off, size, fsize) ==
  IF off + size > fsize THEN (fsize - off) % SizeMod ELSE size

Take(c, w, r) ==
  /\ call[c] = NoCall /\ w \in Started
  /\ call' = [call EXCEPT ![c] =
       [op |-> r.op, w |-> w, off |-> r.off, at |-> "taken",
        size |-> IF r.op = "read" THEN ReadSize(r.off, r.size, backing_f_size[w])
                 ELSE r.size]]
  /\ UNCHANGED <<file, backing_f_size, dir>>

At(c, op, at) == call[c].op = op /\ call[c].at = at

\* Mutant: the size is set.
handle_setattr_Cut(c) ==
  /\ At(c, "setattr", "taken")
  /\ file' = call[c].size
  /\ call' = [call EXCEPT ![c] = NoCall]
  /\ UNCHANGED <<backing_f_size, dir>>

\* handle_setattr: the attributes are answered as they are.
handle_setattr(c) ==
  /\ At(c, "setattr", "taken")
  /\ call' = [call EXCEPT ![c] = NoCall]
  /\ UNCHANGED <<file, backing_f_size, dir>>

\* handle_open: the flags are answered; O_TRUNC is not looked at.
handle_open(c) ==
  /\ At(c, "open", "taken") \/ At(c, "open_trunc", "taken")
  /\ call' = [call EXCEPT ![c] = NoCall]
  /\ UNCHANGED <<file, backing_f_size, dir>>

\* handle_read: the data are spliced from the file, and the reply sent if all are there.
ReadSplice(c) ==
  /\ At(c, "read", "taken")
  /\ call' = [call EXCEPT ![c] = IF @.off + @.size <= file
                                 THEN [@ EXCEPT !.at = "spliced"] ELSE NoCall]
  /\ UNCHANGED <<file, backing_f_size, dir>>

ReadReply(c) ==
  /\ At(c, "read", "spliced")
  /\ call' = [call EXCEPT ![c] = NoCall]
  /\ UNCHANGED <<file, backing_f_size, dir>>

\* handle_write: some or all of the payload is spliced into the file, past its end if
\* need be, and a reply is sent.
handle_write(c) ==
  /\ At(c, "write", "taken")
  /\ \E k \in 0..call[c].size :
       file' = IF k = 0 THEN file ELSE Larger(file, call[c].off + k)
  /\ call' = [call EXCEPT ![c] = NoCall]
  /\ UNCHANGED <<backing_f_size, dir>>

\* A user reads on where the last entry said, until there is nothing more (the buffer
\* of getdents holds more than three entries).
Readdir ==
  /\ Started # {} /\ ~dir.done
  /\ LET new == Parsed(handle_readdir(dir.off))
     IN dir' = IF new = <<>> THEN [dir EXCEPT !.done = TRUE]
               ELSE [dir EXCEPT !.names = @ \o [i \in 1..Len(new) |-> new[i].name],
                                !.off = new[Len(new)].off]
  /\ UNCHANGED <<file, backing_f_size, call>>

\* The directory is listed again.
Opendir ==
  /\ dir.done
  /\ dir' = [off |-> 0, names |-> <<>>, done |-> FALSE]
  /\ UNCHANGED <<file, backing_f_size, call>>

Next ==
  \/ \E w \in Workers : fuseuring_run(w)
  \/ \E c \in Calls, w \in Workers, r \in Requests : Take(c, w, r)
  \/ \E c \in Calls : \/ handle_setattr(c) \/ handle_open(c)
                      \/ ReadSplice(c) \/ ReadReply(c) \/ handle_write(c)
  \/ Readdir \/ Opendir

Spec == Init /\ [][Next]_vars

-----------------------------------------------------------------------------
(* Properties.                                                             *)

TypeOK ==
  /\ file \in 0..MaxSize
  /\ backing_f_size \in [Workers -> {Unknown} \cup 0..MaxSize]
  /\ \A c \in Calls : call[c] = NoCall \/
       call[c] \in [op : {"open", "open_trunc", "setattr", "read", "write"}, w : Started,
                   off : 0..MaxSize, size : 0..(SizeMod - 1), at : {"taken", "spliced"}]
  /\ dir.off \in 0..3 /\ dir.done \in BOOLEAN /\ Len(dir.names) <= 3

\* What a READ is to be answered with is in the file until the reply is on its way,
\* whatever other workers do to it meanwhile: handle_read, whose clamp goes by a size
\* that was read long ago, never comes up short and stops the worker (but see ReadsLess
\* of FuseRequest for an offset past the end).
ServedWhole ==
  \A c \in Calls :
    call[c].op = "read" /\ call[c].off <= backing_f_size[call[c].w] =>
      call[c].off + call[c].size <= file

\* The names of the directory, once each, for a user who goes on at the offset of the
\* last entry: what add_dir packs is what the kernel reads, and it ends.
ListedOnce ==
  LET all == <<".", "..", "volume">>
  IN IF dir.done THEN dir.names = all ELSE dir.names \in {<<>>, all}

\* What LOOKUP says of a name is what GETATTR says of the node it gives, in every worker,
\* and neither promises more than there is in the file.
LookupAgrees ==
  \A w \in Started, name \in DOMAIN NameLen :
    LET size  == backing_f_size[w]
        entry == handle_lookup(name, size)
    IN entry.attr = attr(entry.node, size) /\ entry.attr.size <= file

\* What fuse_kernel.h:254 says of FUSE_ATOMIC_O_TRUNC, which fuseuring_main asks for, the
\* file system "handles the O_TRUNC open flag": an OPEN with O_TRUNC leaves no data.
TruncatesOnOpen ==
  [][\A c \in Calls :
       call[c].op = "open_trunc" /\ call'[c] = NoCall => file' = 0]_vars
=============================================================================
