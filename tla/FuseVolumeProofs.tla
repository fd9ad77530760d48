--------------------------- MODULE FuseVolumeProofs ---------------------------
(***************************************************************************)
(* What every worker takes for the size of the backing file stays within   *)
(* it: the file never shrinks, whatever requests the workers serve and in  *)
(* which order they started.                                               *)
(*                                                                         *)
(* What the directory lists is the value of a recursive function of the    *)
(* reply.  That there is such a function is shown by unfolding it as often *)
(* as entries fit in the reply, and its value by unfolding it again.       *)
(***************************************************************************)
EXTENDS FuseVolume, SequenceTheorems, TLAPS

Ops == {"open", "open_trunc", "setattr", "read", "write"}
Call == [op : Ops, w : Workers, off : 0..MaxSize, size : 0..(SizeMod - 1),
         at : {"taken", "spliced"}]

\* Requests are within the file's largest size, and only started workers have them.
CallInv(c) ==
  /\ call[c] = NoCall \/ call[c] \in Call
  /\ call[c] # NoCall => call[c].w \in Started
  /\ call[c].op = "write" => call[c].off + call[c].size <= MaxSize
  /\ call[c].op = "read" /\ call[c].off <= backing_f_size[call[c].w] =>
       call[c].off + call[c].size <= backing_f_size[call[c].w]

\* A worker's idea of the file's size never exceeds it.
VInv ==
  /\ file \in 0..MaxSize
  /\ backing_f_size \in [Workers -> {Unknown} \cup 0..MaxSize]
  /\ \A w \in Workers : backing_f_size[w] <= file
  /\ DOMAIN call = Calls
  /\ \A c \in Calls : CallInv(c)

\* The two sizes of a clamped READ: it ends at the end of the file, or earlier.
LEMMA ClampFacts ==
  ASSUME NEW off \in 0..MaxSize, NEW size \in 0..MaxSize, NEW fsize \in 0..MaxSize
  PROVE  /\ ReadSize(off, size, fsize) \in 0..(SizeMod - 1)
         /\ off <= fsize => off + ReadSize(off, size, fsize) <= fsize
<1>1. MaxSize \in Nat /\ SizeMod \in Nat /\ MaxSize < SizeMod
  BY VolumeAssumption
<1>2. \A a \in Int : a % SizeMod \in 0..(SizeMod - 1)
  BY <1>1
<1>3. \A a \in 0..(SizeMod - 1) : a % SizeMod = a
  BY <1>1
<1>4. CASE off + size > fsize
  <2>1. ReadSize(off, size, fsize) = (fsize - off) % SizeMod
    BY <1>4 DEF ReadSize
  <2>2. off <= fsize => (fsize - off) % SizeMod = fsize - off
    BY <1>1, <1>3
  <2>3. ReadSize(off, size, fsize) \in 0..(SizeMod - 1)
    BY <1>2, <2>1
  <2>. QED
    BY <2>1, <2>2, <2>3
<1>5. CASE ~(off + size > fsize)
  BY <1>1, <1>5 DEF ReadSize
<1>. QED
  BY <1>4, <1>5

\* The file is at least of the size given, and no worker has started.
LEMMA InitVolume == Init => VInv
<1>. SUFFICES ASSUME Init PROVE VInv
  OBVIOUS
<1>1. file \in 0..MaxSize
  BY VolumeAssumption DEF Init, Larger
<1>2. /\ backing_f_size \in [Workers -> {Unknown} \cup 0..MaxSize]
      /\ \A w \in Workers : backing_f_size[w] <= file
  BY <1>1, VolumeAssumption DEF Init, Unknown
<1>3. DOMAIN call = Calls /\ \A c \in Calls : CallInv(c)
  BY DEF Init, CallInv, NoCall
<1>. QED
  BY <1>1, <1>2, <1>3 DEF VInv

\* A step that ends a call, or leaves it, does not affect the others.
LEMMA CallsKept ==
  ASSUME VInv, NEW c \in Calls, UNCHANGED backing_f_size,
         \/ call' = [call EXCEPT ![c] = NoCall]
         \/ call[c].op = "read" /\ call' = [call EXCEPT ![c] = [@ EXCEPT !.at = "spliced"]]
  PROVE  DOMAIN call' = Calls /\ \A d \in Calls : CallInv(d)'
<1>1. DOMAIN call = Calls /\ DOMAIN call' = Calls /\ \A d \in Calls \ {c} : call'[d] = call[d]
  BY DEF VInv
<1>2. UNCHANGED Started
  BY DEF Started
<1>3. ASSUME NEW d \in Calls \ {c} PROVE CallInv(d)'
  BY <1>1, <1>2, <1>3 DEF VInv, CallInv
<1>4. CASE call' = [call EXCEPT ![c] = NoCall]
  BY <1>1, <1>3, <1>4 DEF CallInv, NoCall
<1>5. CASE call[c].op = "read" /\ call' = [call EXCEPT ![c] = [@ EXCEPT !.at = "spliced"]]
  <2>1. call[c] # NoCall
    BY <1>5 DEF NoCall
  <2>2. call[c] \in Call
    BY <2>1 DEF VInv, CallInv
  <2>3. /\ call'[c] \in Call /\ call'[c].w = call[c].w /\ call'[c].op = "read"
        /\ call'[c].off = call[c].off /\ call'[c].size = call[c].size
    BY <1>1, <1>5, <2>2 DEF Call
  <2>4. CallInv(c)'
    BY <1>2, <1>5, <2>1, <2>3 DEF VInv, CallInv
  <2>. QED
    BY <1>1, <1>3, <2>4
<1>. QED
  BY <1>4, <1>5

\* A request is taken by a worker that has started.
LEMMA TakeKeeps ==
  ASSUME VInv, NEW c \in Calls, NEW w \in Workers, NEW r \in Requests, Take(c, w, r)
  PROVE  VInv'
<1>1. w \in Started /\ UNCHANGED <<file, backing_f_size>> /\ UNCHANGED Started
  BY DEF Take, Started
<1>2. /\ r.op \in Ops /\ r.off \in 0..MaxSize /\ r.size \in 0..MaxSize
      /\ r.op = "write" => r.off + r.size <= MaxSize
  BY DEF Requests, Ops
<1>3. backing_f_size[w] \in 0..MaxSize
  BY <1>1 DEF VInv, Started
<1>. DEFINE size == IF r.op = "read" THEN ReadSize(r.off, r.size, backing_f_size[w])
                    ELSE r.size
            new  == [op |-> r.op, w |-> w, off |-> r.off, at |-> "taken", size |-> size]
<1>4. /\ size \in 0..(SizeMod - 1)
      /\ r.op = "read" /\ r.off <= backing_f_size[w] => r.off + size <= backing_f_size[w]
      /\ r.op = "write" => r.off + size <= MaxSize
  <2>1. CASE r.op = "read"
    <3>. DEFINE served == ReadSize(r.off, r.size, backing_f_size[w])
    <3>1. /\ served \in 0..(SizeMod - 1)
          /\ r.off <= backing_f_size[w] => r.off + served <= backing_f_size[w]
      BY <1>2, <1>3, ClampFacts
    <3>2. size = served
      BY <2>1
    <3>. HIDE DEF served, size
    <3>. QED
      BY <2>1, <3>1, <3>2
  <2>2. CASE r.op # "read"
    <3>1. size = r.size
      BY <2>2
    <3>. HIDE DEF size
    <3>. QED
      BY <1>2, <2>2, <3>1, VolumeAssumption
  <2>. QED
    BY <2>1, <2>2
<1>5. call' = [call EXCEPT ![c] = new]
  BY DEF Take
<1>. HIDE DEF size
<1>6. /\ new \in Call /\ new.w = w /\ new.op = r.op /\ new.off = r.off /\ new.size = size
      /\ new # NoCall
  BY <1>2, <1>4 DEF Call, NoCall, Ops
<1>. HIDE DEF new
<1>7. DOMAIN call' = Calls /\ call'[c] = new /\ \A d \in Calls \ {c} : call'[d] = call[d]
  BY <1>5 DEF VInv
<1>8. CallInv(c)'
  BY <1>1, <1>4, <1>6, <1>7 DEF CallInv
<1>9. ASSUME NEW d \in Calls \ {c} PROVE CallInv(d)'
  BY <1>1, <1>7, <1>9 DEF VInv, CallInv
<1>. QED
  BY <1>1, <1>7, <1>8, <1>9 DEF VInv

\* A WRITE makes the file no smaller, and no larger than where it ends.
LEMMA WriteKeeps ==
  ASSUME VInv, NEW c \in Calls, handle_write(c)
  PROVE  VInv'
<1>1. /\ call[c].op = "write" /\ call' = [call EXCEPT ![c] = NoCall]
      /\ UNCHANGED backing_f_size
  BY DEF handle_write, At
<1>2. call[c] \in Call /\ call[c].off + call[c].size <= MaxSize
  BY <1>1 DEF VInv, CallInv, NoCall
<1>3. file' \in 0..MaxSize /\ file' >= file
  <2>1. PICK k \in 0..call[c].size :
          file' = IF k = 0 THEN file ELSE Larger(file, call[c].off + k)
    BY DEF handle_write
  <2>2. call[c].off \in Nat /\ call[c].size \in Nat /\ MaxSize \in Nat /\ file \in 0..MaxSize
    BY <1>2, VolumeAssumption DEF Call, VInv
  <2>. QED
    BY <1>2, <2>1, <2>2 DEF Larger
<1>4. DOMAIN call' = Calls /\ \A d \in Calls : CallInv(d)'
  BY <1>1, CallsKept
<1>5. \A w \in Workers : backing_f_size'[w] <= file'
  <2>1. SUFFICES ASSUME NEW w \in Workers PROVE backing_f_size[w] <= file'
    BY <1>1
  <2>2. backing_f_size[w] \in Int /\ backing_f_size[w] <= file /\ file \in Int
    BY VolumeAssumption DEF VInv, Unknown
  <2>. QED
    BY <1>3, <2>2, VolumeAssumption
<1>. QED
  BY <1>1, <1>3, <1>4, <1>5 DEF VInv

\* A worker reads the size of the file when it starts; none of its requests is older.
LEMMA RunKeeps ==
  ASSUME VInv, NEW w \in Workers, fuseuring_run(w)
  PROVE  VInv'
<1>1. /\ w \notin Started /\ backing_f_size' = [backing_f_size EXCEPT ![w] = file]
      /\ UNCHANGED <<file, call>>
  BY DEF fuseuring_run
<1>2. /\ file \in 0..MaxSize /\ file # Unknown
      /\ \A v \in Workers \ {w} : backing_f_size'[v] = backing_f_size[v]
      /\ backing_f_size'[w] = file
  BY <1>1, VolumeAssumption DEF VInv, Unknown
<1>3. Started' = Started \cup {w}
  BY <1>1, <1>2 DEF Started
<1>4. backing_f_size' \in [Workers -> {Unknown} \cup 0..MaxSize]
  BY <1>1, <1>2 DEF VInv
<1>5. \A v \in Workers : backing_f_size'[v] <= file
  <2>1. file <= file
    BY <1>2, VolumeAssumption
  <2>. QED
    BY <1>2, <2>1 DEF VInv
<1>6. ASSUME NEW c \in Calls PROVE CallInv(c)'
  <2>1. CASE call[c] = NoCall
    BY <1>1, <2>1 DEF CallInv, NoCall
  <2>2. CASE call[c] # NoCall
    <3>1. call[c].w \in Started /\ call[c].w \in Workers \ {w}
      BY <1>1, <2>2 DEF VInv, CallInv, Started
    <3>. QED
      BY <1>1, <1>2, <1>3, <2>2, <3>1 DEF VInv, CallInv
  <2>. QED
    BY <2>1, <2>2
<1>. QED
  BY <1>1, <1>2, <1>4, <1>5, <1>6 DEF VInv

\* Every step keeps the invariant.
LEMMA NextVolume == VInv /\ [Next]_vars => VInv'
<1>. SUFFICES ASSUME VInv, [Next]_vars PROVE VInv'
  OBVIOUS
<1>1. ASSUME NEW w \in Workers, fuseuring_run(w) PROVE VInv'
  BY <1>1, RunKeeps
<1>2. ASSUME NEW c \in Calls, NEW w \in Workers, NEW r \in Requests, Take(c, w, r) PROVE VInv'
  BY <1>2, TakeKeeps
<1>3. ASSUME NEW c \in Calls, handle_setattr(c) \/ handle_open(c) \/ ReadSplice(c) \/ ReadReply(c)
      PROVE  VInv'
  <2>1. /\ UNCHANGED <<file, backing_f_size>>
        /\ \/ call' = [call EXCEPT ![c] = NoCall]
           \/ call[c].op = "read" /\ call' = [call EXCEPT ![c] = [@ EXCEPT !.at = "spliced"]]
    BY <1>3 DEF handle_setattr, handle_open, ReadSplice, ReadReply, At
  <2>2. DOMAIN call' = Calls /\ \A d \in Calls : CallInv(d)'
    BY <2>1, CallsKept
  <2>. QED
    BY <2>1, <2>2 DEF VInv
<1>4. ASSUME NEW c \in Calls, handle_write(c) PROVE VInv'
  BY <1>4, WriteKeeps
<1>5. CASE Readdir \/ Opendir \/ UNCHANGED vars
  BY <1>5 DEF Readdir, Opendir, vars, VInv, CallInv, Started
<1>. QED
  BY <1>1, <1>2, <1>3, <1>4, <1>5 DEF Next

\* No worker ever takes the file for larger than it is.
THEOREM SizesHold == Spec => []VInv
BY InitVolume, NextVolume, PTL DEF Spec

\* For every number of workers and calls in flight, a READ's range, clamped by a size read
\* when its worker started, is in the file when it is spliced.
THEOREM ReadsServedWhole == Spec => []ServedWhole
<1>1. VInv => ServedWhole
  <2>. SUFFICES ASSUME VInv, NEW c \in Calls, call[c].op = "read",
                       call[c].off <= backing_f_size[call[c].w]
                PROVE  call[c].off + call[c].size <= file
    BY DEF ServedWhole
  <2>1. call[c] \in Call /\ call[c].off + call[c].size <= backing_f_size[call[c].w]
    BY DEF VInv, CallInv, NoCall
  <2>2. /\ backing_f_size[call[c].w] <= file /\ backing_f_size[call[c].w] \in Int
        /\ file \in Int /\ call[c].off \in Int /\ call[c].size \in Int
    BY <2>1, VolumeAssumption DEF VInv, Call, Unknown
  <2>. QED
    BY <2>1, <2>2
<1>. QED
  BY <1>1, SizesHold, PTL

\* LOOKUP and GETATTR agree on every name in every worker, on a size that is in the file.
THEOREM LookupsAgree == Spec => []LookupAgrees
<1>1. VInv => LookupAgrees
  <2>. SUFFICES ASSUME VInv, NEW w \in Started, NEW name
                PROVE  LET size  == backing_f_size[w]
                           entry == handle_lookup(name, size)
                       IN entry.attr = attr(entry.node, size) /\ entry.attr.size <= file
    BY DEF LookupAgrees
  <2>1. backing_f_size[w] <= file /\ 0 <= file
    BY VolumeAssumption DEF VInv, Started
  <2>. QED
    BY <2>1 DEF handle_lookup, attr, Root, File
<1>. QED
  BY <1>1, SizesHold, PTL

-----------------------------------------------------------------------------
(* The directory.                                                          *)

\* What Parsed finds at an offset, how long it takes it to be, and where it stops.
EntryAt(buf, p) == IF p \in DOMAIN buf.at THEN buf.at[p] ELSE Garbage
SizeAt(buf, p)  == IF p \in DOMAIN buf.at
                   THEN DirentAlign(NameOffset + NameLen[buf.at[p].name]) ELSE NameOffset
Offsets(buf)    == 0..(2 * buf.len + NameOffset)
Ends(buf, p)    == p + NameOffset > buf.len \/ p + SizeAt(buf, p) > buf.len

\* What Parsed's function says of an offset, from what it says of the later ones.
Step(buf, g) ==
  [p \in Offsets(buf) |->
     IF Ends(buf, p) THEN <<>> ELSE <<EntryAt(buf, p)>> \o g[p + SizeAt(buf, p)]]

\* Parsed is the value of such a function, if there is one.
LEMMA ParsedStep ==
  ASSUME NEW buf, \E g : g = Step(buf, g)
  PROVE  \E g : g = Step(buf, g) /\ Parsed(buf) = g[0]
<1>. DEFINE f == CHOOSE g : g = Step(buf, g)
<1>1. f = Step(buf, f)
  OBVIOUS
<1>2. Parsed(buf) = f[0]
  BY DEF Parsed, Step, EntryAt, SizeAt, Offsets, Ends
<1>. QED
  BY <1>1, <1>2

\* Two functions that agree on the offsets above n give the same above n - NameOffset.
LEMMA StepAgrees ==
  ASSUME NEW buf, buf.len \in Nat, NEW n \in Int, NEW g, NEW h,
         \A p \in Offsets(buf) : SizeAt(buf, p) \in Nat /\ SizeAt(buf, p) >= NameOffset,
         \A p \in Offsets(buf) : p > n => g[p] = h[p]
  PROVE  \A p \in Offsets(buf) : p > n - NameOffset => Step(buf, g)[p] = Step(buf, h)[p]
<1>. SUFFICES ASSUME NEW p \in Offsets(buf), p > n - NameOffset, ~Ends(buf, p)
              PROVE  g[p + SizeAt(buf, p)] = h[p + SizeAt(buf, p)]
  BY DEF Step
<1>. DEFINE q == p + SizeAt(buf, p)
<1>1. q \in Offsets(buf) /\ q > n
  BY DEF Offsets, Ends, NameOffset
<1>. QED
  BY <1>1

\* There is one for a buffer of four smallest entries at most: unfolded four times, Step
\* no longer depends on what it began with.
LEMMA StepFixed ==
  ASSUME NEW buf, buf.len \in 0..96,
         \A p \in Offsets(buf) : SizeAt(buf, p) \in Nat /\ SizeAt(buf, p) >= NameOffset
  PROVE  \E g : g = Step(buf, g)
<1>. DEFINE g0 == [p \in Offsets(buf) |-> <<>>]
            g1 == Step(buf, g0)
            g2 == Step(buf, g1)
            g3 == Step(buf, g2)
            g4 == Step(buf, g3)
            g5 == Step(buf, g4)
<1>1. \A p \in Offsets(buf) : p > 72 => g0[p] = g1[p]
  <2>. SUFFICES ASSUME NEW p \in Offsets(buf), p > 72 PROVE Ends(buf, p)
    BY DEF Step
  <2>. QED
    BY DEF Ends, Offsets, NameOffset
<1>. HIDE DEF g0, g1, g2, g3, g4, g5
<1>2. \A p \in Offsets(buf) : p > 48 => g1[p] = g2[p]
  <2>1. \A p \in Offsets(buf) : p > 72 - NameOffset => Step(buf, g0)[p] = Step(buf, g1)[p]
    BY <1>1, StepAgrees
  <2>. QED
    BY <2>1 DEF g1, g2, NameOffset, Offsets
<1>3. \A p \in Offsets(buf) : p > 24 => g2[p] = g3[p]
  <2>1. \A p \in Offsets(buf) : p > 48 - NameOffset => Step(buf, g1)[p] = Step(buf, g2)[p]
    BY <1>2, StepAgrees
  <2>. QED
    BY <2>1 DEF g2, g3, NameOffset, Offsets
<1>4. \A p \in Offsets(buf) : p > 0 => g3[p] = g4[p]
  <2>1. \A p \in Offsets(buf) : p > 24 - NameOffset => Step(buf, g2)[p] = Step(buf, g3)[p]
    BY <1>3, StepAgrees
  <2>. QED
    BY <2>1 DEF g3, g4, NameOffset, Offsets
<1>5. \A p \in Offsets(buf) : g4[p] = g5[p]
  <2>1. \A p \in Offsets(buf) : p > 0 - NameOffset => Step(buf, g3)[p] = Step(buf, g4)[p]
    BY <1>4, StepAgrees
  <2>. QED
    BY <2>1 DEF g4, g5, NameOffset, Offsets
<1>6. g4 = g5
  BY <1>5 DEF g4, g5, Step
<1>. QED
  BY <1>6 DEF g5

\* A reply without entries.
LEMMA NoneParsed == Parsed(NoEntries) = <<>>
<1>1. NoEntries.len = 0 /\ DOMAIN NoEntries.at = {}
  BY DEF NoEntries
<1>2. \A p : SizeAt(NoEntries, p) = 24
  BY <1>1 DEF SizeAt, NameOffset
<1>3. PICK g : g = Step(NoEntries, g) /\ Parsed(NoEntries) = g[0]
  BY <1>1, <1>2, StepFixed, ParsedStep DEF NameOffset
<1>4. 0 \in Offsets(NoEntries) /\ Ends(NoEntries, 0)
  BY <1>1, <1>2 DEF Offsets, Ends, NameOffset
<1>. QED
  BY <1>3, <1>4 DEF Step

\* The three entries, and the reply they are packed into.
Dot    == [name |-> ".", off |-> 1, ino |-> 2]
DotDot == [name |-> "..", off |-> 2, ino |-> 3]
Volume == [name |-> "volume", off |-> 3, ino |-> 4]

\* An entry takes four words, whichever of the names is in it.
LEMMA EntrySizes ==
  \A name \in {".", "..", "volume"} : DirentAlign(NameOffset + NameLen[name]) = 32
BY DEF DirentAlign, NameOffset, NameLen

\* Each begins where the one before it ends.
LEMMA AllPacked ==
  LET buf == handle_readdir(0)
  IN /\ buf.len = 96 /\ DOMAIN buf.at = {0, 32, 64}
     /\ buf.at[0] = Dot /\ buf.at[32] = DotDot /\ buf.at[64] = Volume
<1>. DEFINE b1 == add_dir(NoEntries, ".", 1, 2)
            b2 == add_dir(b1, "..", 2, 3)
            b3 == add_dir(b2, "volume", 3, 4)
<1>1. /\ b1.len = 32 /\ DOMAIN b1.at = {0} /\ b1.at[0] = Dot
  BY EntrySizes DEF add_dir, NoEntries, Put, Dot
<1>2. /\ b2.len = 64 /\ DOMAIN b2.at = {0, 32} /\ b2.at[0] = Dot /\ b2.at[32] = DotDot
  <2>. HIDE DEF b1
  <2>. QED
    BY <1>1, EntrySizes DEF add_dir, Put, DotDot
<1>3. /\ b3.len = 96 /\ DOMAIN b3.at = {0, 32, 64}
      /\ b3.at[0] = Dot /\ b3.at[32] = DotDot /\ b3.at[64] = Volume
  <2>. HIDE DEF b2
  <2>. QED
    BY <1>2, EntrySizes DEF add_dir, Put, Volume
<1>4. handle_readdir(0) = b3
  BY DEF handle_readdir
<1>. QED
  BY <1>3, <1>4

\* An element before none, one or two others.
LEMMA Prepend ==
  ASSUME NEW a, NEW b, NEW c
  PROVE  /\ <<a>> \o <<>> = <<a>>
         /\ <<a>> \o <<b>> = <<a, b>>
         /\ <<a>> \o <<b, c>> = <<a, b, c>>
<1>. DEFINE S == {a, b, c}
<1>1. /\ <<a>> \in Seq(S) /\ Len(<<a>>) = 1 /\ <<a>>[1] = a
      /\ <<b>> \in Seq(S) /\ Len(<<b>>) = 1 /\ <<b>>[1] = b
      /\ <<b, c>> \in Seq(S) /\ Len(<<b, c>>) = 2 /\ <<b, c>>[1] = b /\ <<b, c>>[2] = c
      /\ <<a, b>> \in Seq(S) /\ Len(<<a, b>>) = 2 /\ <<a, b>>[1] = a /\ <<a, b>>[2] = b
      /\ <<a, b, c>> \in Seq(S) /\ Len(<<a, b, c>>) = 3
      /\ <<a, b, c>>[1] = a /\ <<a, b, c>>[2] = b /\ <<a, b, c>>[3] = c
  OBVIOUS
<1>. HIDE DEF S
<1>2. <<a>> \o <<>> = <<a>>
  BY <1>1, ConcatEmptySeq
<1>3. <<a>> \o <<b>> = <<a, b>>
  <2>. DEFINE d == <<a>> \o <<b>>
              e == <<a, b>>
  <2>1. d \in Seq(S) /\ Len(d) = 2 /\ d[1] = a /\ d[2] = b
    BY <1>1, ConcatProperties
  <2>2. e \in Seq(S) /\ Len(e) = 2 /\ e[1] = a /\ e[2] = b
    BY <1>1
  <2>. HIDE DEF d, e
  <2>3. d = e
    BY <2>1, <2>2, SeqEqual
  <2>. QED
    BY <2>3 DEF d, e
<1>4. <<a>> \o <<b, c>> = <<a, b, c>>
  <2>. DEFINE d == <<a>> \o <<b, c>>
              e == <<a, b, c>>
  <2>1. d \in Seq(S) /\ Len(d) = 3 /\ d[1] = a /\ d[2] = b /\ d[3] = c
    BY <1>1, ConcatProperties
  <2>2. e \in Seq(S) /\ Len(e) = 3 /\ e[1] = a /\ e[2] = b /\ e[3] = c
    BY <1>1
  <2>. HIDE DEF d, e
  <2>3. d = e
    BY <2>1, <2>2, SeqEqual
  <2>. QED
    BY <2>3 DEF d, e
<1>. QED
  BY <1>2, <1>3, <1>4

\* The kernel reads the three entries that were packed, and nothing else.
LEMMA AllParsed == Parsed(handle_readdir(0)) = <<Dot, DotDot, Volume>>
<1>. DEFINE buf == handle_readdir(0)
<1>1. /\ buf.len = 96 /\ DOMAIN buf.at = {0, 32, 64}
      /\ buf.at[0] = Dot /\ buf.at[32] = DotDot /\ buf.at[64] = Volume
  BY AllPacked
<1>. HIDE DEF buf
<1>2. \A p : SizeAt(buf, p) = IF p \in {0, 32, 64} THEN 32 ELSE 24
  <2>. SUFFICES ASSUME NEW p \in {0, 32, 64} PROVE SizeAt(buf, p) = 32
    BY <1>1 DEF SizeAt, NameOffset
  <2>1. buf.at[p].name \in {".", "..", "volume"}
    BY <1>1 DEF Dot, DotDot, Volume
  <2>. QED
    BY <1>1, <2>1, EntrySizes DEF SizeAt
<1>3. PICK g : g = Step(buf, g) /\ Parsed(buf) = g[0]
  BY <1>1, <1>2, StepFixed, ParsedStep DEF NameOffset
<1>4. {0, 32, 64, 96} \subseteq Offsets(buf)
  BY <1>1 DEF Offsets, NameOffset
<1>5. ~Ends(buf, 0) /\ ~Ends(buf, 32) /\ ~Ends(buf, 64) /\ Ends(buf, 96)
  BY <1>1, <1>2 DEF Ends, NameOffset
<1>6. EntryAt(buf, 0) = Dot /\ EntryAt(buf, 32) = DotDot /\ EntryAt(buf, 64) = Volume
  BY <1>1 DEF EntryAt
<1>7. g[0] = <<Dot>> \o g[32] /\ g[32] = <<DotDot>> \o g[64] /\ g[64] = <<Volume>> \o g[96]
      /\ g[96] = <<>>
  <2>1. \A p \in {0, 32, 64} : g[p] = <<EntryAt(buf, p)>> \o g[p + 32]
    <3>. SUFFICES ASSUME NEW p \in {0, 32, 64}
                  PROVE  g[p] = <<EntryAt(buf, p)>> \o g[p + 32]
      OBVIOUS
    <3>1. p \in Offsets(buf) /\ ~Ends(buf, p) /\ SizeAt(buf, p) = 32
      BY <1>2, <1>4, <1>5
    <3>2. g[p] = Step(buf, g)[p]
      BY <1>3
    <3>. QED
      BY <3>1, <3>2 DEF Step
  <2>2. g[96] = <<>>
    <3>1. g[96] = Step(buf, g)[96]
      BY <1>3
    <3>. QED
      BY <3>1, <1>4, <1>5 DEF Step
  <2>3. g[0] = <<EntryAt(buf, 0)>> \o g[0 + 32]
    BY <2>1
  <2>4. g[32] = <<EntryAt(buf, 32)>> \o g[32 + 32]
    BY <2>1
  <2>5. g[64] = <<EntryAt(buf, 64)>> \o g[64 + 32]
    BY <2>1
  <2>. QED
    <3>1. 0 + 32 = 32 /\ 32 + 32 = 64 /\ 64 + 32 = 96
      OBVIOUS
    <3>. QED
      BY <1>6, <2>2, <2>3, <2>4, <2>5, <3>1, Zenon
<1>8. g[64] = <<Volume>>
  BY <1>7, Prepend
<1>9. g[32] = <<DotDot, Volume>>
  <2>1. <<DotDot>> \o <<Volume>> = <<DotDot, Volume>>
    BY Prepend, Zenon
  <2>. QED
    BY <1>7, <1>8, <2>1, Zenon
<1>10. g[0] = <<Dot, DotDot, Volume>>
  <2>1. <<Dot>> \o <<DotDot, Volume>> = <<Dot, DotDot, Volume>>
    BY Prepend, Zenon
  <2>. QED
    BY <1>7, <1>9, <2>1, Zenon
<1>. QED
  BY <1>3, <1>10 DEF buf

AllNames == <<".", "..", "volume">>

\* A user has read nothing, or all; only then is nothing left.
DirInv ==
  \/ dir = [off |-> 0, names |-> <<>>, done |-> FALSE]
  \/ dir.off = 3 /\ dir.names = AllNames /\ dir.done \in BOOLEAN
     /\ dir = [off |-> dir.off, names |-> dir.names, done |-> dir.done]

\* The names of the entries that one READDIR gives.
LEMMA NamesOfAll ==
  LET new == <<Dot, DotDot, Volume>>
  IN /\ new # <<>> /\ new[Len(new)].off = 3
     /\ <<>> \o [i \in 1..Len(new) |-> new[i].name] = AllNames
<1>. DEFINE new   == <<Dot, DotDot, Volume>>
            names == [i \in 1..Len(new) |-> new[i].name]
            S     == {".", "..", "volume"}
<1>1. Len(new) = 3 /\ new[1] = Dot /\ new[2] = DotDot /\ new[3] = Volume
  OBVIOUS
<1>. HIDE DEF new
<1>2. names \in Seq(S) /\ Len(names) = 3 /\ names[1] = "." /\ names[2] = ".." /\ names[3] = "volume"
  BY <1>1 DEF Dot, DotDot, Volume
<1>3. /\ AllNames \in Seq(S) /\ Len(AllNames) = 3
      /\ AllNames[1] = "." /\ AllNames[2] = ".." /\ AllNames[3] = "volume"
  BY DEF AllNames
<1>4. new # <<>> /\ new[Len(new)].off = 3
  <2>1. Len(<<>>) = 0
    OBVIOUS
  <2>. QED
    BY <1>1, <2>1 DEF Volume
<1>. HIDE DEF names, S
<1>5. names = AllNames
  BY <1>2, <1>3, SeqEqual
<1>6. <<>> \o names = names
  BY <1>2, ConcatEmptySeq
<1>. QED
  BY <1>4, <1>5, <1>6 DEF new, names

\* One READDIR gives all the entries, the next none.
LEMMA ReaddirKeeps ==
  ASSUME DirInv, Readdir
  PROVE  DirInv'
<1>. DEFINE new == Parsed(handle_readdir(dir.off))
<1>1. /\ ~dir.done
      /\ dir' = IF new = <<>> THEN [dir EXCEPT !.done = TRUE]
                ELSE [dir EXCEPT !.names = @ \o [i \in 1..Len(new) |-> new[i].name],
                                 !.off = new[Len(new)].off]
  BY DEF Readdir
<1>2. CASE dir = [off |-> 0, names |-> <<>>, done |-> FALSE]
  <2>1. new = <<Dot, DotDot, Volume>>
    BY <1>2, AllParsed
  <2>. HIDE DEF new
  <2>2. /\ new # <<>> /\ new[Len(new)].off = 3
        /\ <<>> \o [i \in 1..Len(new) |-> new[i].name] = AllNames
    BY <2>1, NamesOfAll
  <2>3. dir' = [dir EXCEPT !.names = @ \o [i \in 1..Len(new) |-> new[i].name],
                           !.off = new[Len(new)].off]
    BY <1>1, <2>2
  <2>4. dir' = [off |-> 3, names |-> AllNames, done |-> FALSE]
    BY <1>2, <2>2, <2>3
  <2>. QED
    BY <2>4 DEF DirInv
<1>3. CASE /\ dir.off = 3 /\ dir.names = AllNames
           /\ dir = [off |-> dir.off, names |-> dir.names, done |-> dir.done]
  <2>1. new = <<>>
    BY <1>3, NoneParsed DEF handle_readdir
  <2>. HIDE DEF new
  <2>2. dir' = [dir EXCEPT !.done = TRUE]
    BY <1>1, <2>1
  <2>3. dir' = [off |-> 3, names |-> AllNames, done |-> TRUE]
    BY <1>3, <2>2
  <2>. QED
    BY <2>3 DEF DirInv
<1>. QED
  BY <1>2, <1>3 DEF DirInv

\* Whatever else happens, a listing is empty or whole.
THEOREM ListingHolds == Spec => []DirInv
<1>1. Init => DirInv
  BY DEF Init, DirInv
<1>2. DirInv /\ [Next]_vars => DirInv'
  <2>. SUFFICES ASSUME DirInv, [Next]_vars PROVE DirInv'
    OBVIOUS
  <2>1. CASE Readdir
    BY <2>1, ReaddirKeeps
  <2>2. CASE Opendir
    BY <2>2 DEF Opendir, DirInv
  <2>3. CASE UNCHANGED dir
    BY <2>3 DEF DirInv
  <2>. QED
    BY <2>1, <2>2, <2>3 DEF Next, vars, fuseuring_run, Take, handle_setattr, handle_open,
       ReadSplice, ReadReply, handle_write
<1>. QED
  BY <1>1, <1>2, PTL DEF Spec

\* A user who lists the directory, going on at the last entry's offset, gets its three names
\* once each and comes to an end: what add_dir packs is what the kernel reads.
THEOREM DirectoryListed == Spec => []ListedOnce
<1>1. DirInv => ListedOnce
  <2>1. CASE dir = [off |-> 0, names |-> <<>>, done |-> FALSE]
    <3>1. dir.names = <<>> /\ dir.done = FALSE
      BY <2>1
    <3>. QED
      BY <3>1, Zenon DEF ListedOnce
  <2>2. CASE dir.names = AllNames
    BY <2>2, Zenon DEF ListedOnce, AllNames
  <2>. QED
    BY <2>1, <2>2 DEF DirInv
<1>. QED
  BY <1>1, ListingHolds, PTL

\* The types of the file, the workers' sizes, the calls and the listing.
THEOREM TypeCorrect == Spec => []TypeOK
<1>1. VInv /\ DirInv => TypeOK
  <2>. SUFFICES ASSUME VInv, DirInv PROVE TypeOK
    OBVIOUS
  <2>1. ASSUME NEW c \in Calls, call[c] # NoCall
        PROVE  call[c] \in [op : Ops, w : Started, off : 0..MaxSize, size : 0..(SizeMod - 1),
                            at : {"taken", "spliced"}]
    BY <2>1 DEF VInv, CallInv, Call
  <2>2. dir.off \in 0..3 /\ dir.done \in BOOLEAN /\ Len(dir.names) <= 3
    <3>1. Len(<<>>) = 0 /\ Len(AllNames) = 3
      BY DEF AllNames
    <3>2. \/ dir.off = 0 /\ dir.names = <<>> /\ dir.done = FALSE
          \/ dir.off = 3 /\ dir.names = AllNames /\ dir.done \in BOOLEAN
      BY DEF DirInv
    <3>3. Len(dir.names) \in {0, 3}
      BY <3>1, <3>2
    <3>4. dir.off \in {0, 3} /\ dir.done \in BOOLEAN
      BY <3>2
    <3>5. \A n \in {0, 3} : n \in 0..3 /\ n <= 3
      OBVIOUS
    <3>. QED
      BY <3>3, <3>4, <3>5, Zenon
  <2>. QED
    BY <2>1, <2>2 DEF TypeOK, VInv, Ops
<1>. QED
  BY <1>1, SizesHold, ListingHolds, PTL
=============================================================================
