--------------------------- MODULE TfStateProofs ---------------------------
(***************************************************************************)
(* For every set of projects, bodies and requests: what Terraform reads,   *)
(* and what a wipe leaves, however the system calls of requests interleave.*)
(***************************************************************************)
EXTENDS TfState, FiniteSetTheorems, SequenceTheorems, TLAPS

-----------------------------------------------------------------------------
(* The invariant.                                                          *)

(* The first k chunks of a body.                                           *)
Part(b, k) == [i \in 1..k |-> <<b, i>>]

WritersOf(n, hs) == {h \in Handler : hs[h].pc = "writing" /\ hs[h].inode = n}

(* How far one save of an inode has come.                                  *)
Saving(w, node) ==
  /\ w.body = node.saved
  /\ node.chunks = Part(w.body, w.off)

(* What is in an inode that is in use, but for two saves at once and saves *)
(* left unfinished: all of a body, or what its only writer has written.    *)
InodeOK(n, node, hs) ==
  /\ node.saved \in Body
  /\ ~node.torn =>
       /\ \A g, h \in WritersOf(n, hs) : g = h
       /\ \A h \in WritersOf(n, hs) : Saving(hs[h], node)
       /\ WritersOf(n, hs) = {} => node.chunks = Whole(node.saved)

(* A writer is not past its body; a restored file is written at once.      *)
WriterOK(s) ==
  s.pc = "writing" =>
    /\ s.off <= Size[s.body]
    /\ s.op = "RESTORE" => s.off \in {0, Size[s.body]}

(* A read that began on a whole file, with no save since, has a part of it.*)
ReaderOK(s, nodes, hs) ==
  /\ s.pc = "reading" /\ s.clean =>
       /\ ~nodes[s.inode].torn /\ WritersOf(s.inode, hs) = {}
       /\ Len(s.got) <= Len(nodes[s.inode].chunks)
       /\ \A i \in 1..Len(s.got) : s.got[i] = nodes[s.inode].chunks[i]
  /\ s.pc = "answered" /\ s.status = 200 /\ s.clean => s.got \in Bodies

(* What a wipe saw is gone from the directory or still to be removed.      *)
WiperOK(s, d) ==
  /\ s.pc = "wiping" => \A f \in File : d[f] \in s.seen => f \in s.todo
  /\ s.pc = "wiped" => \A f \in File : d[f] \notin s.seen

(* The inodes a request keeps from being used again.                       *)
Kept(s) == IF s.pc \in {"reading", "writing"} THEN {s.inode}
           ELSE IF s.pc \in {"wiping", "wiped"} THEN s.seen ELSE {}

(* They are no more than there are file names.                             *)
FewKept(s) ==
  \E e \in [File -> Inode \cup {None}] : \A n \in Kept(s) : \E f \in File : n = e[f]

HandlerOK(s) == WriterOK(s) /\ FewKept(s)

IInv ==
  /\ TypeOK
  /\ \A n \in InUse(dir, handler) : InodeOK(n, inode[n], handler)
  /\ \A h \in Handler : /\ HandlerOK(handler[h])
                        /\ ReaderOK(handler[h], inode, handler)
                        /\ WiperOK(handler[h], dir)

-----------------------------------------------------------------------------
(* Chunks.                                                                 *)

LEMMA Parts ==
  ASSUME NEW b \in Body, NEW k \in 0..Size[b]
  PROVE  /\ Part(b, k) \in Chunks /\ Len(Part(b, k)) = k
         /\ \A i \in 1..k : Part(b, k)[i] = <<b, i>>
         /\ Part(b, Size[b]) = Whole(b) /\ Part(b, 0) = <<>>
<1>1. Size[b] \in Nat /\ k \in Nat
  BY TfStateAssumption
<1>2. \A i \in 1..k : <<b, i>> \in Chunk
  BY <1>1 DEF Chunk
<1>. QED
  BY <1>1, <1>2 DEF Part, Whole, Chunks

LEMMA WriteNext ==
  ASSUME NEW b \in Body, NEW k \in Nat, k < Size[b],
         NEW chunks \in Chunks
  PROVE  LET c == WriteAt(chunks, k + 1, <<b, k + 1>>)
         IN /\ c \in Chunks
            /\ chunks = Part(b, k) => c = Part(b, k + 1)
<1>. DEFINE c == WriteAt(chunks, k + 1, <<b, k + 1>>)
            top == IF Len(chunks) < k + 1 THEN k + 1 ELSE Len(chunks)
<1>1. Size[b] \in Nat /\ Len(chunks) \in Nat /\ top \in Nat
  BY TfStateAssumption DEF Chunks
<1>2. <<b, k + 1>> \in Chunk
  BY <1>1 DEF Chunk
<1>3. \A j \in 1..Len(chunks) : chunks[j] \in Chunk \cup {Hole}
  BY DEF Chunks
<1>4. c = [j \in 1..top |-> IF j = k + 1 THEN <<b, k + 1>>
                           ELSE IF j <= Len(chunks) THEN chunks[j] ELSE Hole]
  BY DEF WriteAt
<1>5. c \in [1..top -> Chunk \cup {Hole}]
  <2>. DEFINE new == <<b, k + 1>>
  <2>1. \A j \in 1..top : j <= Len(chunks) => j \in 1..Len(chunks)
    BY <1>1
  <2>. HIDE DEF new, top
  <2>2. c = [j \in 1..top |-> IF j = k + 1 THEN new
                              ELSE IF j <= Len(chunks) THEN chunks[j] ELSE Hole]
    BY <1>4 DEF new
  <2>3. new \in Chunk
    BY <1>2 DEF new
  <2>. HIDE DEF c
  <2>4. \A j \in 1..top :
          (IF j = k + 1 THEN new ELSE IF j <= Len(chunks) THEN chunks[j] ELSE Hole)
            \in Chunk \cup {Hole}
    BY <1>3, <2>1, <2>3
  <2>. QED
    BY <2>2, <2>4
<1>6. c \in Chunks
  <2>. HIDE DEF c, top
  <2>. QED
    BY <1>1, <1>5 DEF Chunks
<1>7. ASSUME chunks = Part(b, k) PROVE c = Part(b, k + 1)
  <2>1. Len(chunks) = k /\ \A j \in 1..k : chunks[j] = <<b, j>>
    BY <1>1, <1>7, Parts
  <2>2. top = k + 1
    BY <2>1
  <2>3. ASSUME NEW j \in 1..(k + 1) PROVE c[j] = <<b, j>>
    <3>1. j # k + 1 => j \in 1..k /\ j <= Len(chunks)
      BY <2>1
    <3>2. c[j] = IF j = k + 1 THEN <<b, k + 1>>
                 ELSE IF j <= Len(chunks) THEN chunks[j] ELSE Hole
      BY <1>4, <2>2
    <3>. HIDE DEF c
    <3>. QED
      BY <2>1, <3>1, <3>2
  <2>. QED
    BY <1>4, <2>2, <2>3 DEF Part
<1>. QED
  BY <1>6, <1>7

LEMMA WriteWhole ==
  ASSUME NEW b \in Body, NEW chunks \in Chunks
  PROVE  LET c == Whole(b) \o SubSeq(chunks, Size[b] + 1, Len(chunks))
         IN /\ c \in Chunks
            /\ chunks = Part(b, 0) => c = Part(b, Size[b])
<1>. DEFINE rest == SubSeq(chunks, Size[b] + 1, Len(chunks))
<1>1. Size[b] \in Nat /\ Len(chunks) \in Nat
  BY TfStateAssumption DEF Chunks
<1>2. Whole(b) \in Chunks /\ Whole(b) = Part(b, Size[b]) /\ Part(b, 0) = <<>>
  BY <1>1, Parts
<1>3. rest \in Chunks
  BY <1>1 DEF Chunks
<1>4. Whole(b) \o rest \in Chunks
  BY <1>2, <1>3 DEF Chunks
<1>5. ASSUME chunks = Part(b, 0) PROVE Whole(b) \o rest = Part(b, Size[b])
  <2>1. rest = <<>>
    BY <1>1, <1>2, <1>5
  <2>. HIDE DEF rest
  <2>2. Whole(b) \o rest = Whole(b)
    BY <1>2, <2>1, ConcatEmptySeq DEF Chunks
  <2>. QED
    BY <1>2, <2>2
<1>. QED
  BY <1>4, <1>5

-----------------------------------------------------------------------------
(* Inodes in use and free.                                                 *)

LEMMA Using ==
  ASSUME NEW d, NEW hs, NEW n
  PROVE  n \in InUse(d, hs) <=>
           \/ n # None /\ \E f \in File : d[f] = n
           \/ \E h \in Handler : hs[h].pc \in {"reading", "writing"} /\ hs[h].inode = n
BY DEF InUse

LEMMA Fields ==
  ASSUME NEW s \in HandlerState
  PROVE  /\ s.pc \in {"idle", "opening", "reading", "creating", "writing",
                      "wiping", "answered", "wiped"}
         /\ s.pc \in {"opening", "reading", "creating", "writing", "answered"}
              => s.op \in Op
         /\ s.pc \in {"opening", "creating"} => s.file \in File
         /\ s.pc \in {"reading", "writing"} => s.inode \in Inode
         /\ s.pc \in {"creating", "writing"} => s.body \in Body
         /\ s.pc \in {"reading", "answered"} =>
              s.got \in Chunks /\ s.clean \in BOOLEAN
         /\ s.pc = "writing" => s.off \in Nat
         /\ s.pc = "wiping" => s.todo \in SUBSET File
         /\ s.pc \in {"wiping", "wiped"} => s.seen \in SUBSET Inode
BY DEF HandlerState, Idle

LEMMA Files == IsFiniteSet(File) /\ Cardinality(File) \in Nat
<1>1. IsFiniteSet(Project) /\ IsFiniteSet({"json", "json.lock"})
  <2>1. {"json", "json.lock"} = {"json"} \cup {"json.lock"}
    OBVIOUS
  <2>2. IsFiniteSet({"json"}) /\ IsFiniteSet({"json.lock"})
    BY FS_Singleton
  <2>3. IsFiniteSet({"json"} \cup {"json.lock"})
    BY <2>2, FS_Union
  <2>4. IsFiniteSet(Project)
    BY TfStateAssumption
  <2>. QED
    BY <2>1, <2>3, <2>4
<1>2. IsFiniteSet(Project \X {"json", "json.lock"})
  BY <1>1, FS_Product
<1>3. File \in SUBSET (Project \X {"json", "json.lock"})
  BY DEF File, StateFile, LockFile
<1>. QED
  BY <1>2, <1>3, FS_Subset, FS_CardinalityType

(* Each request keeps at most as many inodes as there are files, and the   *)
(* directory names as many: there are more.                                *)
LEMMA FreeExists ==
  ASSUME dir \in [File -> Inode \cup {None}],
         \A h \in Handler : FewKept(handler[h])
  PROVE  \E n \in Inode : n \notin InUse(dir, handler) \cup Remembered
<1>. SUFFICES ASSUME \A n \in Inode : n \in InUse(dir, handler) \cup Remembered
              PROVE  FALSE
  OBVIOUS
<1>1. PICK k \in [Handler -> [File -> Inode \cup {None}]] :
        \A h \in Handler : \A n \in Kept(handler[h]) : \E f \in File : n = k[h][f]
  <2>. DEFINE k == [h \in Handler |->
                     CHOOSE e \in [File -> Inode \cup {None}] :
                       \A n \in Kept(handler[h]) : \E f \in File : n = e[f]]
  <2>1. k \in [Handler -> [File -> Inode \cup {None}]]
    BY DEF FewKept
  <2>2. \A h \in Handler : \A n \in Kept(handler[h]) : \E f \in File : n = k[h][f]
    BY DEF FewKept
  <2>. QED
    BY <2>1, <2>2
<1>. DEFINE Who == Handler \cup {None}
            Names == File \X Who
            at == [x \in Names |-> IF x[2] = None THEN dir[x[1]] ELSE k[x[2]][x[1]]]
            found == {at[x] : x \in Names}
<1>2. \A n \in Inode : n \in found
  <2>1. ASSUME NEW f \in File PROVE dir[f] \in found
    <3>1. <<f, None>> \in Names /\ at[<<f, None>>] = dir[f]
      OBVIOUS
    <3>. QED
      BY <3>1
  <2>2. ASSUME NEW h \in Handler, NEW n \in Kept(handler[h]) PROVE n \in found
    <3>1. PICK f \in File : n = k[h][f]
      BY <1>1, <2>2
    <3>2. <<f, h>> \in Names /\ at[<<f, h>>] = k[h][f]
      BY TfStateAssumption
    <3>. QED
      BY <3>1, <3>2
  <2>3. ASSUME NEW n \in Inode
        PROVE  \/ \E f \in File : dir[f] = n
               \/ \E h \in Handler : n \in Kept(handler[h])
    BY Using DEF Remembered, Kept
  <2>. QED
    BY <2>1, <2>2, <2>3
<1>3. /\ IsFiniteSet(Names)
      /\ Cardinality(Names) = Cardinality(File) * (Cardinality(Handler) + 1)
  <2>1. IsFiniteSet(Who) /\ Cardinality(Who) = Cardinality(Handler) + 1
    BY TfStateAssumption, FS_AddElement
  <2>. HIDE DEF Who
  <2>2. IsFiniteSet(Names) /\ Cardinality(Names) = Cardinality(File) * Cardinality(Who)
    BY <2>1, Files, FS_Product
  <2>. QED
    BY <2>1, <2>2
<1>4. IsFiniteSet(found) /\ Cardinality(found) <= Cardinality(Names)
  <2>1. at \in Surjection(Names, found)
    BY DEF Surjection
  <2>. HIDE DEF at, found, Names
  <2>. QED
    BY <1>3, <2>1, FS_Surjection
<1>5. Cardinality(Inode) <= Cardinality(found)
  <2>. HIDE DEF found
  <2>. QED
    BY <1>2, <1>4, FS_Subset
<1>6. /\ Cardinality(Inode) \in Nat /\ Cardinality(found) \in Nat
      /\ Cardinality(Names) \in Nat
  <2>. HIDE DEF found, Names
  <2>. QED
    BY <1>2, <1>3, <1>4, FS_CardinalityType, FS_Subset
<1>. HIDE DEF found, Names
<1>. QED
  BY <1>3, <1>4, <1>5, <1>6, TfStateAssumption

LEMMA FreeInodeIsFree ==
  ASSUME IInv
  PROVE  /\ FreeInode \in Inode /\ FreeInode # None
         /\ FreeInode \notin InUse(dir, handler)
         /\ \A h \in Handler : handler[h].pc \in {"wiping", "wiped"}
              => FreeInode \notin handler[h].seen
<1>1. \E n \in Inode : n \notin InUse(dir, handler) \cup Remembered
  BY FreeExists DEF IInv, TypeOK, HandlerOK
<1>2. FreeInode \in Inode /\ FreeInode \notin InUse(dir, handler) \cup Remembered
  BY <1>1 DEF FreeInode
<1>. QED
  BY <1>2, TfStateAssumption DEF Remembered

LEMMA Contents ==
  ASSUME NEW contents \in [Inode -> InodeState], Inodes(contents)
  PROVE  /\ inode' \in [Inode -> InodeState]
         /\ \A n \in Inode : inode'[n] = IF n \in InUse(dir', handler')
                                         THEN contents[n] ELSE Unused
<1>1. inode' = [n \in Inode |-> IF n \in InUse(dir', handler')
                                THEN contents[n] ELSE Unused]
  BY DEF Inodes
<1>2. Unused \in InodeState
  BY DEF Unused, InodeState, Chunks
<1>. QED
  BY <1>1, <1>2

LEMMA UsedIsInode ==
  ASSUME TypeOK, NEW n \in InUse(dir, handler)
  PROVE  n \in Inode
BY Using, Fields DEF TypeOK

(* A read is as it was if its inode is, and nobody new writes there.       *)
LEMMA StillReading ==
  ASSUME NEW s, NEW nodes, NEW now, NEW hs, NEW gs, ReaderOK(s, nodes, hs),
         s.pc = "reading" => now[s.inode] = nodes[s.inode],
         WritersOf(s.inode, hs) = {} => WritersOf(s.inode, gs) = {}
  PROVE  ReaderOK(s, now, gs)
BY DEF ReaderOK

-----------------------------------------------------------------------------
(* Kinds of steps.                                                         *)

(* A request goes on without writing; perhaps names are removed.           *)
LEMMA QuietStep ==
  ASSUME IInv, NEW h \in Handler, NEW s \in HandlerState,
         handler' = [handler EXCEPT ![h] = s],
         dir' \in [File -> Inode \cup {None}],
         \A f \in File : dir'[f] \in {dir[f], None},
         Inodes(inode),
         handler[h].pc = "writing" => handler[h].off = Size[handler[h].body],
         s.pc # "writing",
         s.pc = "reading" => s.inode \in InUse(dir, handler),
         HandlerOK(s), ReaderOK(s, inode, handler), WiperOK(s, dir')
  PROVE  IInv'
<1>1. /\ dir \in [File -> Inode \cup {None}] /\ inode \in [Inode -> InodeState]
      /\ handler \in [Handler -> HandlerState]
      /\ \A f, g \in File : dir[f] = dir[g] /\ dir[f] # None => f = g
  BY DEF IInv, TypeOK
<1>2. /\ handler' \in [Handler -> HandlerState] /\ handler'[h] = s
      /\ \A g \in Handler : g # h => handler'[g] = handler[g]
  BY <1>1
<1>3. \A n \in InUse(dir', handler') : n \in InUse(dir, handler) /\ n \in Inode
  <2>1. ASSUME NEW n \in InUse(dir', handler') PROVE n \in InUse(dir, handler)
    <3>1. CASE n # None /\ \E f \in File : dir'[f] = n
      BY <3>1, Using
    <3>2. ASSUME NEW g \in Handler, handler'[g].pc \in {"reading", "writing"},
                 handler'[g].inode = n
          PROVE  n \in InUse(dir, handler)
      <4>1. CASE g = h
        <5>1. s.pc = "reading" /\ s.inode = n
          BY <1>2, <3>2, <4>1
        <5>. QED
          BY <5>1
      <4>2. CASE g # h
        <5>1. handler[g].pc \in {"reading", "writing"} /\ handler[g].inode = n
          BY <1>2, <3>2, <4>2
        <5>. QED
          BY <5>1, Using
      <4>. QED
        BY <4>1, <4>2
    <3>3. \/ n # None /\ \E f \in File : dir'[f] = n
          \/ \E g \in Handler : handler'[g].pc \in {"reading", "writing"}
                              /\ handler'[g].inode = n
      BY <2>1 DEF InUse
    <3>. QED
      BY <3>1, <3>2, <3>3
  <2>. QED
    BY <2>1, UsedIsInode DEF IInv
<1>4. /\ inode' \in [Inode -> InodeState]
      /\ \A n \in InUse(dir', handler') : inode'[n] = inode[n]
  BY <1>1, <1>3, Contents
<1>5. \A n : WritersOf(n, handler') = WritersOf(n, handler) \ {h}
  BY <1>2 DEF WritersOf
<1>6. TypeOK'
  BY <1>1, <1>2, <1>4 DEF TypeOK
<1>7. ASSUME NEW n \in InUse(dir', handler')
      PROVE  InodeOK(n, inode'[n], handler')
  <2>1. InodeOK(n, inode[n], handler) /\ inode'[n] = inode[n]
    BY <1>3, <1>4 DEF IInv
  <2>2. CASE h \notin WritersOf(n, handler)
    <3>1. WritersOf(n, handler') = WritersOf(n, handler)
      BY <1>5, <2>2
    <3>2. \A g \in WritersOf(n, handler) : handler'[g] = handler[g]
      BY <1>2, <2>2 DEF WritersOf
    <3>. QED
      BY <2>1, <3>1, <3>2 DEF InodeOK
  <2>3. CASE h \in WritersOf(n, handler)
    <3>1. SUFFICES ASSUME ~inode[n].torn
                   PROVE  /\ WritersOf(n, handler') = {}
                          /\ inode[n].chunks = Whole(inode[n].saved)
      BY <2>1 DEF InodeOK
    <3>2. WritersOf(n, handler') = {}
      BY <1>5, <2>1, <2>3, <3>1 DEF InodeOK
    <3>3. Saving(handler[h], inode[n]) /\ handler[h].pc = "writing"
      BY <2>1, <2>3, <3>1 DEF InodeOK, WritersOf
    <3>. QED
      BY <3>2, <3>3 DEF Saving, Part, Whole
  <2>. QED
    BY <2>2, <2>3
<1>8. ASSUME NEW g \in Handler PROVE ReaderOK(handler'[g], inode', handler')
  <2>1. ReaderOK(handler'[g], inode, handler)
    BY <1>2 DEF IInv
  <2>2. handler'[g].pc = "reading" => handler'[g].inode \in InUse(dir', handler')
    BY Using
  <2>3. PICK t : t = handler'[g]
    OBVIOUS
  <2>4. t.pc = "reading" => inode'[t.inode] = inode[t.inode]
    BY <1>4, <2>2, <2>3
  <2>5. WritersOf(t.inode, handler) = {} => WritersOf(t.inode, handler') = {}
    BY <1>5
  <2>6. ReaderOK(t, inode, handler)
    BY <2>1, <2>3
  <2>7. ReaderOK(t, inode', handler')
    BY <2>4, <2>5, <2>6, StillReading
  <2>. QED
    BY <2>3, <2>7
<1>9. ASSUME NEW g \in Handler PROVE WiperOK(handler'[g], dir')
  <2>1. CASE g = h
    BY <1>2, <2>1
  <2>2. CASE g # h
    <3>1. WiperOK(handler[g], dir) /\ handler'[g] = handler[g]
      BY <1>2, <2>2 DEF IInv
    <3>2. handler[g].pc \in {"wiping", "wiped"} => None \notin handler[g].seen
      BY <1>1, Fields, TfStateAssumption
    <3>. QED
      BY <3>1, <3>2 DEF WiperOK
  <2>. QED
    BY <2>1, <2>2
<1>10. \A g \in Handler : HandlerOK(handler'[g])
  BY <1>2 DEF IInv
<1>. QED
  BY <1>6, <1>7, <1>8, <1>9, <1>10 DEF IInv

LEMMA Unclean ==
  ASSUME NEW s \in HandlerState, s.pc = "reading"
  PROVE  LET t == [s EXCEPT !.clean = FALSE]
         IN /\ t \in HandlerState /\ t.pc = "reading" /\ t.inode = s.inode
            /\ t.clean = FALSE
<1>. DEFINE Readers == [pc : {"reading"}, op : Op, inode : Inode, got : Chunks,
                         clean : BOOLEAN]
<1>1. s \in Readers
  BY DEF HandlerState, Idle
<1>2. PICK t : t = [s EXCEPT !.clean = FALSE]
  OBVIOUS
<1>3. t \in Readers /\ t.pc = "reading" /\ t.inode = s.inode /\ t.clean = FALSE
  BY <1>1, <1>2
<1>4. Readers \subseteq HandlerState
  BY DEF HandlerState
<1>. QED
  BY <1>2, <1>3, <1>4

(* A file is opened and cut off.                                           *)
LEMMA OpenStep ==
  ASSUME IInv, NEW h \in Handler, NEW op \in Op, NEW f \in File, NEW b \in Body,
         handler[h].pc \in {"idle", "creating"},
         OpenTrunc(h, op, f, b)
  PROVE  IInv'
<1>1. /\ dir \in [File -> Inode \cup {None}] /\ inode \in [Inode -> InodeState]
      /\ handler \in [Handler -> HandlerState]
      /\ \A g, k \in File : dir[g] = dir[k] /\ dir[g] # None => g = k
  BY DEF IInv, TypeOK
<1>2. PICK n : n = IF dir[f] = None THEN FreeInode ELSE dir[f]
  OBVIOUS
<1>3. /\ n \in Inode /\ n # None
      /\ dir[f] = None => n \notin InUse(dir, handler)
  BY <1>1, <1>2, FreeInodeIsFree
<1>4. PICK s, node :
        /\ s = Writing(op, n, b)
        /\ node = [chunks |-> <<>>, saved |-> b, torn |-> Writers(n) # {}]
  OBVIOUS
<1>5. /\ dir' = [dir EXCEPT ![f] = n]
      /\ handler' = [g \in Handler |->
           IF g = h THEN s
           ELSE IF handler[g].pc = "reading" /\ handler[g].inode = n
                THEN [handler[g] EXCEPT !.clean = FALSE]
                ELSE handler[g]]
      /\ Inodes([inode EXCEPT ![n] = node])
  BY <1>2, <1>4 DEF OpenTrunc
<1>6. /\ s \in HandlerState /\ s.pc = "writing" /\ s.inode = n /\ s.body = b
      /\ s.off = 0
  BY <1>3, <1>4 DEF Writing, HandlerState
<1>7. /\ node \in InodeState /\ node.chunks = <<>> /\ node.saved = b
      /\ node.torn = (Writers(n) # {})
  BY <1>4 DEF InodeState, Chunks
<1>8. handler'[h] = s
  BY <1>5
<1>9. ASSUME NEW g \in Handler, g # h
      PROVE  \/ handler'[g] = handler[g]
                /\ ~(handler[g].pc = "reading" /\ handler[g].inode = n)
             \/ /\ handler[g].pc = "reading" /\ handler[g].inode = n
                /\ handler'[g] \in HandlerState /\ handler'[g].pc = "reading"
                /\ handler'[g].inode = n /\ handler'[g].clean = FALSE
  <2>. DEFINE t == [handler[g] EXCEPT !.clean = FALSE]
  <2>1. handler'[g] = IF handler[g].pc = "reading" /\ handler[g].inode = n
                      THEN t ELSE handler[g]
    BY <1>5, <1>9
  <2>2. handler[g].pc = "reading" =>
          /\ t \in HandlerState /\ t.pc = "reading" /\ t.inode = handler[g].inode
          /\ t.clean = FALSE
    BY <1>1, Unclean
  <2>. HIDE DEF t
  <2>. QED
    BY <2>1, <2>2
<1>10. /\ handler' \in [Handler -> HandlerState]
       /\ \A g \in Handler : g # h =>
            /\ handler'[g].pc = handler[g].pc
            /\ handler'[g].pc \in {"reading", "writing"} =>
                 handler'[g].inode = handler[g].inode
  <2>1. \A g \in Handler : handler'[g] \in HandlerState
    BY <1>1, <1>6, <1>8, <1>9
  <2>2. DOMAIN handler' = Handler /\ handler' = [g \in Handler |-> handler'[g]]
    BY <1>5
  <2>3. \A g \in Handler : g # h => handler'[g].pc = handler[g].pc
    BY <1>9
  <2>4. \A g \in Handler : g # h =>
          (handler'[g].pc \in {"reading", "writing"} =>
             handler'[g].inode = handler[g].inode)
    BY <1>9
  <2>. QED
    BY <2>1, <2>2, <2>3, <2>4
<1>11. /\ dir' \in [File -> Inode \cup {None}] /\ dir'[f] = n
       /\ \A g \in File : g # f => dir'[g] = dir[g]
  BY <1>1, <1>3, <1>5
<1>12. ASSUME NEW m \in InUse(dir', handler'), m # n
       PROVE  m \in InUse(dir, handler) /\ m \in Inode
  <2>1. m \in InUse(dir, handler)
    BY <1>6, <1>8, <1>10, <1>11, <1>12, Using
  <2>. QED
    BY <2>1, UsedIsInode DEF IInv
<1>13. n \in InUse(dir', handler')
  BY <1>3, <1>11, Using
<1>14. /\ inode' \in [Inode -> InodeState] /\ inode'[n] = node
       /\ \A m \in InUse(dir', handler') : m # n => inode'[m] = inode[m]
  <2>1. [inode EXCEPT ![n] = node] \in [Inode -> InodeState]
    BY <1>1, <1>3, <1>7
  <2>2. /\ inode' \in [Inode -> InodeState]
        /\ \A m \in Inode : inode'[m] = IF m \in InUse(dir', handler')
                                        THEN [inode EXCEPT ![n] = node][m] ELSE Unused
    BY <1>5, <2>1, Contents
  <2>. QED
    BY <1>1, <1>3, <1>12, <1>13, <2>2
<1>15. /\ WritersOf(n, handler') = Writers(n) \cup {h}
       /\ \A m : m # n => WritersOf(m, handler') = WritersOf(m, handler)
       /\ \A m : \A g \in WritersOf(m, handler') : g # h => handler'[g] = handler[g]
  <2>1. \A m : \A g \in Handler : g # h =>
          (g \in WritersOf(m, handler') <=> g \in WritersOf(m, handler))
    BY <1>10 DEF WritersOf
  <2>2. \A m : h \notin WritersOf(m, handler)
    BY DEF WritersOf
  <2>3. \A m : h \in WritersOf(m, handler') <=> m = n
    BY <1>6, <1>8 DEF WritersOf
  <2>4. Writers(n) = WritersOf(n, handler)
    BY DEF Writers, WritersOf
  <2>5. \A m : \A g \in WritersOf(m, handler') : g # h => handler'[g] = handler[g]
    BY <1>9 DEF WritersOf
  <2>6. \A m, hs : WritersOf(m, hs) \subseteq Handler
    BY DEF WritersOf
  <2>. QED
    BY <2>1, <2>2, <2>3, <2>4, <2>5, <2>6
<1>16. TypeOK'
  <2>1. ASSUME NEW g \in File, g # f PROVE dir'[g] # n
    <3>1. CASE dir[f] = None
      BY <1>1, <1>3, <1>11, <2>1, <3>1, Using
    <3>2. CASE dir[f] # None
      BY <1>1, <1>2, <1>11, <2>1, <3>2
    <3>. QED
      BY <3>1, <3>2
  <2>2. \A g, k \in File : dir'[g] = dir'[k] /\ dir'[g] # None => g = k
    BY <1>1, <1>11, <2>1
  <2>. QED
    BY <1>10, <1>11, <1>14, <2>2 DEF TypeOK
<1>17. ASSUME NEW m \in InUse(dir', handler')
       PROVE  InodeOK(m, inode'[m], handler')
  <2>1. CASE m = n
    <3>1. node.torn \/ Writers(n) = {}
      BY <1>7
    <3>2. Saving(s, node)
      <4>1. Part(b, 0) = <<>>
        BY Parts, TfStateAssumption
      <4>. QED
        BY <1>6, <1>7, <4>1 DEF Saving
    <3>3. CASE node.torn
      BY <1>7, <1>14, <2>1, <3>3 DEF InodeOK
    <3>4. CASE Writers(n) = {}
      <4>1. WritersOf(n, handler') = {h}
        BY <1>15, <3>4
      <4>. QED
        BY <1>7, <1>8, <1>14, <2>1, <3>2, <4>1 DEF InodeOK
    <3>. QED
      BY <3>1, <3>3, <3>4
  <2>2. CASE m # n
    <3>1. InodeOK(m, inode[m], handler) /\ inode'[m] = inode[m]
      BY <1>12, <1>14, <2>2 DEF IInv
    <3>2. h \notin WritersOf(m, handler)
      BY DEF WritersOf
    <3>. QED
      BY <1>15, <2>2, <3>1, <3>2 DEF InodeOK
  <2>. QED
    BY <2>1, <2>2
<1>18. ASSUME NEW g \in Handler PROVE ReaderOK(handler'[g], inode', handler')
  <2>1. CASE g = h
    BY <1>6, <1>8, <2>1 DEF ReaderOK
  <2>2. CASE g # h /\ handler[g].pc = "reading" /\ handler[g].inode = n
    BY <1>9, <2>2 DEF ReaderOK
  <2>3. CASE g # h /\ ~(handler[g].pc = "reading" /\ handler[g].inode = n)
    <3>1. handler'[g] = handler[g] /\ ReaderOK(handler[g], inode, handler)
      BY <1>9, <2>3 DEF IInv
    <3>2. handler[g].pc = "reading" =>
            /\ handler[g].inode # n
            /\ handler[g].inode \in InUse(dir', handler')
      BY <2>3, <3>1, Using
    <3>. QED
      BY <1>14, <1>15, <3>1, <3>2 DEF ReaderOK
  <2>. QED
    BY <2>1, <2>2, <2>3
<1>19. ASSUME NEW g \in Handler PROVE WiperOK(handler'[g], dir')
  <2>1. CASE handler'[g].pc \notin {"wiping", "wiped"}
    BY <2>1 DEF WiperOK
  <2>2. CASE handler'[g].pc \in {"wiping", "wiped"}
    <3>1. g # h /\ handler'[g] = handler[g] /\ WiperOK(handler[g], dir)
      BY <1>6, <1>8, <1>9, <2>2 DEF IInv
    <3>2. dir[f] = None => n \notin handler[g].seen
      BY <1>2, <2>2, <3>1, FreeInodeIsFree
    <3>3. \A k \in File : dir'[k] \in handler[g].seen => dir'[k] = dir[k]
      BY <1>2, <1>11, <3>2
    <3>. QED
      BY <3>1, <3>3 DEF WiperOK
  <2>. QED
    BY <2>1, <2>2
<1>20. ASSUME NEW g \in Handler PROVE HandlerOK(handler'[g])
  <2>1. CASE g = h
    <3>1. FewKept(s)
      BY <1>6, <1>11 DEF FewKept, Kept
    <3>2. WriterOK(s)
      BY <1>6, TfStateAssumption DEF WriterOK
    <3>. QED
      BY <1>8, <2>1, <3>1, <3>2 DEF HandlerOK
  <2>2. CASE g # h
    <3>1. HandlerOK(handler[g])
      BY DEF IInv
    <3>2. Kept(handler'[g]) = Kept(handler[g])
      BY <1>9, <2>2 DEF Kept
    <3>3. WriterOK(handler'[g])
      BY <1>9, <2>2, <3>1 DEF WriterOK, HandlerOK
    <3>. QED
      BY <3>1, <3>2, <3>3 DEF HandlerOK, FewKept
  <2>. QED
    BY <2>1, <2>2
<1>. QED
  BY <1>16, <1>17, <1>18, <1>19, <1>20 DEF IInv

(* A save writes on.                                                       *)
LEMMA WriteStep ==
  ASSUME IInv, NEW h \in Handler, handler[h].pc = "writing",
         NEW k \in Nat, k <= Size[handler[h].body],
         handler[h].op = "RESTORE" => k = Size[handler[h].body],
         NEW chunks \in Chunks,
         inode[handler[h].inode].chunks = Part(handler[h].body, handler[h].off)
           => chunks = Part(handler[h].body, k),
         handler' = [handler EXCEPT ![h].off = k],
         Inodes([inode EXCEPT ![handler[h].inode].chunks = chunks]),
         UNCHANGED dir
  PROVE  IInv'
<1>1. /\ dir \in [File -> Inode \cup {None}] /\ inode \in [Inode -> InodeState]
      /\ handler \in [Handler -> HandlerState]
  BY DEF IInv, TypeOK
<1>2. PICK w, n : w = handler[h] /\ n = handler[h].inode
  OBVIOUS
<1>3. n \in Inode /\ w.pc = "writing" /\ w.inode = n /\ n \in InUse(dir, handler)
  BY <1>1, <1>2, Fields, Using
<1>4. PICK v : v = [w EXCEPT !.off = k]
  OBVIOUS
<1>5. /\ v \in HandlerState /\ v.pc = "writing" /\ v.inode = n
      /\ v.body = w.body /\ v.op = w.op /\ v.off = k
  <2>1. w \in [pc : {"writing"}, op : Op, inode : Inode, body : Body, off : Nat]
    BY <1>1, <1>2, <1>3 DEF HandlerState, Idle
  <2>. QED
    BY <1>3, <1>4, <2>1 DEF HandlerState
<1>6. /\ handler' \in [Handler -> HandlerState] /\ handler'[h] = v
      /\ \A g \in Handler : g # h => handler'[g] = handler[g]
  <2>1. handler' = [handler EXCEPT ![h] = v]
    BY <1>2, <1>4
  <2>. QED
    BY <1>1, <1>5, <2>1
<1>7. PICK node : node = [inode[n] EXCEPT !.chunks = chunks]
  OBVIOUS
<1>8. /\ node \in InodeState /\ node.chunks = chunks
      /\ node.saved = inode[n].saved /\ node.torn = inode[n].torn
  BY <1>1, <1>3, <1>7 DEF InodeState
<1>9. \A m : m \in InUse(dir', handler') <=> m \in InUse(dir, handler)
  <2>1. \A g \in Handler :
          /\ handler'[g].pc \in {"reading", "writing"} <=>
               handler[g].pc \in {"reading", "writing"}
          /\ handler'[g].pc \in {"reading", "writing"} =>
               handler'[g].inode = handler[g].inode
    <3>1. ASSUME NEW g \in Handler, g = h
          PROVE  /\ handler'[g].pc = "writing" /\ handler[g].pc = "writing"
                 /\ handler'[g].inode = handler[g].inode
      BY <1>2, <1>3, <1>5, <1>6, <3>1
    <3>. QED
      BY <1>6, <3>1
  <2>2. InUse(dir, handler') = InUse(dir, handler)
    <3>1. {g \in Handler : handler'[g].pc \in {"reading", "writing"}}
            = {g \in Handler : handler[g].pc \in {"reading", "writing"}}
      BY <2>1
    <3>2. {handler'[g].inode : g \in {j \in Handler :
                handler'[j].pc \in {"reading", "writing"}}}
            = {handler[g].inode : g \in {j \in Handler :
                handler[j].pc \in {"reading", "writing"}}}
      BY <2>1
    <3>. QED
      BY <3>1, <3>2 DEF InUse
  <2>3. dir' = dir
    OBVIOUS
  <2>. QED
    BY <2>2, <2>3
<1>10. /\ inode' \in [Inode -> InodeState] /\ inode'[n] = node
       /\ \A m \in InUse(dir, handler) : m # n => inode'[m] = inode[m]
  <2>1. Inodes([inode EXCEPT ![n] = node])
    BY <1>2, <1>7
  <2>2. [inode EXCEPT ![n] = node] \in [Inode -> InodeState]
    BY <1>1, <1>3, <1>8
  <2>. HIDE DEF IInv
  <2>3. \A m \in InUse(dir, handler) : m \in Inode
    BY UsedIsInode DEF IInv
  <2>. QED
    BY <1>1, <1>3, <1>9, <2>1, <2>2, <2>3, Contents
<1>11. \A m : WritersOf(m, handler') = WritersOf(m, handler)
  BY <1>2, <1>3, <1>5, <1>6 DEF WritersOf
<1>12. TypeOK'
  BY <1>6, <1>10 DEF TypeOK, IInv
<1>13. ASSUME NEW m \in InUse(dir', handler')
       PROVE  InodeOK(m, inode'[m], handler')
  <2>1. InodeOK(m, inode[m], handler)
    BY <1>9 DEF IInv
  <2>2. CASE m = n
    <3>1. SUFFICES ASSUME ~node.torn
                   PROVE  /\ \A g, j \in WritersOf(n, handler') : g = j
                          /\ \A g \in WritersOf(n, handler') : Saving(handler'[g], node)
                          /\ WritersOf(n, handler') # {}
      BY <1>8, <1>10, <2>1, <2>2 DEF InodeOK
    <3>2. h \in WritersOf(n, handler)
      BY <1>2, <1>3 DEF WritersOf
    <3>3. /\ \A g \in WritersOf(n, handler) : g = h
          /\ Saving(w, inode[n])
      BY <1>2, <1>8, <2>1, <2>2, <3>1, <3>2 DEF InodeOK
    <3>4. Saving(v, node)
      BY <1>2, <1>5, <1>8, <3>3 DEF Saving
    <3>. QED
      BY <1>6, <1>11, <3>2, <3>3, <3>4
  <2>3. CASE m # n
    <3>1. inode'[m] = inode[m] /\ h \notin WritersOf(m, handler)
      BY <1>2, <1>9, <1>10, <2>3 DEF WritersOf
    <3>2. \A g \in WritersOf(m, handler) : handler'[g] = handler[g]
      BY <1>6, <3>1 DEF WritersOf
    <3>. QED
      BY <1>11, <2>1, <3>1, <3>2 DEF InodeOK
  <2>. QED
    BY <2>2, <2>3
<1>14. ASSUME NEW g \in Handler PROVE ReaderOK(handler'[g], inode', handler')
  <2>1. CASE g = h
    BY <1>5, <1>6, <2>1 DEF ReaderOK
  <2>2. CASE g # h
    <3>1. handler'[g] = handler[g] /\ ReaderOK(handler[g], inode, handler)
      BY <1>6, <2>2 DEF IInv
    <3>2. handler[g].pc = "reading" => handler[g].inode \in InUse(dir, handler)
      BY Using
    <3>3. WritersOf(n, handler) # {}
      BY <1>2, <1>3 DEF WritersOf
    <3>4. handler[g].pc = "reading" /\ handler[g].clean =>
            inode'[handler[g].inode] = inode[handler[g].inode]
      BY <1>10, <3>1, <3>2, <3>3 DEF ReaderOK
    <3>5. PICK m : m = handler[g].inode
      OBVIOUS
    <3>6. WritersOf(m, handler') = WritersOf(m, handler)
      BY <1>11
    <3>. QED
      BY <3>1, <3>4, <3>5, <3>6 DEF ReaderOK
  <2>. QED
    BY <2>1, <2>2
<1>15. ASSUME NEW g \in Handler PROVE WiperOK(handler'[g], dir')
  <2>1. WiperOK(handler[g], dir) /\ dir' = dir
    BY DEF IInv
  <2>. QED
    BY <1>5, <1>6, <2>1 DEF WiperOK
<1>16. ASSUME NEW g \in Handler PROVE HandlerOK(handler'[g])
  <2>1. HandlerOK(handler[g])
    BY DEF IInv
  <2>2. Kept(handler'[g]) = Kept(handler[g])
    <3>1. CASE g = h
      <4>1. /\ handler[g].pc = "writing" /\ handler'[g].pc = "writing"
            /\ handler'[g].inode = handler[g].inode
        BY <1>2, <1>3, <1>5, <1>6, <3>1
      <4>. QED
        BY <4>1 DEF Kept
    <3>2. CASE g # h
      <4>1. handler'[g] = handler[g]
        BY <1>6, <3>2
      <4>. QED
        BY <4>1
    <3>. QED
      BY <3>1, <3>2
  <2>3. WriterOK(handler'[g])
    BY <1>2, <1>5, <1>6, <2>1 DEF HandlerOK, WriterOK
  <2>. QED
    BY <2>1, <2>2, <2>3 DEF HandlerOK, FewKept
<1>. QED
  BY <1>12, <1>13, <1>14, <1>15, <1>16 DEF IInv

(* Saves are left unfinished: that of one request, or all.                 *)
LEMMA TornStep ==
  ASSUME IInv, NEW S \in SUBSET Handler, NEW s \in HandlerState,
         s.pc \in {"idle", "answered"},
         s.pc = "answered" => s.status = 500,
         handler' = [h \in Handler |-> IF h \in S THEN s ELSE handler[h]],
         NEW nodes \in [Inode -> InodeState], Inodes(nodes),
         \A n \in Inode :
           /\ nodes[n].saved = inode[n].saved /\ nodes[n].chunks = inode[n].chunks
           /\ nodes[n].torn <=> inode[n].torn \/ S \cap WritersOf(n, handler) # {},
         UNCHANGED dir
  PROVE  IInv'
<1>1. /\ dir \in [File -> Inode \cup {None}] /\ inode \in [Inode -> InodeState]
      /\ handler \in [Handler -> HandlerState]
  BY DEF IInv, TypeOK
<1>2. /\ handler' \in [Handler -> HandlerState]
      /\ \A g \in Handler : handler'[g] = IF g \in S THEN s ELSE handler[g]
  BY <1>1
<1>3. \A n \in InUse(dir', handler') : n \in InUse(dir, handler) /\ n \in Inode
  <2>1. \A n \in InUse(dir', handler') : n \in InUse(dir, handler)
    BY <1>2, Using
  <2>. QED
    BY <2>1, UsedIsInode DEF IInv
<1>4. /\ inode' \in [Inode -> InodeState]
      /\ \A n \in InUse(dir', handler') : inode'[n] = nodes[n]
  BY <1>3, Contents
<1>5. \A n : WritersOf(n, handler') = WritersOf(n, handler) \ S
  BY <1>2 DEF WritersOf
<1>6. TypeOK'
  BY <1>2, <1>4 DEF TypeOK, IInv
<1>7. ASSUME NEW n \in InUse(dir', handler')
      PROVE  InodeOK(n, inode'[n], handler')
  <2>1. InodeOK(n, inode[n], handler) /\ inode'[n] = nodes[n] /\ n \in Inode
    BY <1>3, <1>4 DEF IInv
  <2>2. CASE nodes[n].torn
    BY <2>1, <2>2 DEF InodeOK
  <2>3. CASE ~nodes[n].torn
    <3>1. ~inode[n].torn /\ S \cap WritersOf(n, handler) = {}
      BY <2>1, <2>3
    <3>2. WritersOf(n, handler') = WritersOf(n, handler)
      <4>1. WritersOf(n, handler) \ S = WritersOf(n, handler)
        BY <3>1
      <4>. QED
        BY <1>5, <4>1
    <3>3. \A g \in WritersOf(n, handler) : g \in Handler /\ g \notin S
      BY <3>1 DEF WritersOf
    <3>4. \A g \in WritersOf(n, handler) : handler'[g] = handler[g]
      BY <1>2, <3>3
    <3>5. nodes[n].saved = inode[n].saved /\ nodes[n].chunks = inode[n].chunks
      BY <2>1
    <3>. QED
      BY <2>1, <3>1, <3>2, <3>4, <3>5 DEF InodeOK, Saving
  <2>. QED
    BY <2>2, <2>3
<1>8. ASSUME NEW g \in Handler PROVE ReaderOK(handler'[g], inode', handler')
  <2>1. CASE g \in S
    BY <1>2, <2>1 DEF ReaderOK
  <2>2. CASE g \notin S
    <3>1. handler'[g] = handler[g] /\ ReaderOK(handler[g], inode, handler)
      BY <1>2, <2>2 DEF IInv
    <3>2. handler[g].pc = "reading" =>
            handler[g].inode \in InUse(dir', handler') /\ handler[g].inode \in Inode
      <4>1. SUFFICES ASSUME handler[g].pc = "reading"
                     PROVE  /\ handler[g].inode \in InUse(dir', handler')
                            /\ handler[g].inode \in Inode
        OBVIOUS
      <4>2. handler'[g].pc = "reading" /\ handler'[g].inode = handler[g].inode
        BY <3>1, <4>1
      <4>3. handler[g].inode \in InUse(dir', handler')
        BY <4>2, Using
      <4>. QED
        BY <1>3, <4>3
    <3>3. ASSUME handler[g].pc = "reading", handler[g].clean
          PROVE  /\ inode'[handler[g].inode].chunks = inode[handler[g].inode].chunks
                 /\ ~inode'[handler[g].inode].torn
                 /\ WritersOf(handler[g].inode, handler') = {}
      <4>1. PICK n : n = handler[g].inode
        OBVIOUS
      <4>2. ~inode[n].torn /\ WritersOf(n, handler) = {} /\ n \in Inode
        BY <3>1, <3>2, <3>3, <4>1 DEF ReaderOK
      <4>3. inode'[n] = nodes[n]
        BY <1>4, <3>2, <3>3, <4>1
      <4>. QED
        BY <1>5, <4>1, <4>2, <4>3
    <3>. QED
      BY <3>1, <3>3 DEF ReaderOK
  <2>. QED
    BY <2>1, <2>2
<1>9. \A g \in Handler : WiperOK(handler'[g], dir')
  BY <1>2 DEF IInv, WiperOK
<1>10. ASSUME NEW g \in Handler PROVE HandlerOK(handler'[g])
  <2>1. HandlerOK(handler[g])
    BY DEF IInv
  <2>2. Kept(s) = {}
    BY DEF Kept
  <2>3. HandlerOK(s)
    BY <1>1, <2>2 DEF HandlerOK, FewKept, WriterOK
  <2>. QED
    BY <1>2, <2>1, <2>3
<1>. QED
  BY <1>6, <1>7, <1>8, <1>9, <1>10 DEF IInv

-----------------------------------------------------------------------------
(* The actions.                                                            *)

LEMMA Inits == Init => IInv
<1>. SUFFICES ASSUME Init PROVE IInv
  OBVIOUS
<1>1. /\ dir = [f \in File |-> None] /\ inode = [n \in Inode |-> Unused]
      /\ \A h \in Handler : handler[h] = Idle
  BY DEF Init
<1>2. Idle.pc = "idle" /\ Idle \in HandlerState /\ Unused \in InodeState
  BY DEF Idle, HandlerState, Unused, InodeState, Chunks
<1>3. TypeOK
  BY <1>2 DEF Init, TypeOK
<1>4. InUse(dir, handler) = {}
  BY <1>1, <1>2, Using
<1>5. Kept(Idle) = {}
  BY <1>2 DEF Kept
<1>6. HandlerOK(Idle)
  BY <1>2, <1>3, <1>5 DEF HandlerOK, WriterOK, FewKept, TypeOK
<1>7. \A h \in Handler : ReaderOK(handler[h], inode, handler)
                           /\ WiperOK(handler[h], dir)
  BY <1>1, <1>2 DEF ReaderOK, WiperOK
<1>. QED
  BY <1>1, <1>3, <1>4, <1>6, <1>7 DEF IInv

(* A request that holds no file and answers nothing it read.               *)
Plain(s) ==
  /\ s.pc \in {"idle", "opening", "creating", "answered"}
  /\ s.pc = "answered" /\ s.status = 200 /\ s.clean => s.got \in Bodies

LEMMA States ==
  /\ Idle \in HandlerState /\ Plain(Idle) /\ Idle.pc = "idle"
  /\ \A op \in Op, f \in File : Opening(op, f) \in HandlerState /\ Plain(Opening(op, f))
  /\ \A op \in Op, f \in File, b \in Body :
       Creating(op, f, b) \in HandlerState /\ Plain(Creating(op, f, b))
<1>2. \A op \in Op, f \in File : Opening(op, f) \in HandlerState /\ Plain(Opening(op, f))
  BY DEF Opening, HandlerState, Plain
<1>3. \A op \in Op, f \in File, b \in Body :
        Creating(op, f, b) \in HandlerState /\ Plain(Creating(op, f, b))
  BY DEF Creating, HandlerState, Plain
<1>5. Idle \in HandlerState /\ Plain(Idle) /\ Idle.pc = "idle"
  BY DEF Idle, HandlerState, Plain
<1>. QED
  BY <1>2, <1>3, <1>5

LEMMA Answers ==
  ASSUME NEW op \in Op, NEW status \in {200, 423, 500}, NEW got \in Chunks,
         NEW clean \in BOOLEAN
  PROVE  /\ Answered(op, status, got, clean) \in HandlerState
         /\ Answered(op, status, got, clean).pc = "answered"
         /\ Answered(op, status, got, clean).status = status
         /\ (clean /\ status = 200 => got \in Bodies)
              => Plain(Answered(op, status, got, clean))
BY DEF Answered, HandlerState, Plain

(* The answer of a request that read nothing.                              *)
Told(op, status) == Answered(op, status, <<>>, FALSE)

LEMMA Tells ==
  ASSUME NEW op \in Op, NEW status, status = 200 \/ status = 500
  PROVE  /\ Told(op, status) \in HandlerState /\ Plain(Told(op, status))
         /\ Told(op, status).pc = "answered" /\ Told(op, status).status = status
<1>1. <<>> \in Chunks
  BY DEF Chunks
<1>. QED
  BY <1>1 DEF Told, Answered, HandlerState, Plain

LEMMA PlainStep ==
  ASSUME IInv, NEW h \in Handler, NEW s \in HandlerState, Goto(h, s), Plain(s),
         dir' \in [File -> Inode \cup {None}],
         \A f \in File : dir'[f] \in {dir[f], None},
         Inodes(inode),
         handler[h].pc = "writing" => handler[h].off = Size[handler[h].body]
  PROVE  IInv'
<1>1. Kept(s) = {}
  BY DEF Kept, Plain
<1>2. HandlerOK(s)
  <2>1. dir \in [File -> Inode \cup {None}]
    BY DEF IInv, TypeOK
  <2>. QED
    BY <1>1, <2>1 DEF HandlerOK, WriterOK, FewKept, Plain
<1>3. ReaderOK(s, inode, handler) /\ WiperOK(s, dir')
  BY DEF ReaderOK, WiperOK, Plain
<1>4. s.pc # "writing" /\ s.pc # "reading" /\ handler' = [handler EXCEPT ![h] = s]
  BY DEF Plain, Goto
<1>. QED
  BY <1>2, <1>3, <1>4, QuietStep

(* A request looks for its file, or fails, or is done.                     *)
LEMMA Asks ==
  ASSUME IInv, NEW h \in Handler, NEW p \in Project,
         \/ GetState(h, p)
         \/ GetStateContent(h, StateFile(p))
         \/ \E b \in LockInfo : LockState(h, p, b)
         \/ DeleteState(h, p)
         \/ UnlockState(h, p)
  PROVE  IInv'
<1>1. /\ StateFile(p) \in File /\ LockFile(p) \in File
      /\ <<>> \in Chunks /\ LockInfo \subseteq Body
  BY TfStateAssumption DEF File, Chunks
<1>2. dir \in [File -> Inode \cup {None}] /\ (UNCHANGED dir => dir' = dir)
  BY DEF IInv, TypeOK
<1>3. handler[h] = Idle
  BY DEF GetState, GetStateContent, LockState, DeleteState, UnlockState, Remove
<1>4. handler[h].pc # "writing"
  BY <1>3, States
<1>5. /\ dir' \in [File -> Inode \cup {None}] /\ Inodes(inode)
      /\ \A f \in File : dir'[f] \in {dir[f], None}
  BY <1>1, <1>2 DEF GetState, GetStateContent, LockState, DeleteState, UnlockState,
                     Remove
<1>6. PICK s \in HandlerState : Plain(s) /\ Goto(h, s)
  <2>1. CASE GetState(h, p)
    <3>1. \/ Goto(h, Told("GET", 200))
          \/ Goto(h, Opening("GET", StateFile(p)))
      BY <2>1 DEF GetState, Told
    <3>2. "GET" \in Op
      BY DEF Op
    <3>3. Told("GET", 200) \in HandlerState /\ Plain(Told("GET", 200))
      BY <3>2, Tells
    <3>4. /\ Opening("GET", StateFile(p)) \in HandlerState
          /\ Plain(Opening("GET", StateFile(p)))
      BY <1>1, <3>2, States
    <3>. QED
      BY <3>1, <3>3, <3>4
  <2>2. CASE GetStateContent(h, StateFile(p))
    BY <1>1, <2>2, States DEF GetStateContent, Op
  <2>3. CASE \E b \in LockInfo : LockState(h, p, b)
    <3>1. PICK b \in LockInfo : \/ Goto(h, Creating("LOCK", LockFile(p), b))
                                \/ Goto(h, Opening("LOCK", LockFile(p)))
      BY <2>3 DEF LockState
    <3>. QED
      BY <1>1, <3>1, States DEF Op
  <2>4. CASE DeleteState(h, p) \/ UnlockState(h, p)
    <3>1. PICK op \in Op, f \in File : Remove(h, op, f)
      <4>1. "DELETE" \in Op /\ "UNLOCK" \in Op
        BY DEF Op
      <4>. QED
        BY <1>1, <2>4, <4>1 DEF DeleteState, UnlockState
    <3>2. Goto(h, Told(op, 200)) \/ Goto(h, Told(op, 500))
      BY <3>1 DEF Remove, Told
    <3>. QED
      BY <3>2, Tells
  <2>. QED
    BY <2>1, <2>2, <2>3, <2>4
<1>. QED
  BY <1>4, <1>5, <1>6, PlainStep

LEMMA Opens ==
  ASSUME IInv, NEW h \in Handler, OpenRead(h)
  PROVE  IInv'
<1>1. /\ dir \in [File -> Inode \cup {None}] /\ inode \in [Inode -> InodeState]
      /\ handler[h] \in HandlerState
  BY DEF IInv, TypeOK
<1>2. PICK op, f : op = handler[h].op /\ f = handler[h].file
  OBVIOUS
<1>3. /\ handler[h].pc = "opening" /\ op \in Op /\ f \in File
  BY <1>1, <1>2, Fields DEF OpenRead
<1>4. dir' = dir /\ Inodes(inode) /\ handler[h].pc # "writing"
  BY <1>3 DEF OpenRead
<1>5. dir' \in [File -> Inode \cup {None}] /\ \A g \in File : dir'[g] \in {dir[g], None}
  BY <1>1, <1>4
<1>6. PICK n : n = dir[f]
  OBVIOUS
<1>7. CASE n = None
  <2>1. Goto(h, Told(op, 500))
    BY <1>2, <1>6, <1>7 DEF OpenRead, Told
  <2>2. Told(op, 500) \in HandlerState /\ Plain(Told(op, 500))
    BY <1>3, Tells
  <2>. QED
    BY <1>4, <1>5, <2>1, <2>2, PlainStep
<1>8. CASE n # None
  <2>1. PICK clean \in BOOLEAN : clean = (~inode[n].torn /\ Writers(n) = {})
    OBVIOUS
  <2>2. PICK s : s = Reading(op, n, clean)
    OBVIOUS
  <2>3. handler' = [handler EXCEPT ![h] = s]
    BY <1>2, <1>6, <1>8, <2>1, <2>2 DEF OpenRead, Goto
  <2>4. n \in Inode /\ n \in InUse(dir, handler)
    BY <1>1, <1>3, <1>6, <1>8, Using
  <2>5. /\ s \in HandlerState /\ s.pc = "reading" /\ s.inode = n /\ s.got = <<>>
        /\ s.clean = clean
    BY <1>3, <2>2, <2>4 DEF Reading, HandlerState, Chunks
  <2>6. HandlerOK(s)
    <3>1. Kept(s) = {n}
      BY <2>5 DEF Kept
    <3>2. FewKept(s)
      BY <1>1, <1>3, <1>6, <3>1 DEF FewKept
    <3>. QED
      BY <2>5, <3>2 DEF HandlerOK, WriterOK
  <2>7. ReaderOK(s, inode, handler)
    <3>1. Len(inode[n].chunks) \in Nat
      BY <1>1, <2>4 DEF InodeState, Chunks
    <3>2. clean => ~inode[n].torn /\ WritersOf(n, handler) = {}
      BY <2>1 DEF Writers, WritersOf
    <3>. QED
      BY <2>5, <3>1, <3>2 DEF ReaderOK
  <2>8. WiperOK(s, dir')
    BY <2>5 DEF WiperOK
  <2>. QED
    BY <1>4, <1>5, <2>3, <2>4, <2>5, <2>6, <2>7, <2>8, QuietStep
<1>. QED
  BY <1>7, <1>8

LEMMA Reads ==
  ASSUME IInv, NEW h \in Handler, ReadChunk(h)
  PROVE  IInv'
<1>1. /\ dir \in [File -> Inode \cup {None}] /\ inode \in [Inode -> InodeState]
      /\ handler[h] \in HandlerState
  BY DEF IInv, TypeOK
<1>2. PICK r, n, got, chunks : /\ r = handler[h] /\ n = r.inode /\ got = r.got
                               /\ chunks = inode[n].chunks
  OBVIOUS
<1>3. r \in [pc : {"reading"}, op : Op, inode : Inode, got : Chunks, clean : BOOLEAN]
  BY <1>1, <1>2 DEF ReadChunk, HandlerState, Idle
<1>4. chunks \in Chunks /\ got \in Chunks /\ Len(got) < Len(chunks)
  BY <1>1, <1>2, <1>3 DEF ReadChunk, InodeState
<1>5. PICK i, more : i = Len(got) + 1 /\ more = Append(got, chunks[i])
  OBVIOUS
<1>6. /\ i \in 1..Len(chunks) /\ more \in Chunks /\ Len(more) = i
      /\ more[i] = chunks[i] /\ \A j \in 1..Len(got) : more[j] = got[j]
  BY <1>4, <1>5 DEF Chunks
<1>7. PICK s : s = [r EXCEPT !.got = more]
  OBVIOUS
<1>8. /\ s \in HandlerState /\ s.pc = "reading" /\ s.inode = n /\ s.got = more
      /\ s.clean = r.clean /\ r.pc = "reading"
  BY <1>2, <1>3, <1>6, <1>7 DEF HandlerState
<1>9. handler' = [handler EXCEPT ![h] = s]
  BY <1>2, <1>5, <1>7 DEF ReadChunk
<1>10. /\ dir' \in [File -> Inode \cup {None}] /\ Inodes(inode)
       /\ \A g \in File : dir'[g] \in {dir[g], None}
  BY <1>1 DEF ReadChunk
<1>11. n \in InUse(dir, handler)
  BY <1>2, <1>8, Using
<1>12. HandlerOK(s)
  <2>1. Kept(s) = Kept(r) /\ HandlerOK(r)
    BY <1>2, <1>8 DEF Kept, IInv
  <2>. QED
    BY <1>8, <2>1 DEF HandlerOK, FewKept, WriterOK
<1>13. ReaderOK(s, inode, handler)
  <2>1. ReaderOK(r, inode, handler)
    BY <1>2 DEF IInv
  <2>2. SUFFICES ASSUME s.clean
                 PROVE  /\ ~inode[n].torn /\ WritersOf(n, handler) = {}
                        /\ Len(more) <= Len(chunks)
                        /\ \A j \in 1..Len(more) : more[j] = chunks[j]
    BY <1>2, <1>8 DEF ReaderOK
  <2>3. /\ ~inode[n].torn /\ WritersOf(n, handler) = {}
        /\ \A j \in 1..Len(got) : got[j] = chunks[j]
    BY <1>2, <1>8, <2>1, <2>2 DEF ReaderOK
  <2>4. Len(more) <= Len(chunks) /\ Len(got) \in Nat
    BY <1>4, <1>6 DEF Chunks
  <2>5. \A j \in 1..Len(more) : j = i \/ j \in 1..Len(got)
    BY <1>5, <1>6, <2>4
  <2>. QED
    BY <1>6, <2>3, <2>4, <2>5
<1>14. WiperOK(s, dir')
  BY <1>8 DEF WiperOK
<1>. QED
  BY <1>2, <1>8, <1>9, <1>10, <1>11, <1>12, <1>13, <1>14, QuietStep

LEMMA Answering ==
  ASSUME IInv, NEW h \in Handler, ReadEnd(h)
  PROVE  IInv'
<1>1. /\ dir \in [File -> Inode \cup {None}] /\ inode \in [Inode -> InodeState]
      /\ handler[h] \in HandlerState
  BY DEF IInv, TypeOK
<1>2. PICK r, n, chunks : /\ r = handler[h] /\ n = r.inode
                          /\ chunks = inode[n].chunks
  OBVIOUS
<1>3. /\ r.pc = "reading" /\ r.op \in Op /\ n \in Inode /\ r.got \in Chunks
      /\ r.clean \in BOOLEAN /\ n \in InUse(dir, handler)
  BY <1>1, <1>2, Fields, Using DEF ReadEnd
<1>4. chunks \in Chunks /\ Len(r.got) >= Len(chunks)
  BY <1>1, <1>2, <1>3 DEF ReadEnd, InodeState
<1>5. PICK s : s = Answered(r.op, 200, r.got, r.clean)
  OBVIOUS
<1>6. Goto(h, s)
  <2>1. Head(<<"Write", 423>>) = "Write" /\ Head(<<"Write">>) = "Write"
    OBVIOUS
  <2>2. /\ ResponseStatus(<<"Write", 423>>) = 200
        /\ ResponseStatus(<<"Write">>) = 200
    BY <2>1 DEF ResponseStatus
  <2>. QED
    BY <1>2, <1>5, <2>2 DEF ReadEnd
<1>7. r.clean => r.got \in Bodies
  <2>1. SUFFICES ASSUME r.clean PROVE r.got \in Bodies
    OBVIOUS
  <2>2. /\ ~inode[n].torn /\ WritersOf(n, handler) = {}
        /\ Len(r.got) <= Len(chunks)
        /\ \A i \in 1..Len(r.got) : r.got[i] = chunks[i]
    BY <1>2, <1>3, <2>1 DEF IInv, ReaderOK
  <2>3. r.got = chunks
    BY <1>3, <1>4, <2>2 DEF Chunks
  <2>4. inode[n].saved \in Body /\ chunks = Whole(inode[n].saved)
    BY <1>2, <1>3, <2>2 DEF IInv, InodeOK
  <2>. QED
    BY <2>3, <2>4 DEF Bodies
<1>8. s \in HandlerState /\ Plain(s)
  BY <1>3, <1>5, <1>7 DEF Answered, HandlerState, Plain
<1>9. /\ dir' \in [File -> Inode \cup {None}] /\ Inodes(inode)
      /\ \A g \in File : dir'[g] \in {dir[g], None}
  BY <1>1 DEF ReadEnd
<1>10. handler[h].pc # "writing"
  BY <1>2, <1>3
<1>. QED
  BY <1>6, <1>8, <1>9, <1>10, PlainStep

LEMMA Ends ==
  ASSUME IInv, NEW h \in Handler, WriteEnd(h) \/ Return(h)
  PROVE  IInv'
<1>1. dir \in [File -> Inode \cup {None}] /\ handler[h] \in HandlerState
  BY DEF IInv, TypeOK
<1>2. /\ dir' \in [File -> Inode \cup {None}] /\ Inodes(inode)
      /\ \A g \in File : dir'[g] \in {dir[g], None}
  BY <1>1 DEF WriteEnd, Return
<1>3. CASE WriteEnd(h)
  <2>1. Goto(h, Told(handler[h].op, 200)) /\ handler[h].pc = "writing"
    BY <1>3 DEF WriteEnd, Told
  <2>2. /\ Told(handler[h].op, 200) \in HandlerState
        /\ Plain(Told(handler[h].op, 200))
    BY <1>1, <2>1, Fields, Tells
  <2>3. handler[h].off = Size[handler[h].body]
    BY <1>3 DEF WriteEnd
  <2>. QED
    BY <1>2, <2>1, <2>2, <2>3, PlainStep
<1>4. CASE Return(h)
  <2>1. Goto(h, Idle) /\ handler[h].pc # "writing"
    BY <1>4 DEF Return
  <2>. QED
    BY <1>2, <2>1, States, PlainStep
<1>. QED
  BY <1>3, <1>4

(* What a wipe has to remove and the inodes it saw.                        *)
LEMMA Lists ==
  ASSUME IInv, NEW h \in Handler, DeleteAllStates(h)
  PROVE  IInv'
<1>1. dir \in [File -> Inode \cup {None}]
  BY DEF IInv, TypeOK
<1>2. PICK listed, seen : /\ listed = {f \in File : dir[f] # None}
                          /\ seen = {dir[f] : f \in listed}
  OBVIOUS
<1>3. PICK s : s = Wiping(listed, seen)
  OBVIOUS
<1>4. handler' = [handler EXCEPT ![h] = s] /\ handler[h].pc # "writing"
  BY <1>2, <1>3, States DEF DeleteAllStates, Goto
<1>5. listed \in SUBSET File /\ seen \in SUBSET Inode
  BY <1>1, <1>2
<1>6. s \in HandlerState /\ s.pc = "wiping" /\ s.todo = listed /\ s.seen = seen
  BY <1>3, <1>5 DEF Wiping, HandlerState
<1>7. /\ dir' = dir /\ Inodes(inode) /\ dir' \in [File -> Inode \cup {None}]
      /\ \A g \in File : dir'[g] \in {dir[g], None}
  BY <1>1 DEF DeleteAllStates
<1>8. HandlerOK(s)
  <2>1. Kept(s) = seen
    BY <1>6 DEF Kept
  <2>2. \A n \in seen : \E f \in File : n = dir[f]
    BY <1>2
  <2>3. FewKept(s)
    BY <1>1, <2>1, <2>2 DEF FewKept
  <2>. QED
    BY <1>6, <2>3 DEF HandlerOK, WriterOK
<1>9. WiperOK(s, dir')
  <2>1. \A f \in File : dir[f] \in seen => f \in listed
    BY <1>1, <1>2, <1>5, TfStateAssumption
  <2>. QED
    BY <1>6, <1>7, <2>1 DEF WiperOK
<1>10. ReaderOK(s, inode, handler)
  BY <1>6 DEF ReaderOK
<1>. QED
  BY <1>4, <1>6, <1>7, <1>8, <1>9, <1>10, QuietStep

LEMMA Removes ==
  ASSUME IInv, NEW h \in Handler, WipeNext(h)
  PROVE  IInv'
<1>1. dir \in [File -> Inode \cup {None}] /\ handler[h] \in HandlerState
  BY DEF IInv, TypeOK
<1>2. PICK w : w = handler[h]
  OBVIOUS
<1>3. /\ w.pc = "wiping" /\ w.todo \in SUBSET File /\ w.seen \in SUBSET Inode
      /\ Inodes(inode)
  BY <1>1, <1>2, Fields DEF WipeNext
<1>4. PICK f \in File :
        \/ /\ dir' = [dir EXCEPT ![f] = None]
           /\ handler' = [handler EXCEPT ![h].todo = @ \ {f}]
        \/ /\ Goto(h, Told("WIPE", 500))
           /\ dir' = dir
  <2>1. \A f \in NextOf(w.todo) : f \in File
    BY <1>3 DEF NextOf
  <2>. QED
    BY <1>2, <2>1 DEF WipeNext, Told
<1>5. CASE /\ dir' = [dir EXCEPT ![f] = None]
           /\ handler' = [handler EXCEPT ![h].todo = @ \ {f}]
  <2>1. PICK todo : todo = w.todo \ {f}
    OBVIOUS
  <2>2. PICK s : s = [w EXCEPT !.todo = todo]
    OBVIOUS
  <2>3. handler' = [handler EXCEPT ![h] = s]
    BY <1>2, <1>5, <2>1, <2>2
  <2>4. w \in [pc : {"wiping"}, todo : SUBSET File, seen : SUBSET Inode]
    BY <1>1, <1>2, <1>3 DEF HandlerState, Idle
  <2>5. todo \in SUBSET File
    BY <1>3, <2>1
  <2>6. s \in HandlerState /\ s.pc = "wiping" /\ s.todo = todo /\ s.seen = w.seen
    BY <2>2, <2>4, <2>5 DEF HandlerState
  <2>7. /\ dir' \in [File -> Inode \cup {None}]
        /\ \A g \in File : dir'[g] = IF g = f THEN None ELSE dir[g]
    BY <1>1, <1>5
  <2>8. HandlerOK(s)
    <3>1. HandlerOK(w) /\ Kept(s) = Kept(w)
      BY <1>2, <1>3, <2>6 DEF Kept, IInv
    <3>. QED
      BY <2>6, <3>1 DEF HandlerOK, FewKept, WriterOK
  <2>9. WiperOK(s, dir')
    <3>1. \A g \in File : dir[g] \in w.seen => g \in w.todo
      BY <1>2, <1>3 DEF IInv, WiperOK
    <3>2. None \notin w.seen
      BY <1>3, TfStateAssumption
    <3>3. \A g \in File : dir'[g] \in w.seen => g \in todo
      BY <2>1, <2>7, <3>1, <3>2
    <3>. QED
      BY <2>6, <3>3 DEF WiperOK
  <2>10. ReaderOK(s, inode, handler)
    BY <2>6 DEF ReaderOK
  <2>. QED
    BY <1>2, <1>3, <2>3, <2>6, <2>7, <2>8, <2>9, <2>10, QuietStep
<1>6. CASE Goto(h, Told("WIPE", 500)) /\ dir' = dir
  <2>1. Told("WIPE", 500) \in HandlerState /\ Plain(Told("WIPE", 500))
    <3>1. "WIPE" \in Op
      BY DEF Op
    <3>. QED
      BY <3>1, Tells
  <2>. QED
    BY <1>1, <1>2, <1>3, <1>6, <2>1, PlainStep
<1>. QED
  BY <1>4, <1>5, <1>6

LEMMA Finishes ==
  ASSUME IInv, NEW h \in Handler, WipeEnd(h)
  PROVE  IInv'
<1>1. dir \in [File -> Inode \cup {None}] /\ handler[h] \in HandlerState
  BY DEF IInv, TypeOK
<1>2. PICK w, s : w = handler[h] /\ s = Wiped(w.seen)
  OBVIOUS
<1>3. /\ w.pc = "wiping" /\ w.todo = {} /\ w.seen \in SUBSET Inode
      /\ handler' = [handler EXCEPT ![h] = s]
  BY <1>1, <1>2, Fields DEF WipeEnd, Goto
<1>4. /\ dir' = dir /\ dir' \in [File -> Inode \cup {None}] /\ Inodes(inode)
      /\ \A g \in File : dir'[g] \in {dir[g], None}
  BY <1>1 DEF WipeEnd
<1>5. s \in HandlerState /\ s.pc = "wiped" /\ s.seen = w.seen
  BY <1>2, <1>3 DEF Wiped, HandlerState
<1>6. HandlerOK(s)
  <2>1. HandlerOK(w) /\ Kept(s) = Kept(w)
    BY <1>2, <1>3, <1>5 DEF Kept, IInv
  <2>. QED
    BY <1>5, <2>1 DEF HandlerOK, FewKept, WriterOK
<1>7. WiperOK(s, dir')
  BY <1>2, <1>3, <1>4, <1>5 DEF IInv, WiperOK
<1>8. ReaderOK(s, inode, handler)
  BY <1>5 DEF ReaderOK
<1>. QED
  BY <1>2, <1>3, <1>4, <1>5, <1>6, <1>7, <1>8, QuietStep

LEMMA Saves ==
  ASSUME IInv, NEW h \in Handler,
         \/ \E p \in Project, b \in Body : SaveState(h, p, b)
         \/ \E p \in Project, b \in Body : SaveStateContent(h, StateFile(p), b)
         \/ CreateLock(h)
  PROVE  IInv'
<1>1. handler[h] \in HandlerState
  BY DEF IInv, TypeOK
<1>2. "SAVE" \in Op /\ "RESTORE" \in Op
  BY DEF Op
<1>3. \A p \in Project : StateFile(p) \in File
  BY DEF File
<1>4. handler[h].pc \in {"idle", "creating"}
  BY States DEF SaveState, SaveStateContent, CreateLock
<1>5. PICK op \in Op, f \in File, b \in Body : OpenTrunc(h, op, f, b)
  <2>1. CASE \E p \in Project, b \in Body : SaveState(h, p, b)
    BY <1>2, <1>3, <2>1 DEF SaveState
  <2>2. CASE \E p \in Project, b \in Body : SaveStateContent(h, StateFile(p), b)
    BY <1>2, <1>3, <2>2 DEF SaveStateContent
  <2>3. CASE CreateLock(h)
    BY <1>1, <2>3, Fields DEF CreateLock
  <2>. QED
    BY <2>1, <2>2, <2>3
<1>. QED
  BY <1>4, <1>5, OpenStep

LEMMA Writes ==
  ASSUME IInv, NEW h \in Handler, WriteChunk(h) \/ WriteAll(h)
  PROVE  IInv'
<1>1. inode \in [Inode -> InodeState] /\ handler[h] \in HandlerState
  BY DEF IInv, TypeOK
<1>2. handler[h].pc = "writing"
  BY DEF WriteChunk, WriteAll
<1>3. PICK w, n, b, old : /\ w = handler[h] /\ n = w.inode /\ b = w.body
                          /\ old = inode[n].chunks
  OBVIOUS
<1>4. n \in Inode /\ b \in Body /\ w.off \in Nat /\ old \in Chunks
  BY <1>1, <1>2, <1>3, Fields DEF InodeState
<1>5. Size[b] \in Nat
  BY <1>4, TfStateAssumption
<1>6. CASE WriteChunk(h)
  <2>1. w.off < Size[b]
    BY <1>3, <1>4, <1>5, <1>6 DEF WriteChunk
  <2>2. PICK k, new : k = w.off + 1 /\ new = WriteAt(old, k, <<b, k>>)
    OBVIOUS
  <2>3. k \in Nat /\ k <= Size[b] /\ new \in Chunks
        /\ (old = Part(b, w.off) => new = Part(b, k))
    BY <1>4, <1>5, <2>1, <2>2, WriteNext
  <2>4. /\ handler' = [handler EXCEPT ![h].off = k]
        /\ Inodes([inode EXCEPT ![n].chunks = new])
        /\ UNCHANGED dir /\ handler[h].op # "RESTORE"
    BY <1>1, <1>3, <1>4, <1>6, <2>2 DEF WriteChunk
  <2>. QED
    BY <1>2, <1>3, <2>3, <2>4, WriteStep
<1>7. CASE WriteAll(h)
  <2>1. PICK k, new : /\ k = Size[b]
                      /\ new = Whole(b) \o SubSeq(old, Size[b] + 1, Len(old))
    OBVIOUS
  <2>2. w.off = 0
    BY <1>3, <1>7 DEF WriteAll
  <2>3. new \in Chunks /\ (old = Part(b, w.off) => new = Part(b, k))
    BY <1>4, <2>1, <2>2, WriteWhole
  <2>4. /\ handler' = [handler EXCEPT ![h].off = k]
        /\ Inodes([inode EXCEPT ![n].chunks = new])
        /\ UNCHANGED dir
    BY <1>1, <1>3, <1>4, <1>7, <2>1 DEF WriteAll
  <2>5. k \in Nat /\ k <= Size[b] /\ k = Size[b]
    BY <1>5, <2>1
  <2>. QED
    BY <1>2, <1>3, <2>3, <2>4, <2>5, WriteStep
<1>. QED
  BY <1>6, <1>7

LEMMA BreaksOff ==
  ASSUME IInv, NEW h \in Handler, BodyFails(h)
  PROVE  IInv'
<1>1. inode \in [Inode -> InodeState] /\ handler \in [Handler -> HandlerState]
  BY DEF IInv, TypeOK
<1>2. PICK op, n : op = handler[h].op /\ n = handler[h].inode
  OBVIOUS
<1>3. handler[h].pc = "writing" /\ op \in Op /\ n \in Inode
  BY <1>1, <1>2, Fields DEF BodyFails
<1>4. PICK s : s = Told(op, 500)
  OBVIOUS
<1>5. s \in HandlerState /\ s.pc = "answered" /\ s.status = 500
  BY <1>3, <1>4, Tells
<1>6. PICK S : S = {h}
  OBVIOUS
<1>7. /\ S \in SUBSET Handler
      /\ handler' = [g \in Handler |-> IF g \in S THEN s ELSE handler[g]]
  BY <1>1, <1>2, <1>4, <1>6 DEF BodyFails, Goto, Told
<1>8. PICK nodes : nodes = [inode EXCEPT ![n].torn = TRUE]
  OBVIOUS
<1>9. Inodes(nodes) /\ UNCHANGED dir
  BY <1>2, <1>8 DEF BodyFails
<1>10. PICK node : node = [inode[n] EXCEPT !.torn = TRUE]
  OBVIOUS
<1>11. /\ node \in InodeState /\ node.saved = inode[n].saved
       /\ node.chunks = inode[n].chunks /\ node.torn
  BY <1>1, <1>3, <1>10 DEF InodeState
<1>12. nodes \in [Inode -> InodeState] /\ nodes[n] = node
       /\ \A m \in Inode : m # n => nodes[m] = inode[m]
  <2>1. nodes = [inode EXCEPT ![n] = node]
    BY <1>8, <1>10
  <2>. QED
    BY <1>1, <1>3, <1>11, <2>1
<1>13. \A m : h \in WritersOf(m, handler) <=> m = n
  BY <1>2, <1>3 DEF WritersOf
<1>14. \A m : S \cap WritersOf(m, handler) # {} <=> m = n
  BY <1>6, <1>13
<1>15. \A m \in Inode :
         /\ nodes[m].saved = inode[m].saved /\ nodes[m].chunks = inode[m].chunks
         /\ nodes[m].torn <=> inode[m].torn \/ S \cap WritersOf(m, handler) # {}
  BY <1>11, <1>12, <1>14
<1>. QED
  BY <1>5, <1>7, <1>9, <1>12, <1>15, TornStep

LEMMA Crashes ==
  ASSUME IInv, Crash
  PROVE  IInv'
<1>1. inode \in [Inode -> InodeState]
  BY DEF IInv, TypeOK
<1>2. PICK s : s = Idle
  OBVIOUS
<1>3. s \in HandlerState /\ s.pc = "idle"
  BY <1>2, States
<1>4. handler' = [h \in Handler |-> IF h \in Handler THEN s ELSE handler[h]]
  BY <1>2 DEF Crash
<1>5. PICK nodes : nodes = [n \in Inode |->
                              [inode[n] EXCEPT !.torn = @ \/ Writers(n) # {}]]
  OBVIOUS
<1>6. Inodes(nodes) /\ UNCHANGED dir
  BY <1>5 DEF Crash
<1>7. ASSUME NEW n \in Inode
      PROVE  /\ nodes[n] \in InodeState
             /\ nodes[n].saved = inode[n].saved /\ nodes[n].chunks = inode[n].chunks
             /\ nodes[n].torn <=> inode[n].torn \/ Writers(n) # {}
  BY <1>1, <1>5 DEF InodeState
<1>8. nodes \in [Inode -> InodeState]
  BY <1>5, <1>7
<1>9. \A n : Handler \cap WritersOf(n, handler) = Writers(n)
  BY DEF Writers, WritersOf
<1>10. \A n \in Inode :
         /\ nodes[n].saved = inode[n].saved /\ nodes[n].chunks = inode[n].chunks
         /\ nodes[n].torn <=> inode[n].torn \/ Handler \cap WritersOf(n, handler) # {}
  BY <1>7, <1>9
<1>. QED
  BY <1>3, <1>4, <1>6, <1>8, <1>10, TornStep

LEMMA Stutters == IInv /\ UNCHANGED vars => IInv'
<1>1. SUFFICES ASSUME IInv, UNCHANGED vars PROVE IInv'
  OBVIOUS
<1>2. dir' = dir /\ inode' = inode /\ handler' = handler
  BY <1>1 DEF vars
<1>3. TypeOK'
  BY <1>1, <1>2 DEF IInv, TypeOK
<1>4. InUse(dir', handler') = InUse(dir, handler)
  BY <1>2
<1>5. \A n \in InUse(dir', handler') : InodeOK(n, inode'[n], handler')
  BY <1>1, <1>2, <1>4 DEF IInv
<1>6. \A h \in Handler : /\ HandlerOK(handler'[h])
                         /\ ReaderOK(handler'[h], inode', handler')
                         /\ WiperOK(handler'[h], dir')
  BY <1>1, <1>2 DEF IInv
<1>. QED
  BY <1>3, <1>5, <1>6 DEF IInv

LEMMA Steps == IInv /\ [Next]_vars => IInv'
<1>1. SUFFICES ASSUME IInv, [Next]_vars PROVE IInv'
  OBVIOUS
<1>2. CASE UNCHANGED vars
  BY <1>1, <1>2, Stutters
<1>3. CASE Crash
  BY <1>1, <1>3, Crashes
<1>4. ASSUME NEW h \in Handler, BodyFails(h) PROVE IInv'
  BY <1>1, <1>4, BreaksOff
<1>5. ASSUME NEW h \in Handler, Step(h) PROVE IInv'
  <2>1. CASE OpenRead(h)
    BY <1>1, <2>1, Opens
  <2>2. CASE ReadChunk(h)
    BY <1>1, <2>2, Reads
  <2>3. CASE ReadEnd(h)
    BY <1>1, <2>3, Answering
  <2>4. CASE CreateLock(h)
    BY <1>1, <2>4, Saves
  <2>5. CASE WriteChunk(h) \/ WriteAll(h)
    BY <1>1, <2>5, Writes
  <2>6. CASE WriteEnd(h) \/ Return(h)
    BY <1>1, <2>6, Ends
  <2>7. CASE WipeNext(h)
    BY <1>1, <2>7, Removes
  <2>8. CASE WipeEnd(h)
    BY <1>1, <2>8, Finishes
  <2>. QED
    BY <1>5, <2>1, <2>2, <2>3, <2>4, <2>5, <2>6, <2>7, <2>8 DEF Step
<1>6. ASSUME NEW h \in Handler, Start(h) PROVE IInv'
  <2>1. CASE DeleteAllStates(h)
    BY <1>1, <2>1, Lists
  <2>2. CASE \/ \E p \in Project, b \in Body : SaveState(h, p, b)
             \/ \E p \in Project, b \in Body : SaveStateContent(h, StateFile(p), b)
    BY <1>1, <2>2, Saves
  <2>3. CASE \E p \in Project :
               \/ GetState(h, p) \/ DeleteState(h, p) \/ UnlockState(h, p)
               \/ GetStateContent(h, StateFile(p))
               \/ \E b \in LockInfo : LockState(h, p, b)
    BY <1>1, <2>3, Asks
  <2>. QED
    BY <1>6, <2>1, <2>2, <2>3 DEF Start
<1>. QED
  BY <1>1, <1>2, <1>3, <1>4, <1>5, <1>6 DEF Next

LEMMA Invariance == Spec => []IInv
BY Inits, Steps, PTL DEF Spec

-----------------------------------------------------------------------------
(* Every file has an inode of its own and every request a place in its     *)
(* handler of internal/tfstate, however requests and crashes interleave.   *)
THEOREM TypeCorrect == Spec => []TypeOK
<1>1. IInv => TypeOK
  BY DEF IInv
<1>. QED
  BY <1>1, Invariance, PTL

(* A state file nobody is saving is the whole body of the last save that   *)
(* opened it (SaveState, LockState, SaveStateContent), unless saves of it  *)
(* overlapped or the last one broke off: for any number of requests and    *)
(* chunks, nothing else that Go's handlers do damages a state.             *)
THEOREM FilesAreWhole == Spec => []CleanFile
<1>1. IInv => CleanFile
  <2>1. SUFFICES ASSUME IInv, NEW f \in File, dir[f] # None,
                        Writers(dir[f]) = {}, ~inode[dir[f]].torn
                 PROVE  inode[dir[f]].chunks = Whole(inode[dir[f]].saved)
    BY DEF CleanFile
  <2>2. dir[f] \in InUse(dir, handler)
    BY <2>1, Using
  <2>3. WritersOf(dir[f], handler) = {}
    BY <2>1 DEF Writers, WritersOf
  <2>. QED
    BY <2>1, <2>2, <2>3 DEF IInv, InodeOK
<1>. QED
  BY <1>1, Invariance, PTL

(* What GetState, LockState and GetStateContent answer is one whole body   *)
(* if the file was whole when it was opened and no save opened it since,   *)
(* though it was removed or wiped meanwhile.                               *)
THEOREM ReadsAreWhole == Spec => []CleanRead
<1>1. IInv => CleanRead
  BY DEF IInv, ReaderOK, CleanRead
<1>. QED
  BY <1>1, Invariance, PTL

(* When DeleteAllStates succeeds, each file it listed is gone, or is a new *)
(* one under that name.                                                    *)
THEOREM WipesAreComplete == Spec => []WipeIsComplete
<1>1. IInv => WipeIsComplete
  BY DEF IInv, WiperOK, WipeIsComplete
<1>. QED
  BY <1>1, Invariance, PTL
=============================================================================
