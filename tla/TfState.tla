------------------------------ MODULE TfState ------------------------------
(***************************************************************************)
(* The Terraform state backend of internal/tfstate: a state file and a     *)
(* lock file per project in one directory, without any lock of the server. *)
(* Requests run side by side, one system call per step: Stat, OpenFile     *)
(* with O_TRUNC, the chunks io.Copy moves, ReadDir, Remove.                *)
(*                                                                         *)
(* A directory entry points at an inode; a file that is removed while it   *)
(* is open lives on without a name.  The content of an inode is a sequence *)
(* of chunks; a body is the chunks a client sends.  Two fields of an inode *)
(* are history: saved, the body whose save last opened it, and torn, set   *)
(* when two saves wrote it at once or one was left unfinished.             *)
(*                                                                         *)
(* Definitions whose name starts with Broken are faulty variants of the    *)
(* definition after them, used by no specification: each shows that a      *)
(* property would fail if the code had that fault.                         *)
(***************************************************************************)
EXTENDS Integers, Sequences, FiniteSets

CONSTANTS
  Project,
  Handler,    \* requests in flight at once
  Body,       \* what clients send: states and lock infos
  LockInfo,   \* the bodies of LOCK requests
  Size,       \* the number of chunks of each body
  Inode,      \* enough of them that one is always free (FreeInode)
  None,       \* no directory entry; no body
  Hole,       \* what is read where nothing was written
  Place       \* of each file name in the order ReadDir lists them

StateFile(p) == <<p, "json">>
LockFile(p) == <<p, "json.lock">>

File == {StateFile(p) : p \in Project} \cup {LockFile(p) : p \in Project}

ASSUME TfStateAssumption ==
  /\ Size \in [Body -> Nat]
  /\ None \notin Inode \cup Body \cup Handler
  /\ LockInfo \subseteq Body
  /\ Place \in [File -> Nat]
  /\ IsFiniteSet(Project) /\ IsFiniteSet(Handler)
  /\ Cardinality(Inode) > Cardinality(File) * (Cardinality(Handler) + 1)

Chunk == UNION {{<<b, i>> : i \in 1..Size[b]} : b \in Body}

Whole(b) == [i \in 1..Size[b] |-> <<b, i>>]

Bodies == {Whole(b) : b \in Body}

VARIABLES
  dir,      \* the directory: file name to inode
  inode,    \* what each inode holds
  handler   \* the requests in flight

vars == <<dir, inode, handler>>

-----------------------------------------------------------------------------
(* What a request is doing.                                                *)

Idle == [pc |-> "idle"]
Opening(op, f) == [pc |-> "opening", op |-> op, file |-> f]
Reading(op, n, clean) ==
  [pc |-> "reading", op |-> op, inode |-> n, got |-> <<>>, clean |-> clean]
Creating(op, f, b) == [pc |-> "creating", op |-> op, file |-> f, body |-> b]
Writing(op, n, b) ==
  [pc |-> "writing", op |-> op, inode |-> n, body |-> b, off |-> 0]
Wiping(todo, seen) == [pc |-> "wiping", todo |-> todo, seen |-> seen]
Answered(op, status, got, clean) ==
  [pc |-> "answered", op |-> op, status |-> status, got |-> got,
   clean |-> clean]
Wiped(seen) == [pc |-> "wiped", seen |-> seen]

(* net/http sends the status of the first WriteHeader, or 200 at the first *)
(* Write; a later WriteHeader is ignored.                                  *)
ResponseStatus(calls) == IF Head(calls) = "Write" THEN 200 ELSE Head(calls)

Writers(n) ==
  {h \in Handler : handler[h].pc = "writing" /\ handler[h].inode = n}

(* Named, or open in some request.                                         *)
InUse(d, hs) ==
  ({d[f] : f \in File} \ {None})
    \cup {hs[h].inode : h \in {g \in Handler :
            hs[g].pc \in {"reading", "writing"}}}

Remembered ==
  UNION {handler[h].seen : h \in {g \in Handler :
           handler[g].pc \in {"wiping", "wiped"}}}

(* A wipe's list is not confused by an inode number that comes back.       *)
FreeInode == CHOOSE n \in Inode : n \notin InUse(dir, handler) \cup Remembered

Unused == [chunks |-> <<>>, saved |-> None, torn |-> FALSE]

(* The inodes after a step; the kernel frees the ones nobody uses.         *)
Inodes(contents) ==
  \E used \in {InUse(dir', handler')} :
    inode' = [n \in Inode |-> IF n \in used THEN contents[n] ELSE Unused]

-----------------------------------------------------------------------------
Op == {"GET", "EXPORT", "SAVE", "RESTORE", "LOCK", "DELETE", "UNLOCK", "WIPE"}
Chunks == Seq(Chunk \cup {Hole})

InodeState == [chunks : Chunks, saved : Body \cup {None}, torn : BOOLEAN]

HandlerState ==
  {Idle}
    \cup [pc : {"opening"}, op : Op, file : File]
    \cup [pc : {"reading"}, op : Op, inode : Inode, got : Chunks, clean : BOOLEAN]
    \cup [pc : {"creating"}, op : Op, file : File, body : Body]
    \cup [pc : {"writing"}, op : Op, inode : Inode, body : Body, off : Nat]
    \cup [pc : {"wiping"}, todo : SUBSET File, seen : SUBSET Inode]
    \cup [pc : {"answered"}, op : Op, status : {200, 423, 500}, got : Chunks,
          clean : BOOLEAN]
    \cup [pc : {"wiped"}, seen : SUBSET Inode]

(* A file has an inode of its own.                                         *)
TypeOK ==
  /\ dir \in [File -> Inode \cup {None}]
  /\ \A f, g \in File : dir[f] = dir[g] /\ dir[f] # None => f = g
  /\ inode \in [Inode -> InodeState]
  /\ handler \in [Handler -> HandlerState]

Init ==
  /\ dir = [f \in File |-> None]
  /\ inode = [n \in Inode |-> Unused]
  /\ handler = [h \in Handler |-> Idle]

Goto(h, s) == handler' = [handler EXCEPT ![h] = s]

-----------------------------------------------------------------------------
(* Reading a file (GetState, the found branch of LockState,                *)
(* GetStateContent).                                                       *)

(* Stat, and a first answer if there is no state yet.                      *)
GetState(h, p) ==
  /\ handler[h] = Idle
  /\ \/ /\ dir[StateFile(p)] = None
        /\ Goto(h, Answered("GET", 200, <<>>, FALSE))
     \/ /\ dir[StateFile(p)] # None
        /\ Goto(h, Opening("GET", StateFile(p)))
  /\ UNCHANGED dir
  /\ Inodes(inode)

GetStateContent(h, f) ==
  /\ handler[h] = Idle
  /\ Goto(h, Opening("EXPORT", f))
  /\ UNCHANGED dir
  /\ Inodes(inode)

(* The file may be gone since Stat.                                        *)
OpenRead(h) ==
  /\ handler[h].pc = "opening"
  /\ LET op == handler[h].op
         n == dir[handler[h].file]
     IN \/ n = None /\ Goto(h, Answered(op, 500, <<>>, FALSE))
        \/ n # None /\ Goto(h, Reading(op, n, ~inode[n].torn /\ Writers(n) = {}))
  /\ UNCHANGED dir
  /\ Inodes(inode)

ReadChunk(h) ==
  /\ handler[h].pc = "reading"
  /\ LET got == handler[h].got
         n == handler[h].inode
     IN /\ Len(got) < Len(inode[n].chunks)
        /\ handler' = [handler EXCEPT
                         ![h].got = Append(@, inode[n].chunks[Len(@) + 1])]
  /\ UNCHANGED dir
  /\ Inodes(inode)

BrokenReadEnd(h) ==   \* a read error in the middle is taken for the end
  /\ handler[h].pc = "reading"
  /\ Goto(h, Answered(handler[h].op, ResponseStatus(<<"Write">>),
                      handler[h].got, handler[h].clean))
  /\ UNCHANGED dir
  /\ Inodes(inode)

(* End of file: LockState writes what it read and then sets StatusLocked.  *)
ReadEnd(h) ==
  /\ handler[h].pc = "reading"
  /\ Len(handler[h].got) >= Len(inode[handler[h].inode].chunks)
  /\ LET op == handler[h].op
         calls == IF op = "LOCK" THEN <<"Write", 423>> ELSE <<"Write">>
     IN Goto(h, Answered(op, ResponseStatus(calls), handler[h].got,
                         handler[h].clean))
  /\ UNCHANGED dir
  /\ Inodes(inode)

-----------------------------------------------------------------------------
(* Saving a file (SaveState, the free branch of LockState,                 *)
(* SaveStateContent).                                                      *)

(* OpenFile with O_CREATE and O_TRUNC: the same inode if there is one, cut *)
(* to nothing under whoever else reads or writes it.                       *)
OpenTrunc(h, op, f, b) ==
  LET n == IF dir[f] = None THEN FreeInode ELSE dir[f]
  IN /\ dir' = [dir EXCEPT ![f] = n]
     /\ handler' = [g \in Handler |->
          IF g = h THEN Writing(op, n, b)
          ELSE IF handler[g].pc = "reading" /\ handler[g].inode = n
               THEN [handler[g] EXCEPT !.clean = FALSE]
               ELSE handler[g]]
     /\ Inodes([inode EXCEPT ![n] =
          [chunks |-> <<>>, saved |-> b, torn |-> Writers(n) # {}]])

SaveState(h, p, b) ==
  /\ handler[h] = Idle
  /\ OpenTrunc(h, "SAVE", StateFile(p), b)

SaveStateContent(h, f, b) ==
  /\ handler[h] = Idle
  /\ OpenTrunc(h, "RESTORE", f, b)

(* Stat: with a lock file the request becomes a read of it, without one    *)
(* the lock will be created, whatever others do meanwhile.                 *)
LockState(h, p, b) ==
  /\ handler[h] = Idle
  /\ \/ /\ dir[LockFile(p)] = None
        /\ Goto(h, Creating("LOCK", LockFile(p), b))
     \/ /\ dir[LockFile(p)] # None
        /\ Goto(h, Opening("LOCK", LockFile(p)))
  /\ UNCHANGED dir
  /\ Inodes(inode)

CreateLock(h) ==
  /\ handler[h].pc = "creating"
  /\ OpenTrunc(h, handler[h].op, handler[h].file, handler[h].body)

(* A write at an offset; what the file lacks below it reads as zeros.      *)
WriteAt(chunks, i, c) ==
  [j \in 1..(IF Len(chunks) < i THEN i ELSE Len(chunks)) |->
    IF j = i THEN c ELSE IF j <= Len(chunks) THEN chunks[j] ELSE Hole]

BrokenWriteChunk(h) ==   \* the first chunk is written twice
  /\ handler[h].pc = "writing"
  /\ handler[h].op # "RESTORE"
  /\ UNCHANGED dir
  /\ LET w == handler[h]
         i == w.off + 1
     IN /\ i <= Size[w.body]
        /\ handler' = [handler EXCEPT ![h].off = i]
        /\ Inodes([inode EXCEPT
             ![w.inode].chunks = WriteAt(@, i, <<w.body, 1>>)])

BrokenWriteChunkPast(h) ==   \* one chunk too many
  /\ handler[h].pc = "writing"
  /\ handler[h].op # "RESTORE"
  /\ UNCHANGED dir
  /\ LET w == handler[h]
         i == w.off + 1
     IN /\ i <= Size[w.body] + 1
        /\ handler' = [handler EXCEPT ![h].off = i]
        /\ Inodes([inode EXCEPT
             ![w.inode].chunks = WriteAt(@, i, <<w.body, i>>)])

(* io.Copy moves the next chunk of the request's body.                     *)
WriteChunk(h) ==
  /\ handler[h].pc = "writing"
  /\ handler[h].op # "RESTORE"
  /\ UNCHANGED dir
  /\ LET w == handler[h]
         i == w.off + 1
     IN /\ i <= Size[w.body]
        /\ handler' = [handler EXCEPT ![h].off = i]
        /\ Inodes([inode EXCEPT
             ![w.inode].chunks = WriteAt(@, i, <<w.body, i>>)])

(* os.WriteFile has the whole content and writes it in one call.           *)
WriteAll(h) ==
  /\ handler[h].pc = "writing"
  /\ handler[h].op = "RESTORE"
  /\ handler[h].off = 0
  /\ UNCHANGED dir
  /\ LET w == handler[h]
     IN /\ handler' = [handler EXCEPT ![h].off = Size[w.body]]
        /\ Inodes([inode EXCEPT ![w.inode].chunks =
             Whole(w.body) \o SubSeq(@, Size[w.body] + 1, Len(@))])

WriteEnd(h) ==
  /\ handler[h].pc = "writing"
  /\ handler[h].off = Size[handler[h].body]
  /\ Goto(h, Answered(handler[h].op, 200, <<>>, FALSE))
  /\ UNCHANGED dir
  /\ Inodes(inode)

(* The client breaks off, or the disk is full: what is there stays there.  *)
BodyFails(h) ==
  /\ handler[h].pc = "writing"
  /\ handler[h].off < Size[handler[h].body]
  /\ Goto(h, Answered(handler[h].op, 500, <<>>, FALSE))
  /\ UNCHANGED dir
  /\ Inodes([inode EXCEPT ![handler[h].inode].torn = TRUE])

-----------------------------------------------------------------------------
(* Removing files.                                                         *)

Remove(h, op, f) ==
  /\ handler[h] = Idle
  /\ Goto(h, Answered(op, IF dir[f] = None THEN 500 ELSE 200, <<>>, FALSE))
  /\ dir' = [dir EXCEPT ![f] = None]
  /\ Inodes(inode)

DeleteState(h, p) == Remove(h, "DELETE", StateFile(p))

(* Nobody asks whose lock it is.                                           *)
UnlockState(h, p) == Remove(h, "UNLOCK", LockFile(p))

BrokenDeleteAllStates(h) ==   \* lock files are left out
  /\ handler[h] = Idle
  /\ LET listed == {f \in File : dir[f] # None /\ f[2] = "json"}
     IN Goto(h, Wiping(listed, {dir[f] : f \in File} \ {None}))
  /\ UNCHANGED dir
  /\ Inodes(inode)

(* ReadDir, then Remove one by one; the first that is gone ends it.        *)
DeleteAllStates(h) ==
  /\ handler[h] = Idle
  /\ LET listed == {f \in File : dir[f] # None}
     IN Goto(h, Wiping(listed, {dir[f] : f \in listed}))
  /\ UNCHANGED dir
  /\ Inodes(inode)

(* The next of the files that were listed.                                 *)
NextOf(todo) == {f \in todo : \A g \in todo : Place[f] <= Place[g]}

BrokenWipeNext(h) ==   \* waits for a missing file instead of failing
  /\ handler[h].pc = "wiping"
  /\ \E f \in NextOf(handler[h].todo) :
       /\ dir[f] # None
       /\ dir' = [dir EXCEPT ![f] = None]
       /\ handler' = [handler EXCEPT ![h].todo = @ \ {f}]
  /\ Inodes(inode)

WipeNext(h) ==
  /\ handler[h].pc = "wiping"
  /\ \E f \in NextOf(handler[h].todo) :
       \/ /\ dir[f] # None
          /\ dir' = [dir EXCEPT ![f] = None]
          /\ handler' = [handler EXCEPT ![h].todo = @ \ {f}]
       \/ /\ dir[f] = None
          /\ Goto(h, Answered("WIPE", 500, <<>>, FALSE))
          /\ UNCHANGED dir
  /\ Inodes(inode)

WipeEnd(h) ==
  /\ handler[h].pc = "wiping"
  /\ handler[h].todo = {}
  /\ Goto(h, Wiped(handler[h].seen))
  /\ UNCHANGED dir
  /\ Inodes(inode)

-----------------------------------------------------------------------------
Return(h) ==
  /\ handler[h].pc \in {"answered", "wiped"}
  /\ Goto(h, Idle)
  /\ UNCHANGED dir
  /\ Inodes(inode)

(* The process dies: no request survives, every save in flight is torn.    *)
Crash ==
  /\ handler' = [h \in Handler |-> Idle]
  /\ UNCHANGED dir
  /\ Inodes([n \in Inode |->
       [inode[n] EXCEPT !.torn = @ \/ Writers(n) # {}]])

Step(h) == \/ OpenRead(h)
           \/ ReadChunk(h)
           \/ ReadEnd(h)
           \/ CreateLock(h)
           \/ WriteChunk(h)
           \/ WriteAll(h)
           \/ WriteEnd(h)
           \/ WipeNext(h)
           \/ WipeEnd(h)
           \/ Return(h)

Start(h) == \/ \E p \in Project : \/ GetState(h, p)
                                  \/ DeleteState(h, p)
                                  \/ UnlockState(h, p)
            \/ \E p \in Project, b \in Body : SaveState(h, p, b)
            \/ \E p \in Project, b \in LockInfo : LockState(h, p, b)
            \/ \E p \in Project :
                 \/ GetStateContent(h, StateFile(p))
                 \/ \E b \in Body : SaveStateContent(h, StateFile(p), b)
            \/ DeleteAllStates(h)

Next == \/ \E h \in Handler : Start(h) \/ Step(h) \/ BodyFails(h)
        \/ Crash

Spec == Init /\ [][Next]_vars

(* A goroutine keeps running, and a client sends the body it announced and *)
(* takes its answer, or breaks off.                                        *)
FairSpec == Spec /\ \A h \in Handler : WF_vars(Step(h))

-----------------------------------------------------------------------------
(* A file that nobody is writing holds exactly the body of the last save   *)
(* that opened it, unless two saves of it overlapped or the last one broke *)
(* off: overlap and breaking off are the only ways to damage a state.      *)
CleanFile ==
  \A f \in File :
    LET n == dir[f]
    IN (n # None /\ Writers(n) = {} /\ ~inode[n].torn)
         => inode[n].chunks = Whole(inode[n].saved)

(* A read that found the file complete and was not overtaken by a save     *)
(* answers one whole body, although the file may be removed under it.      *)
CleanRead ==
  \A h \in Handler :
    (handler[h].pc = "answered" /\ handler[h].status = 200 /\ handler[h].clean)
      => handler[h].got \in Bodies

(* A wipe that succeeds leaves no file that was there when it listed the   *)
(* directory, lock files included, whatever was saved or removed meanwhile.*)
WipeIsComplete ==
  \A h \in Handler : handler[h].pc = "wiped" =>
    \A f \in File : dir[f] \notin handler[h].seen

(* Every request is answered.                                              *)
RequestsAnswered ==
  \A h \in Handler : handler[h] # Idle ~> handler[h] = Idle

(* LockState on a lock that exists ends in WriteHeader(StatusLocked).      *)
FoundLockIsLocked ==
  [][\A h \in Handler :
       (handler[h].pc = "reading" /\ handler[h].op = "LOCK"
          /\ handler'[h].pc = "answered") => handler'[h].status = 423]_vars

(* "lock already exists": whoever comes second does not create the lock    *)
(* again.                                                                  *)
LockCreatedOnce ==
  [][\A h \in Handler : CreateLock(h) => dir[handler[h].file] = None]_vars
=============================================================================
