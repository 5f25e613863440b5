---------------------------- MODULE SegmentStore ----------------------------
(***************************************************************************)
(* Immutable segment storage (ledger_io.py): writers that publish one      *)
(* segment path exactly once, and readers of that path.  A step is one     *)
(* system call.  Calls may fail, and the machine may crash between any two *)
(* of them; both are bounded.                                              *)
(*                                                                         *)
(* What a crash keeps of a file is its last fsync or its present state,    *)
(* and of the directory each name's last fsynced or present target, chosen *)
(* independently.  A new file gets the next inode number, none is reused,   *)
(* and a payload is opaque.                                                *)
(* Left out: opening the parent directory component by component, symbolic *)
(* links, and the reader's optional external digest.                       *)
(***************************************************************************)
EXTENDS Integers, FiniteSets

CONSTANTS Writers,    \* processes in write_segment_once, all for one path
          Readers,    \* processes in read_segment_stable of that path
          Temps,      \* temporary names .name.pid.counter.tmp
          Target,     \* the segment's name
          Inodes,     \* bound: files ever created
          None,
          MaxFaults,  \* bound: system calls that fail
          MaxCrashes  \* bound: crashes of the machine

Names == Temps \cup {Target}

ASSUME StoreAssumption ==
  /\ Target \notin Temps /\ None \notin Inodes \cup Names \cup Writers
  /\ MaxFaults \in Nat /\ MaxCrashes \in Nat

VARIABLES dir,      \* the directory: name -> inode or None
          diskDir,  \* the directory as of its last fsync
          file,     \* inode -> [owner, data, readOnly], owner None if unused
          diskFile, \* the same as of the file's last fsync
          writer,   \* local variables of write_segment_once
          reader,   \* local variables of read_segment_stable
          acked,    \* history: writers that returned a digest
          seen,     \* history: writers whose payload some read returned
          faults, crashes

vars == <<dir, diskDir, file, diskFile, writer, reader, acked, seen, faults, crashes>>
disk == <<diskDir, diskFile>>
counters == <<faults, crashes>>

Links(i) == Cardinality({n \in Names : dir[n] = i})

\* os.stat_result as far as the code compares it.
Stat(i) == [inode |-> i, links |-> Links(i), data |-> file[i].data, readOnly |-> file[i].readOnly]

Unused == [owner |-> None, data |-> "empty", readOnly |-> FALSE]
Fresh == {i \in Inodes : file[i] = Unused}
FreshWriter == [pc |-> "create", temp |-> None, inode |-> None, targetCreated |-> FALSE]
FreshReader == [pc |-> "open", inode |-> None, before |-> None]

Init ==
  /\ dir = [n \in Names |-> None] /\ diskDir = dir
  /\ file = [i \in Inodes |-> Unused] /\ diskFile = file
  /\ writer = [w \in Writers |-> FreshWriter]
  /\ reader = [r \in Readers |-> FreshReader]
  /\ acked = {} /\ seen = {}
  /\ faults = 0 /\ crashes = 0

-----------------------------------------------------------------------------
(* write_segment_once, one action per system call of its try block.        *)

At(w, pc) == writer[w].pc = pc
Goto(w, pc) == writer' = [writer EXCEPT ![w].pc = pc]
Becomes(w, pc, temp, inode, created) ==
  writer' = [writer EXCEPT ![w] =
               [pc |-> pc, temp |-> temp, inode |-> inode, targetCreated |-> created]]
Rest == <<reader, acked, seen, faults, crashes>>

\* O_CREAT | O_EXCL under the first temporary name that is free.
Create(w) ==
  /\ At(w, "create")
  /\ Fresh # {}
  /\ \E t \in {n \in Temps : dir[n] = None} :
       LET i == CHOOSE f \in Fresh : TRUE IN
       /\ dir' = [dir EXCEPT ![t] = i]
       /\ file' = [file EXCEPT ![i].owner = w]
       /\ Becomes(w, "write", t, i, FALSE)
  /\ UNCHANGED <<disk, Rest>>

\* Every candidate name exists already, left by others or by crashed runs.
CreateExhausted(w) ==
  /\ At(w, "create")
  /\ \A t \in Temps : dir[t] # None
  /\ Goto(w, "cleanTemp")
  /\ UNCHANGED <<dir, file, disk, Rest>>

\* _write_all: os.write may store a part only, and is then called again.
Write(w) ==
  /\ At(w, "write")
  /\ \/ /\ file[writer[w].inode].data = "empty"
        /\ file' = [file EXCEPT ![writer[w].inode].data = "part"]
        /\ UNCHANGED writer
     \/ /\ file' = [file EXCEPT ![writer[w].inode].data = "all"]
        /\ Goto(w, "sync")
  /\ UNCHANGED <<dir, disk, Rest>>

SyncFile_NoFsync(w) ==
  /\ \/ At(w, "sync") /\ Goto(w, "chmod")
     \/ At(w, "resync") /\ Goto(w, "link")
  /\ UNCHANGED <<dir, file, diskDir, diskFile, Rest>>

\* os.fsync of the temporary file, before and after fchmod; then its close.
SyncFile(w) ==
  /\ \/ At(w, "sync") /\ Goto(w, "chmod")
     \/ At(w, "resync") /\ Goto(w, "link")
  /\ diskFile' = [diskFile EXCEPT ![writer[w].inode] = file[writer[w].inode]]
  /\ UNCHANGED <<dir, file, diskDir, Rest>>

Chmod(w) ==
  /\ At(w, "chmod")
  /\ Stat(writer[w].inode).links = 1 /\ Stat(writer[w].inode).data = "all"
  /\ file' = [file EXCEPT ![writer[w].inode].readOnly = TRUE]
  /\ Goto(w, "resync")
  /\ UNCHANGED <<dir, disk, Rest>>

Link_Overwrites(w) ==
  /\ At(w, "link")
  /\ dir' = [dir EXCEPT ![Target] = writer[w].inode]
  /\ Becomes(w, "checkLinked", writer[w].temp, writer[w].inode, TRUE)
  /\ UNCHANGED <<file, disk, Rest>>

\* os.link never replaces a name that exists.
Link(w) ==
  /\ At(w, "link")
  /\ dir[Target] = None
  /\ dir' = [dir EXCEPT ![Target] = writer[w].inode]
  /\ Becomes(w, "checkLinked", writer[w].temp, writer[w].inode, TRUE)
  /\ UNCHANGED <<file, disk, Rest>>

LinkExists_MarkedCreated(w) ==
  /\ At(w, "link")
  /\ dir[Target] # None
  /\ Becomes(w, "cleanTemp", writer[w].temp, writer[w].inode, TRUE)
  /\ UNCHANGED <<dir, file, disk, Rest>>

LinkExists(w) ==
  /\ At(w, "link")
  /\ dir[Target] # None
  /\ Goto(w, "cleanTemp")
  /\ UNCHANGED <<dir, file, disk, Rest>>

CheckLinked(w) ==
  /\ At(w, "checkLinked")
  /\ LET s == Stat(dir[Target])
     IN  IF dir[Target] # None /\ s.links = 2 /\ s.readOnly /\ s.data = "all"
         THEN Goto(w, "unlinkTemp") ELSE Goto(w, "cleanTemp")
  /\ UNCHANGED <<dir, file, disk, Rest>>

UnlinkTemp(w) ==
  /\ At(w, "unlinkTemp")
  /\ dir' = [dir EXCEPT ![writer[w].temp] = None]
  /\ Becomes(w, "syncDir", None, writer[w].inode, writer[w].targetCreated)
  /\ UNCHANGED <<file, disk, Rest>>

SyncDir_NoFsync(w) ==
  /\ \/ At(w, "syncDir") /\ Goto(w, "checkPublished")
     \/ At(w, "syncRollback") /\ Goto(w, "raised")
  /\ UNCHANGED <<dir, file, diskDir, diskFile, Rest>>

\* os.fsync of the parent directory, after publication or after a rollback.
SyncDir(w) ==
  /\ \/ At(w, "syncDir") /\ Goto(w, "checkPublished")
     \/ At(w, "syncRollback") /\ Goto(w, "raised")
  /\ diskDir' = dir
  /\ UNCHANGED <<dir, file, diskFile, Rest>>

\* _require_published_stat, then the digest is returned.
CheckPublished(w) ==
  /\ At(w, "checkPublished")
  /\ LET s == Stat(dir[Target])
     IN  IF dir[Target] # None /\ s.links = 1 /\ s.readOnly /\ s.data = "all"
         THEN /\ Becomes(w, "returned", writer[w].temp, writer[w].inode, FALSE)
              /\ acked' = acked \cup {w}
         ELSE Goto(w, "cleanTemp") /\ UNCHANGED acked
  /\ UNCHANGED <<dir, file, disk, reader, seen, counters>>

-----------------------------------------------------------------------------
(* Failing calls and the finally block.                                    *)

InTry == {"create", "write", "sync", "chmod", "resync", "link", "checkLinked",
          "unlinkTemp", "syncDir", "checkPublished"}
InFinally == {"cleanTemp", "cleanTarget", "syncRollback"}

(***************************************************************************)
(* A call fails and has no effect.  In the try block that leads to the     *)
(* finally block; there it leaves the function at once, so a temporary     *)
(* name that cannot be removed also prevents the removal of the target.    *)
(***************************************************************************)
Fault(w) ==
  /\ faults < MaxFaults
  /\ faults' = faults + 1
  /\ \/ writer[w].pc \in InTry /\ Goto(w, "cleanTemp")
     \/ writer[w].pc \in InFinally /\ Goto(w, "raised")
  /\ UNCHANGED <<dir, file, disk, reader, acked, seen, crashes>>

CleanTemp(w) ==
  /\ At(w, "cleanTemp")
  /\ dir' = [n \in Names |-> IF n = writer[w].temp THEN None ELSE dir[n]]
  /\ Goto(w, "cleanTarget")
  /\ UNCHANGED <<file, disk, Rest>>

CleanTarget(w) ==
  /\ At(w, "cleanTarget")
  /\ IF writer[w].targetCreated /\ dir[Target] # None
     THEN dir' = [dir EXCEPT ![Target] = None] /\ Goto(w, "syncRollback")
     ELSE UNCHANGED dir /\ Goto(w, "raised")
  /\ UNCHANGED <<file, disk, Rest>>

\* The caller tries again after an error.
Retry(w) ==
  /\ At(w, "raised")
  /\ writer' = [writer EXCEPT ![w] = FreshWriter]
  /\ UNCHANGED <<dir, file, disk, Rest>>

WriterStep(w) ==
  \/ Create(w) \/ CreateExhausted(w) \/ Write(w) \/ SyncFile(w) \/ Chmod(w)
  \/ Link(w) \/ LinkExists(w) \/ CheckLinked(w) \/ UnlinkTemp(w) \/ SyncDir(w)
  \/ CheckPublished(w) \/ CleanTemp(w) \/ CleanTarget(w)

-----------------------------------------------------------------------------
(* read_segment_stable.  Every check that fails makes the reader start     *)
(* over.                                                                   *)

StillAt(r, i) == dir[Target] = i

Acceptable(s) == s.links = 1 /\ s.readOnly /\ s.data # "empty"

Open(r) ==
  /\ reader[r].pc = "open" /\ dir[Target] # None
  /\ reader' = [reader EXCEPT ![r] = [pc |-> "fstat", inode |-> dir[Target], before |-> None]]

Fstat(r) ==
  /\ reader[r].pc = "fstat"
  /\ reader' = [reader EXCEPT ![r] =
                   [pc |-> "stat", inode |-> @.inode, before |-> Stat(@.inode)]]

StatPath(r) ==
  /\ reader[r].pc = "stat"
  /\ reader' = [reader EXCEPT ![r] =
       IF StillAt(r, reader[r].inode) /\ Acceptable(reader[r].before)
       THEN [@ EXCEPT !.pc = "read"] ELSE FreshReader]

\* The bytes are read and the descriptor's metadata compared.
ReadAndFstat(r) ==
  /\ reader[r].pc = "read"
  /\ reader' = [reader EXCEPT ![r] =
       IF Stat(@.inode) = @.before THEN [@ EXCEPT !.pc = "restat"] ELSE FreshReader]

\* The path is compared once more; parse_segment rejects an incomplete payload.
RestatAndReturn(r) ==
  /\ reader[r].pc = "restat"
  /\ reader' = [reader EXCEPT ![r] = FreshReader]
  /\ seen' = IF StillAt(r, reader[r].inode) /\ Stat(reader[r].inode) = reader[r].before
                  /\ reader[r].before.data = "all"
             THEN seen \cup {file[reader[r].inode].owner} ELSE seen

ReaderStep(r) ==
  /\ \/ (Open(r) \/ Fstat(r) \/ StatPath(r) \/ ReadAndFstat(r)) /\ UNCHANGED seen
     \/ RestatAndReturn(r)
  /\ UNCHANGED <<dir, file, disk, writer, acked, counters>>

-----------------------------------------------------------------------------
(***************************************************************************)
(* The machine crashes: processes are gone and will start over, and what   *)
(* was not fsynced may be lost.                                            *)
(***************************************************************************)
Crash ==
  /\ crashes < MaxCrashes
  /\ crashes' = crashes + 1
  /\ \E names \in SUBSET Names :
       dir' = [n \in Names |-> IF n \in names THEN dir[n] ELSE diskDir[n]]
  /\ \E kept \in SUBSET Inodes :
       file' = [i \in Inodes |-> IF i \in kept THEN file[i]
                                ELSE [diskFile[i] EXCEPT !.owner = file[i].owner]]
  /\ diskDir' = dir' /\ diskFile' = file'
  /\ writer' = [w \in Writers |-> IF w \in acked THEN writer[w] ELSE FreshWriter]
  /\ reader' = [r \in Readers |-> FreshReader]
  /\ UNCHANGED <<acked, seen, faults>>

Next ==
  \/ \E w \in Writers : WriterStep(w) \/ Fault(w) \/ Retry(w)
  \/ \E r \in Readers : ReaderStep(r)
  \/ Crash

\* A running process gets to its next call; faults, crashes and retries need not happen.
Fairness == \A w \in Writers : WF_vars(WriterStep(w))

Spec == Init /\ [][Next]_vars
FairSpec == Spec /\ Fairness

-----------------------------------------------------------------------------
(* Properties.                                                             *)

(***************************************************************************)
(* No torn or writable segment ever stands at the path, in memory or after *)
(* a crash: what is published was fsynced whole and read-only before.      *)
(***************************************************************************)
PublishedIsComplete ==
  dir[Target] # None => file[dir[Target]].data = "all" /\ file[dir[Target]].readOnly

(***************************************************************************)
(* A returned digest is a promise: the writer's own segment stands at the  *)
(* path, readable, in memory and on disk, after whatever crash, fault or   *)
(* competing writer; hence at most one writer ever returns.                *)
(***************************************************************************)
AcknowledgedIsDurable ==
  \A w \in acked :
    /\ dir[Target] # None /\ diskDir[Target] = dir[Target]
    /\ file[dir[Target]] = [owner |-> w, data |-> "all", readOnly |-> TRUE]
    /\ diskFile[dir[Target]] = file[dir[Target]]
    /\ Links(dir[Target]) = 1

(***************************************************************************)
(* Rollback removes nothing but what its own call published: the path is   *)
(* taken away from a segment only by the writer of that segment, or by a   *)
(* crash.                                                                  *)
(***************************************************************************)
RollbackSparesOthers ==
  [][(dir[Target] # None /\ dir'[Target] # dir[Target] /\ crashes' = crashes) =>
       \E w \in Writers : /\ writer[w].pc = "cleanTarget" /\ writer[w].inode = dir[Target]
                          /\ dir'[Target] = None]_vars

(***************************************************************************)
(* Every payload a read returned is the acknowledged one once there is an  *)
(* acknowledged one, unless its writer's publication failed or was lost in *)
(* a crash: without faults and crashes all reads agree.                    *)
(***************************************************************************)
UndisturbedReadsAgree ==
  faults = 0 /\ crashes = 0 =>
    /\ Cardinality(seen \cup acked) <= 1
    /\ \A w \in seen : dir[Target] # None /\ file[dir[Target]].owner = w

(***************************************************************************)
(* Racing writers do not exclude each other: when no call fails and the    *)
(* machine stays up, one of them gets its segment acknowledged, and no     *)
(* temporary name is left.                                                 *)
(***************************************************************************)
SomeWriterPublishes ==
  [](faults = 0 /\ crashes = 0) => <>[](acked # {} /\ \A t \in Temps : dir[t] = None)

\* "Segment storage is no-overwrite": two reads of one path never return the
\* segments of two different writes.
NoOverwrite == Cardinality(seen) <= 1
=============================================================================
