------------------------- MODULE SegmentStoreProofs -------------------------
(***************************************************************************)
(* What is proved of the segment storage, for any number of writers,       *)
(* readers, files, faults and crashes: the three safety invariants that    *)
(* the run Store checks, and that rollback spares the segments of others.  *)
(***************************************************************************)
EXTENDS SegmentStore, FiniteSetTheorems, TLAPS

WriterPCs == InTry \cup InFinally \cup {"returned", "raised"}
ReaderPCs == {"open", "fstat", "stat", "read", "restat"}
FileState == [owner : Writers \cup {None}, data : {"empty", "part", "all"}, readOnly : BOOLEAN]

StoreTypes ==
  /\ dir \in [Names -> Inodes \cup {None}]
  /\ diskDir \in [Names -> Inodes \cup {None}]
  /\ file \in [Inodes -> FileState]
  /\ diskFile \in [Inodes -> FileState]
  /\ writer \in [Writers -> [pc : WriterPCs, temp : Temps \cup {None},
                             inode : Inodes \cup {None}, targetCreated : BOOLEAN]]
  /\ DOMAIN reader = Readers
  /\ \A r \in Readers :
       /\ reader[r] \in [pc : ReaderPCs, inode : Inodes \cup {None}, before : {reader[r].before}]
       /\ reader[r].pc # "open" => reader[r].inode # None
  /\ acked \subseteq Writers /\ seen \subseteq Writers
  /\ faults \in Nat /\ crashes \in Nat

\* Whole and read-only, in memory and on disk.
Whole(i) ==
  /\ file[i].data = "all" /\ file[i].readOnly
  /\ diskFile[i].data = "all" /\ diskFile[i].readOnly

Named(i) == \E n \in Names : dir[n] = i \/ diskDir[n] = i

\* A name leads to a file that somebody made; the segment's name to a whole one.
NamesLeadToFiles ==
  /\ \A i \in Inodes : Named(i) => file[i].owner # None
  /\ \A i \in {dir[Target], diskDir[Target]} \ {None} : Whole(i)

BeforeLink == {"write", "sync", "chmod", "resync", "link"}
Linked == {"checkLinked", "unlinkTemp", "syncDir", "checkPublished"}
Holding == BeforeLink \cup Linked \cup {"returned"}

(* What a writer knows of the file it made. *)
OwnFile(w) ==
  /\ writer[w].inode # None => file[writer[w].inode].owner = w
  /\ writer[w].pc \in Holding => writer[w].inode # None
  /\ writer[w].pc = "create" => writer[w] = FreshWriter
  /\ writer[w].pc \in {"chmod", "resync"} =>
       /\ file[writer[w].inode].data = "all" /\ diskFile[writer[w].inode].data = "all"
       /\ writer[w].pc = "resync" => file[writer[w].inode].readOnly
  /\ writer[w].pc = "sync" => file[writer[w].inode].data = "all"
  /\ writer[w].pc \in {"link", "returned"} \cup Linked =>
       Whole(writer[w].inode) /\ diskFile[writer[w].inode] = file[writer[w].inode]
  /\ writer[w].pc \in BeforeLink =>
       /\ ~writer[w].targetCreated
       /\ writer[w].inode \notin {dir[Target], diskDir[Target]}

(* The temporary name of a writer is its own, and the only temporary one of *)
(* its file.                                                                *)
OwnTemp(w) ==
  /\ writer[w].inode # None =>
       \A n \in Temps : dir[n] = writer[w].inode => n = writer[w].temp
  /\ writer[w].pc \in BeforeLink \cup {"checkLinked", "unlinkTemp"} =>
       writer[w].temp # None /\ dir[writer[w].temp] = writer[w].inode
  /\ writer[w].pc \in {"syncDir", "checkPublished", "returned"} => writer[w].temp = None
  /\ writer[w].pc = "cleanTemp" /\ writer[w].temp # None =>
       writer[w].inode # None /\ dir[writer[w].temp] = writer[w].inode

(* What a writer has linked stays linked until it removes it itself. *)
OwnTarget(w) ==
  /\ writer[w].pc \in Linked => writer[w].targetCreated
  /\ writer[w].targetCreated /\ writer[w].pc \in Linked \cup {"cleanTemp", "cleanTarget"} =>
       writer[w].inode # None /\ dir[Target] = writer[w].inode
  /\ writer[w].pc \in {"checkPublished", "returned"} =>
       /\ dir[Target] = writer[w].inode /\ diskDir[Target] = writer[w].inode
       /\ \A n \in Temps : dir[n] # writer[w].inode /\ diskDir[n] # writer[w].inode
  /\ writer[w].pc = "returned" =>
       ~writer[w].targetCreated
  /\ w \in acked <=> writer[w].pc = "returned"

(* While nothing has failed, what is published stays, and so does what was read. *)
Undisturbed ==
  faults = 0 /\ crashes = 0 =>
    /\ \A w \in Writers :
         writer[w].pc \in {"cleanTemp", "cleanTarget", "syncRollback", "raised"} =>
           ~writer[w].targetCreated
    /\ \A w \in seen : dir[Target] # None /\ file[dir[Target]].owner = w

StoreInv ==
  /\ StoreTypes /\ NamesLeadToFiles /\ Undisturbed
  /\ \A w \in Writers : OwnFile(w) /\ OwnTemp(w) /\ OwnTarget(w)

Own(w) == OwnFile(w) /\ OwnTemp(w) /\ OwnTarget(w)

-----------------------------------------------------------------------------
(***************************************************************************)
(* The frame of every step of a writer: it alters no file but its own, and *)
(* no name that leads to another's file.                                   *)
(***************************************************************************)
OnlyTouches(w) ==
  /\ \A v \in Writers \ {w} : writer'[v] = writer[v]
  /\ \A i \in Inodes : file[i].owner \notin {None, w} =>
       file'[i] = file[i] /\ diskFile'[i] = diskFile[i]
  /\ \A n \in Names :
       \/ dir'[n] = dir[n]
       \/ /\ dir[n] # None => file[dir[n]].owner = w
          /\ dir'[n] # None => file'[dir'[n]].owner = w
  /\ \/ diskDir' = diskDir
     \/ diskDir' = dir /\ dir' = dir
  /\ \A v \in Writers \ {w} : v \in acked' <=> v \in acked

(* What one writer knows of its file and names survives the steps of the   *)
(* others: the calls that create, link, rename and remove are made on      *)
(* names of one's own (ledger_io.py:98-188).                               *)
LEMMA OthersKeep ==
  ASSUME StoreInv, StoreTypes', NEW w \in Writers, OnlyTouches(w), NEW v \in Writers \ {w}
  PROVE  Own(v)'
<1>1. v # None /\ Target \in Names /\ Target \notin Temps /\ Temps \subseteq Names
  BY StoreAssumption DEF Names
<1>2. writer'[v] = writer[v] /\ writer[v].inode \in Inodes \cup {None}
  BY DEF OnlyTouches, StoreInv, StoreTypes
<1>3. OwnFile(v) /\ OwnTemp(v) /\ OwnTarget(v)
  BY DEF StoreInv
<1>4. ASSUME writer[v].inode # None
      PROVE  /\ file[writer[v].inode].owner = v /\ writer[v].inode \in Inodes
             /\ file'[writer[v].inode] = file[writer[v].inode]
             /\ diskFile'[writer[v].inode] = diskFile[writer[v].inode]
  BY <1>1, <1>2, <1>3, <1>4 DEF OwnFile, OnlyTouches
<1>5. ASSUME writer[v].inode # None, NEW n \in Names
      PROVE  dir'[n] = writer[v].inode <=> dir[n] = writer[v].inode
  BY <1>1, <1>4, <1>5 DEF OnlyTouches
<1>6. ASSUME writer[v].inode # None, NEW n \in Names
      PROVE  diskDir'[n] = writer[v].inode => diskDir[n] = writer[v].inode \/ dir[n] = writer[v].inode
  BY DEF OnlyTouches
<1>7. ASSUME writer[v].inode # None, diskDir[Target] = writer[v].inode, dir[Target] = writer[v].inode
      PROVE  diskDir'[Target] = writer[v].inode
  BY <1>7 DEF OnlyTouches
<1>8. OwnFile(v)'
  <2>1. writer[v].pc = "create" => writer'[v] = FreshWriter
    BY <1>2, <1>3 DEF OwnFile
  <2>2. writer[v].inode # None =>
          (writer[v].inode \notin {dir[Target], diskDir[Target]} =>
             writer[v].inode \notin {dir'[Target], diskDir'[Target]})
    BY <1>1, <1>5, <1>6
  <2> QED
    BY <1>2, <1>3, <1>4, <2>1, <2>2 DEF OwnFile, Whole, Holding, BeforeLink, Linked
<1>9. OwnTemp(v)'
  <2>1. writer[v].temp \in Temps \cup {None}
    BY DEF StoreInv, StoreTypes
  <2> QED
    BY <1>1, <1>2, <1>3, <1>5, <2>1 DEF OwnTemp, OwnFile, Holding, BeforeLink, Linked
<1>10. OwnTarget(v)'
  <2>1. v \in acked' <=> v \in acked
    BY DEF OnlyTouches
  <2> QED
    BY <1>1, <1>2, <1>3, <1>5, <1>6, <1>7, <2>1 DEF OwnTarget, OwnFile, Holding, BeforeLink, Linked
<1> QED
  BY <1>8, <1>9, <1>10 DEF Own

(* What remains to be shown of a writer's step. *)
LEMMA WriterStepSuffices ==
  ASSUME StoreInv, StoreTypes', NEW w \in Writers, OnlyTouches(w), Own(w)',
         NamesLeadToFiles', Undisturbed'
  PROVE  StoreInv'
BY OthersKeep DEF StoreInv, Own

(* Goto changes nothing but the control state of its writer. *)
LEMMA GotoMoves ==
  ASSUME StoreTypes, NEW w \in Writers, NEW pc \in WriterPCs, Goto(w, pc)
  PROVE  /\ writer'[w] = [pc |-> pc, temp |-> writer[w].temp, inode |-> writer[w].inode,
                          targetCreated |-> writer[w].targetCreated]
         /\ \A v \in Writers \ {w} : writer'[v] = writer[v]
         /\ writer' \in [Writers -> [pc : WriterPCs, temp : Temps \cup {None},
                                     inode : Inodes \cup {None}, targetCreated : BOOLEAN]]
BY DEF Goto, StoreTypes

LEMMA BecomesMoves ==
  ASSUME StoreTypes, NEW w \in Writers, NEW pc \in WriterPCs, NEW temp \in Temps \cup {None},
         NEW inode \in Inodes \cup {None}, NEW created \in BOOLEAN,
         Becomes(w, pc, temp, inode, created)
  PROVE  /\ writer'[w] = [pc |-> pc, temp |-> temp, inode |-> inode, targetCreated |-> created]
         /\ \A v \in Writers \ {w} : writer'[v] = writer[v]
         /\ writer' \in [Writers -> [pc : WriterPCs, temp : Temps \cup {None},
                                     inode : Inodes \cup {None}, targetCreated : BOOLEAN]]
BY DEF Becomes, StoreTypes

-----------------------------------------------------------------------------
(* The steps that change neither names nor files.                          *)

LEMMA InitKeeps == Init => StoreInv
<1> SUFFICES ASSUME Init PROVE StoreInv
  OBVIOUS
<1>1. StoreTypes
  BY StoreAssumption DEF Init, StoreTypes, Names, Unused, FileState, FreshWriter, FreshReader,
     WriterPCs, ReaderPCs, InTry, InFinally
<1>2. NamesLeadToFiles
  BY StoreAssumption DEF Init, NamesLeadToFiles, Named, Names
<1>3. Undisturbed
  BY DEF Init, Undisturbed, FreshWriter
<1>4. \A w \in Writers : OwnFile(w) /\ OwnTemp(w) /\ OwnTarget(w)
  BY DEF Init, FreshWriter, OwnFile, OwnTemp, OwnTarget, Holding, BeforeLink, Linked
<1> QED
  BY <1>1, <1>2, <1>3, <1>4 DEF StoreInv


(* Names and files stay as they are, and only w moves, without loss. *)
LEMMA FilesUntouched ==
  ASSUME StoreInv, NEW w \in Writers, UNCHANGED <<dir, file, disk>>,
         \A v \in Writers \ {w} : writer'[v] = writer[v],
         \A v \in Writers \ {w} : v \in acked' <=> v \in acked
  PROVE  OnlyTouches(w) /\ NamesLeadToFiles'
<1>1. OnlyTouches(w)
  BY DEF OnlyTouches, disk
<1>2. NamesLeadToFiles'
  BY DEF StoreInv, NamesLeadToFiles, Named, Whole, disk
<1> QED
  BY <1>1, <1>2

(* A call that leaves the try block, or the function, without having done  *)
(* anything.  It is undisturbed only if its writer has published nothing.  *)
LEMMA GivingUpKeeps ==
  ASSUME StoreInv, NEW w \in Writers, UNCHANGED <<dir, file, disk, reader, acked, seen, crashes>>,
         \/ writer[w].pc \in InTry /\ Goto(w, "cleanTemp")
         \/ writer[w].pc \in InFinally /\ Goto(w, "raised"),
         faults' \in Nat, faults' = 0 => faults = 0 /\ ~writer[w].targetCreated
  PROVE  StoreInv'
<1>1. StoreTypes /\ OwnFile(w) /\ OwnTemp(w) /\ OwnTarget(w)
  BY DEF StoreInv
<1>2. PICK pc \in {"cleanTemp", "raised"} :
        /\ Goto(w, pc)
        /\ pc = "cleanTemp" => writer[w].pc \in InTry
        /\ pc = "raised" => writer[w].pc \in InFinally
  OBVIOUS
<1>3. pc \in WriterPCs
  BY DEF WriterPCs, InFinally
<1>4. StoreTypes'
  BY <1>1, <1>2, <1>3, GotoMoves DEF StoreTypes, disk
<1>5. /\ writer'[w] = [pc |-> pc, temp |-> writer[w].temp, inode |-> writer[w].inode,
                       targetCreated |-> writer[w].targetCreated]
      /\ \A v \in Writers \ {w} : writer'[v] = writer[v]
  BY <1>1, <1>2, <1>3, GotoMoves
<1>6. OwnFile(w)'
  BY <1>1, <1>5 DEF OwnFile, Holding, BeforeLink, Linked
<1>7. OwnTemp(w)'
  BY <1>1, <1>2, <1>5 DEF OwnTemp, OwnFile, Holding, BeforeLink, Linked, InTry, FreshWriter
<1>8. OwnTarget(w)'
  <2>1. writer[w].pc # "returned"
    BY <1>2 DEF InTry, InFinally
  <2>2. writer[w].targetCreated /\ pc = "cleanTemp" => writer[w].pc \in Linked
    BY <1>1, <1>2 DEF OwnFile, InTry, BeforeLink, Linked, FreshWriter
  <2> QED
    BY <1>1, <1>2, <1>5, <2>1, <2>2 DEF OwnTarget, Linked
<1>9. Undisturbed'
  BY <1>1, <1>5 DEF StoreInv, Undisturbed
<1> QED
  BY <1>4, <1>5, <1>6, <1>7, <1>8, <1>9, FilesUntouched, WriterStepSuffices DEF Own

(* The links of a file: two while it stands under both of its names, one   *)
(* when the temporary name is gone.                                        *)
LEMMA LinksOfOwnFile ==
  ASSUME StoreInv, NEW w \in Writers, writer[w].pc \in Linked
  PROVE  /\ dir[Target] = writer[w].inode /\ dir[Target] # None
         /\ file[dir[Target]].data = "all" /\ file[dir[Target]].readOnly
         /\ writer[w].pc = "checkLinked" => Links(dir[Target]) = 2
         /\ writer[w].pc = "checkPublished" => Links(dir[Target]) = 1
<1>1. StoreTypes /\ OwnFile(w) /\ OwnTemp(w) /\ OwnTarget(w)
  BY DEF StoreInv
<1>2. writer[w].inode # None /\ dir[Target] = writer[w].inode /\ Whole(writer[w].inode)
  BY <1>1 DEF OwnFile, OwnTarget, Holding
<1>3. Target \notin Temps /\ Target \in Names /\ Temps \subseteq Names
  BY StoreAssumption DEF Names
<1>4. ASSUME writer[w].pc = "checkLinked" PROVE Links(dir[Target]) = 2
  <2> DEFINE t == writer[w].temp
  <2>1. t \in Temps /\ t # Target /\ dir[t] = dir[Target]
    BY <1>1, <1>2, <1>3, <1>4 DEF OwnTemp, StoreTypes
  <2>2. {n \in Names : dir[n] = dir[Target]} = {t, Target}
    BY <1>1, <1>2, <1>3, <2>1 DEF OwnTemp, Names
  <2>3. Cardinality({t} \cup {Target}) = 2
    <3>1. IsFiniteSet({t}) /\ Cardinality({t}) = 1
      BY FS_Singleton
    <3>2. Cardinality({t} \cup {Target}) = Cardinality({t}) + 1
      BY <2>1, <3>1, FS_AddElement
    <3> QED
      BY <3>1, <3>2
  <2>4. {t, Target} = {t} \cup {Target}
    OBVIOUS
  <2> QED
    BY <2>2, <2>3, <2>4 DEF Links
<1>5. ASSUME writer[w].pc = "checkPublished" PROVE Links(dir[Target]) = 1
  <2>1. {n \in Names : dir[n] = dir[Target]} = {Target}
    BY <1>1, <1>2, <1>3, <1>5 DEF OwnTarget, Names
  <2> QED
    BY <2>1, FS_Singleton DEF Links
<1> QED
  BY <1>2, <1>4, <1>5 DEF Whole

-----------------------------------------------------------------------------
(* One lemma per action.                                                   *)

LEMMA CreateKeeps ==
  ASSUME StoreInv, NEW w \in Writers, Create(w) PROVE StoreInv'
<1>1. StoreTypes /\ OwnFile(w) /\ OwnTemp(w) /\ OwnTarget(w) /\ NamesLeadToFiles
  BY DEF StoreInv
<1>2. PICK t \in Temps, i \in Inodes :
        /\ dir[t] = None /\ file[i] = Unused
        /\ dir' = [dir EXCEPT ![t] = i]
        /\ file' = [file EXCEPT ![i].owner = w]
        /\ Becomes(w, "write", t, i, FALSE)
  <2> DEFINE i == CHOOSE f \in Fresh : TRUE
  <2>1. i \in Inodes /\ file[i] = Unused
    BY DEF Create, Fresh
  <2>2. PICK t \in {n \in Temps : dir[n] = None} :
          /\ dir' = [dir EXCEPT ![t] = i]
          /\ file' = [file EXCEPT ![i].owner = w]
          /\ Becomes(w, "write", t, i, FALSE)
    BY DEF Create
  <2>3. t \in Temps /\ dir[t] = None
    OBVIOUS
  <2> HIDE DEF i
  <2> QED
    BY <2>1, <2>2, <2>3
<1>3. writer[w] = FreshWriter /\ UNCHANGED <<disk, Rest>>
  BY <1>1 DEF Create, At, OwnFile
<1>4. /\ t \in Names /\ t # Target /\ Target \in Names /\ Temps \subseteq Names
      /\ None \notin Inodes /\ w # None /\ None \notin Names
  BY StoreAssumption DEF Names
<1>5. /\ writer'[w] = [pc |-> "write", temp |-> t, inode |-> i, targetCreated |-> FALSE]
      /\ \A v \in Writers \ {w} : writer'[v] = writer[v]
      /\ writer' \in [Writers -> [pc : WriterPCs, temp : Temps \cup {None},
                                  inode : Inodes \cup {None}, targetCreated : BOOLEAN]]
  <2>1. "write" \in WriterPCs /\ t \in Temps \cup {None} /\ i \in Inodes \cup {None} /\ FALSE \in BOOLEAN
    BY DEF WriterPCs, InTry
  <2>2. Becomes(w, "write", t, i, FALSE)
    BY <1>2
  <2> QED
    BY <1>1, <2>1, <2>2, BecomesMoves
<1>6. /\ dir'[t] = i /\ \A n \in Names \ {t} : dir'[n] = dir[n]
      /\ file'[i] = [owner |-> w, data |-> "empty", readOnly |-> FALSE]
      /\ \A j \in Inodes \ {i} : file'[j] = file[j]
      /\ file[i].owner = None
  <2>1. file' = [file EXCEPT ![i] = [file[i] EXCEPT !.owner = w]]
    BY <1>2
  <2>2. [file[i] EXCEPT !.owner = w] = [owner |-> w, data |-> "empty", readOnly |-> FALSE]
    <3>1. [file[i] EXCEPT !.owner = w] = [owner |-> w, data |-> file[i].data, readOnly |-> file[i].readOnly]
      BY <1>1 DEF StoreTypes, FileState
    <3>2. file[i].data = "empty" /\ file[i].readOnly = FALSE
      BY <1>2 DEF Unused
    <3> QED
      BY <3>1, <3>2
  <2>3. DOMAIN file = Inodes /\ DOMAIN dir = Names /\ file[i].owner = None
    BY <1>1, <1>2 DEF StoreTypes, Unused
  <2>4. dir' = [dir EXCEPT ![t] = i]
    BY <1>2
  <2> QED
    BY <1>4, <2>1, <2>2, <2>3, <2>4
<1>7. \A n \in Names : dir[n] # i /\ diskDir[n] # i
  BY <1>1, <1>6 DEF NamesLeadToFiles, Named
<1>8. StoreTypes'
  <2>1. file' \in [Inodes -> FileState] /\ dir' \in [Names -> Inodes \cup {None}]
    <3>1. \A j \in Inodes : file'[j] \in FileState
      <4>1. file'[i] \in FileState
        BY <1>6 DEF FileState
      <4> QED
        BY <1>1, <1>6, <4>1 DEF StoreTypes
    <3>2. file' = [j \in Inodes |-> file'[j]]
      BY <1>1, <1>2 DEF StoreTypes
    <3>3. dir' \in [Names -> Inodes \cup {None}]
      <4>1. dir' = [dir EXCEPT ![t] = i]
        BY <1>2
      <4> QED
        BY <1>1, <1>4, <4>1 DEF StoreTypes
    <3> QED
      BY <3>1, <3>2, <3>3
  <2> QED
    BY <1>1, <1>3, <1>5, <2>1 DEF StoreTypes, disk, Rest
<1>9. OnlyTouches(w)
  BY <1>2, <1>3, <1>4, <1>5, <1>6 DEF OnlyTouches, disk, Rest
<1>10. Own(w)'
  <2>1. OwnFile(w)'
    BY <1>3, <1>4, <1>5, <1>6, <1>7 DEF OwnFile, Holding, BeforeLink, Linked, disk
  <2>2. OwnTemp(w)'
    BY <1>4, <1>5, <1>6, <1>7 DEF OwnTemp, BeforeLink
  <2>3. OwnTarget(w)'
    BY <1>1, <1>3, <1>5 DEF OwnTarget, Linked, Rest, FreshWriter
  <2> QED
    BY <2>1, <2>2, <2>3 DEF Own
<1>11. NamesLeadToFiles'
  <2>1. \A j \in Inodes : Named(j)' => file'[j].owner # None
    BY <1>1, <1>3, <1>4, <1>6 DEF NamesLeadToFiles, Named, disk
  <2>2. dir'[Target] = dir[Target] /\ diskDir' = diskDir /\ diskFile' = diskFile
    BY <1>3, <1>4, <1>6 DEF disk
  <2>3. \A j \in {dir[Target], diskDir[Target]} \ {None} : j \in Inodes \ {i} /\ Whole(j)
    BY <1>1, <1>4, <1>7 DEF NamesLeadToFiles, StoreTypes
  <2> QED
    BY <1>6, <2>1, <2>2, <2>3 DEF NamesLeadToFiles, Whole
<1>12. Undisturbed'
  <2>1. dir'[Target] = dir[Target] /\ dir[Target] \in Inodes \cup {None} /\ dir[Target] # i
    BY <1>1, <1>4, <1>6, <1>7 DEF StoreTypes
  <2> QED
    BY <1>3, <1>5, <1>6, <2>1 DEF StoreInv, Undisturbed, Rest
<1> QED
  BY <1>8, <1>9, <1>10, <1>11, <1>12, WriterStepSuffices

(* Before the link, a step that alters nothing but the writer's own file,  *)
(* in memory or on disk.                                                   *)
LEMMA OwnFileAlone ==
  ASSUME StoreInv, NEW w \in Writers, writer[w].pc \in BeforeLink,
         UNCHANGED <<dir, diskDir, Rest>>,
         \A v \in Writers \ {w} : writer'[v] = writer[v],
         writer'[w].pc \in BeforeLink,
         \A j \in Inodes \ {writer[w].inode} : file'[j] = file[j] /\ diskFile'[j] = diskFile[j],
         file'[writer[w].inode].owner = w
  PROVE  OnlyTouches(w) /\ NamesLeadToFiles' /\ Undisturbed'
<1> DEFINE i == writer[w].inode
<1>1. StoreTypes /\ OwnFile(w) /\ NamesLeadToFiles /\ Undisturbed
  BY DEF StoreInv
<1>2. w # None /\ i # None /\ file[i].owner = w /\ i \notin {dir[Target], diskDir[Target]}
  BY <1>1, StoreAssumption DEF OwnFile, Holding
<1>3. OnlyTouches(w)
  BY <1>2 DEF OnlyTouches, Rest
<1>4. NamesLeadToFiles'
  <2>1. \A j \in Inodes : Named(j)' => file'[j].owner # None
    BY <1>1, <1>2 DEF NamesLeadToFiles, Named
  <2>2. \A j \in {dir[Target], diskDir[Target]} \ {None} : j \in Inodes \ {i} /\ Whole(j)
    BY <1>1, <1>2 DEF NamesLeadToFiles, StoreTypes, Names
  <2> QED
    BY <2>1, <2>2 DEF NamesLeadToFiles, Whole
<1>5. Undisturbed'
  <2>1. dir[Target] \in Inodes \cup {None}
    BY <1>1 DEF StoreTypes, Names
  <2>2. writer'[w].pc \notin {"cleanTemp", "cleanTarget", "syncRollback", "raised"}
    BY DEF BeforeLink
  <2> QED
    BY <1>1, <1>2, <2>1, <2>2 DEF Undisturbed, Rest
<1> QED
  BY <1>3, <1>4, <1>5

LEMMA WriteKeeps ==
  ASSUME StoreInv, NEW w \in Writers, Write(w) PROVE StoreInv'
<1> DEFINE i == writer[w].inode
<1>1. StoreTypes /\ OwnFile(w) /\ OwnTemp(w) /\ OwnTarget(w)
  BY DEF StoreInv
<1>2. /\ writer[w].pc = "write" /\ UNCHANGED <<dir, disk, Rest>>
      /\ i \in Inodes /\ file[i].owner = w /\ w # None /\ file[i] \in FileState
  BY <1>1, StoreAssumption DEF Write, At, OwnFile, Holding, BeforeLink, StoreTypes
<1>3. PICK data \in {"part", "all"}, pc \in {"write", "sync"} :
        /\ file' = [file EXCEPT ![i].data = data]
        /\ pc = "sync" => data = "all"
        /\ writer'[w] = [pc |-> pc, temp |-> writer[w].temp, inode |-> i,
                         targetCreated |-> writer[w].targetCreated]
        /\ \A v \in Writers \ {w} : writer'[v] = writer[v]
        /\ writer' \in [Writers -> [pc : WriterPCs, temp : Temps \cup {None},
                                    inode : Inodes \cup {None}, targetCreated : BOOLEAN]]
  <2>1. CASE UNCHANGED writer /\ file' = [file EXCEPT ![i].data = "part"]
    <3>1. writer[w] = [pc |-> "write", temp |-> writer[w].temp, inode |-> i,
                       targetCreated |-> writer[w].targetCreated]
      BY <1>1, <1>2 DEF StoreTypes
    <3>2. writer' = writer /\ writer \in [Writers -> [pc : WriterPCs, temp : Temps \cup {None},
                                    inode : Inodes \cup {None}, targetCreated : BOOLEAN]]
      BY <1>1, <2>1 DEF StoreTypes
    <3> QED
      BY <2>1, <3>1, <3>2
  <2>2. CASE Goto(w, "sync") /\ file' = [file EXCEPT ![i].data = "all"]
    <3>1. "sync" \in WriterPCs
      BY DEF WriterPCs, InTry
    <3> QED
      BY <1>1, <2>2, <3>1, GotoMoves
  <2> QED
    BY <2>1, <2>2 DEF Write
<1>4. /\ \A j \in Inodes \ {i} : file'[j] = file[j]
      /\ file'[i] \in FileState /\ file'[i].owner = w /\ file'[i].data = data
      /\ file' \in [Inodes -> FileState]
  BY <1>1, <1>2, <1>3 DEF StoreTypes, FileState
<1>5. StoreTypes'
  BY <1>1, <1>2, <1>3, <1>4 DEF StoreTypes, disk, Rest
<1>6. Own(w)'
  <2>1. OwnFile(w)'
    BY <1>1, <1>2, <1>3, <1>4 DEF OwnFile, Holding, BeforeLink, Linked, disk
  <2>2. OwnTemp(w)'
    BY <1>1, <1>2, <1>3 DEF OwnTemp, BeforeLink
  <2>3. OwnTarget(w)'
    BY <1>1, <1>2, <1>3 DEF OwnTarget, OwnFile, BeforeLink, Linked, Rest
  <2> QED
    BY <2>1, <2>2, <2>3 DEF Own
<1>7. OnlyTouches(w) /\ NamesLeadToFiles' /\ Undisturbed'
  <2>1. writer[w].pc \in BeforeLink /\ writer'[w].pc \in BeforeLink
    BY <1>2, <1>3 DEF BeforeLink
  <2> QED
    BY <1>2, <1>3, <1>4, <2>1, OwnFileAlone DEF disk
<1> QED
  BY <1>5, <1>6, <1>7, WriterStepSuffices

LEMMA SyncFileKeeps ==
  ASSUME StoreInv, NEW w \in Writers, SyncFile(w) PROVE StoreInv'
<1> DEFINE i == writer[w].inode
<1>1. StoreTypes /\ OwnFile(w) /\ OwnTemp(w) /\ OwnTarget(w)
  BY DEF StoreInv
<1>2. /\ writer[w].pc \in {"sync", "resync"} /\ UNCHANGED <<dir, file, diskDir, Rest>>
      /\ diskFile' = [diskFile EXCEPT ![i] = file[i]]
      /\ i \in Inodes /\ file[i].owner = w /\ w # None
  BY <1>1, StoreAssumption DEF SyncFile, At, OwnFile, Holding, BeforeLink, StoreTypes
<1>3. PICK pc \in {"chmod", "link"} :
        /\ pc = "chmod" <=> writer[w].pc = "sync"
        /\ Goto(w, pc)
  BY DEF SyncFile, At
<1>4. pc \in WriterPCs
  BY DEF WriterPCs, InTry
<1>5. /\ writer'[w] = [pc |-> pc, temp |-> writer[w].temp, inode |-> i,
                       targetCreated |-> writer[w].targetCreated]
      /\ \A v \in Writers \ {w} : writer'[v] = writer[v]
      /\ writer' \in [Writers -> [pc : WriterPCs, temp : Temps \cup {None},
                                  inode : Inodes \cup {None}, targetCreated : BOOLEAN]]
  BY <1>1, <1>3, <1>4, GotoMoves
<1>6. /\ \A j \in Inodes \ {i} : diskFile'[j] = diskFile[j]
      /\ diskFile'[i] = file[i] /\ diskFile' \in [Inodes -> FileState]
  BY <1>1, <1>2 DEF StoreTypes
<1>7. StoreTypes'
  BY <1>1, <1>2, <1>5, <1>6 DEF StoreTypes, Rest
<1>8. Own(w)'
  <2>1. OwnFile(w)'
    BY <1>1, <1>2, <1>3, <1>5, <1>6 DEF OwnFile, Whole, Holding, BeforeLink, Linked
  <2>2. OwnTemp(w)'
    BY <1>1, <1>2, <1>5 DEF OwnTemp, BeforeLink
  <2>3. OwnTarget(w)'
    BY <1>1, <1>2, <1>5 DEF OwnTarget, OwnFile, BeforeLink, Linked, Rest
  <2> QED
    BY <2>1, <2>2, <2>3 DEF Own
<1>9. OnlyTouches(w) /\ NamesLeadToFiles' /\ Undisturbed'
  <2>1. writer[w].pc \in BeforeLink /\ writer'[w].pc \in BeforeLink
    BY <1>2, <1>5 DEF BeforeLink
  <2> QED
    BY <1>2, <1>5, <1>6, <2>1, OwnFileAlone
<1> QED
  BY <1>7, <1>8, <1>9, WriterStepSuffices

LEMMA ChmodKeeps ==
  ASSUME StoreInv, NEW w \in Writers, Chmod(w) PROVE StoreInv'
<1> DEFINE i == writer[w].inode
<1>1. StoreTypes /\ OwnFile(w) /\ OwnTemp(w) /\ OwnTarget(w)
  BY DEF StoreInv
<1>2. /\ writer[w].pc = "chmod" /\ UNCHANGED <<dir, disk, Rest>>
      /\ i \in Inodes /\ file[i].owner = w /\ w # None /\ file[i] \in FileState
      /\ file' = [file EXCEPT ![i].readOnly = TRUE]
  BY <1>1, StoreAssumption DEF Chmod, At, OwnFile, Holding, BeforeLink, StoreTypes
<1>3. "resync" \in WriterPCs /\ Goto(w, "resync")
  BY DEF WriterPCs, InTry, Chmod
<1>4. /\ writer'[w] = [pc |-> "resync", temp |-> writer[w].temp, inode |-> i,
                       targetCreated |-> writer[w].targetCreated]
      /\ \A v \in Writers \ {w} : writer'[v] = writer[v]
      /\ writer' \in [Writers -> [pc : WriterPCs, temp : Temps \cup {None},
                                  inode : Inodes \cup {None}, targetCreated : BOOLEAN]]
  BY <1>1, <1>3, GotoMoves
<1>5. /\ \A j \in Inodes \ {i} : file'[j] = file[j]
      /\ file'[i].owner = w /\ file'[i].data = file[i].data /\ file'[i].readOnly
      /\ file' \in [Inodes -> FileState]
  BY <1>1, <1>2 DEF StoreTypes, FileState
<1>6. StoreTypes'
  BY <1>1, <1>2, <1>4, <1>5 DEF StoreTypes, disk, Rest
<1>7. Own(w)'
  <2>1. OwnFile(w)'
    BY <1>1, <1>2, <1>4, <1>5 DEF OwnFile, Holding, BeforeLink, Linked, disk
  <2>2. OwnTemp(w)'
    BY <1>1, <1>2, <1>4 DEF OwnTemp, BeforeLink
  <2>3. OwnTarget(w)'
    BY <1>1, <1>2, <1>4 DEF OwnTarget, OwnFile, BeforeLink, Linked, Rest
  <2> QED
    BY <2>1, <2>2, <2>3 DEF Own
<1>8. OnlyTouches(w) /\ NamesLeadToFiles' /\ Undisturbed'
  <2>1. writer[w].pc \in BeforeLink /\ writer'[w].pc \in BeforeLink
    BY <1>2, <1>4 DEF BeforeLink
  <2> QED
    BY <1>2, <1>4, <1>5, <2>1, OwnFileAlone DEF disk
<1> QED
  BY <1>6, <1>7, <1>8, WriterStepSuffices

(* Steps after the link leave the files alone.                             *)
LEMMA FilesAlone ==
  ASSUME StoreInv, UNCHANGED <<file, diskFile>>,
         \A n \in Names : dir'[n] \in {None, dir[n]},
         \A n \in Names : diskDir'[n] \in {None, dir[n], diskDir[n]}
  PROVE  NamesLeadToFiles'
<1>1. Target \in Names /\ None \notin Inodes
  BY StoreAssumption DEF Names
<1>2. NamesLeadToFiles /\ StoreTypes
  BY DEF StoreInv
<1>3. \A i \in Inodes : Named(i)' => Named(i)
  BY <1>1 DEF Named
<1>4. {dir'[Target], diskDir'[Target]} \subseteq {None, dir[Target], diskDir[Target]}
  BY <1>1
<1> QED
  BY <1>2, <1>3, <1>4 DEF NamesLeadToFiles, Whole

LEMMA LinkKeeps ==
  ASSUME StoreInv, NEW w \in Writers, Link(w) PROVE StoreInv'
<1> DEFINE i == writer[w].inode
           t == writer[w].temp
<1>1. StoreTypes /\ OwnFile(w) /\ OwnTemp(w) /\ OwnTarget(w) /\ NamesLeadToFiles /\ Undisturbed
  BY DEF StoreInv
<1>2. /\ writer[w].pc = "link" /\ UNCHANGED <<file, disk, Rest>> /\ dir[Target] = None
      /\ dir' = [dir EXCEPT ![Target] = i] /\ Becomes(w, "checkLinked", t, i, TRUE)
  BY DEF Link, At
<1>3. /\ i \in Inodes /\ i # None /\ file[i].owner = w /\ w # None /\ Whole(i)
      /\ t # None /\ dir[t] = i /\ t \in Temps /\ diskFile[i] = file[i]
  BY <1>1, <1>2, StoreAssumption DEF OwnFile, OwnTemp, Holding, BeforeLink, StoreTypes
<1>4. /\ writer'[w] = [pc |-> "checkLinked", temp |-> t, inode |-> i, targetCreated |-> TRUE]
      /\ \A v \in Writers \ {w} : writer'[v] = writer[v]
      /\ writer' \in [Writers -> [pc : WriterPCs, temp : Temps \cup {None},
                                  inode : Inodes \cup {None}, targetCreated : BOOLEAN]]
  <2>1. "checkLinked" \in WriterPCs /\ t \in Temps \cup {None} /\ i \in Inodes \cup {None} /\ TRUE \in BOOLEAN
    BY <1>3 DEF WriterPCs, InTry
  <2> QED
    BY <1>1, <1>2, <2>1, BecomesMoves
<1>5. /\ Target \in Names /\ Target \notin Temps /\ Temps \subseteq Names
      /\ dir'[Target] = i /\ \A n \in Names \ {Target} : dir'[n] = dir[n]
      /\ dir' \in [Names -> Inodes \cup {None}]
  BY <1>1, <1>2, <1>3, StoreAssumption DEF StoreTypes, Names
<1>6. StoreTypes'
  BY <1>1, <1>2, <1>4, <1>5 DEF StoreTypes, disk, Rest
<1>7. OnlyTouches(w)
  BY <1>2, <1>3, <1>4, <1>5 DEF OnlyTouches, disk, Rest
<1>8. Own(w)'
  <2>1. OwnFile(w)'
    BY <1>1, <1>2, <1>3, <1>4 DEF OwnFile, Whole, Holding, BeforeLink, Linked, disk
  <2>2. OwnTemp(w)'
    BY <1>1, <1>2, <1>3, <1>4, <1>5 DEF OwnTemp, BeforeLink
  <2>3. OwnTarget(w)'
    BY <1>1, <1>2, <1>3, <1>4, <1>5 DEF OwnTarget, Linked, Rest
  <2> QED
    BY <2>1, <2>2, <2>3 DEF Own
<1>9. NamesLeadToFiles'
  <2>1. \A j \in Inodes : Named(j)' => file[j].owner # None
    BY <1>1, <1>2, <1>3, <1>5 DEF NamesLeadToFiles, Named, disk
  <2>2. \A j \in {dir'[Target], diskDir'[Target]} \ {None} : Whole(j)
    BY <1>1, <1>2, <1>3, <1>5 DEF NamesLeadToFiles, disk
  <2> QED
    BY <1>2, <2>1, <2>2 DEF NamesLeadToFiles, Whole, disk
<1>10. Undisturbed'
  <2>1. faults = 0 /\ crashes = 0 => seen = {}
    BY <1>1, <1>2 DEF Undisturbed
  <2> QED
    BY <1>1, <1>2, <1>4, <2>1 DEF Undisturbed, Rest
<1> QED
  BY <1>6, <1>7, <1>8, <1>9, <1>10, WriterStepSuffices

(* The checks of _require_published_stat never fail on the file a writer   *)
(* has linked: nobody else has changed it or its names.                    *)
LEMMA CheckLinkedKeeps ==
  ASSUME StoreInv, NEW w \in Writers, CheckLinked(w) PROVE StoreInv'
<1>1. StoreTypes /\ OwnFile(w) /\ OwnTemp(w) /\ OwnTarget(w)
  BY DEF StoreInv
<1>2. writer[w].pc = "checkLinked" /\ UNCHANGED <<dir, file, disk, Rest>>
  BY DEF CheckLinked, At
<1>3. Goto(w, "unlinkTemp")
  <2>1. /\ dir[Target] # None /\ Links(dir[Target]) = 2
        /\ file[dir[Target]].data = "all" /\ file[dir[Target]].readOnly
    BY <1>2, LinksOfOwnFile DEF Linked
  <2>2. /\ Stat(dir[Target]).links = 2 /\ Stat(dir[Target]).data = "all"
        /\ Stat(dir[Target]).readOnly
    BY <2>1 DEF Stat
  <2> QED
    BY <2>1, <2>2 DEF CheckLinked
<1>4. "unlinkTemp" \in WriterPCs
  BY DEF WriterPCs, InTry
<1>5. /\ writer'[w] = [pc |-> "unlinkTemp", temp |-> writer[w].temp, inode |-> writer[w].inode,
                       targetCreated |-> writer[w].targetCreated]
      /\ \A v \in Writers \ {w} : writer'[v] = writer[v]
      /\ writer' \in [Writers -> [pc : WriterPCs, temp : Temps \cup {None},
                                  inode : Inodes \cup {None}, targetCreated : BOOLEAN]]
  BY <1>1, <1>3, <1>4, GotoMoves
<1>6. StoreTypes'
  BY <1>1, <1>2, <1>5 DEF StoreTypes, disk, Rest
<1>7. OnlyTouches(w) /\ NamesLeadToFiles'
  BY <1>2, <1>5, FilesUntouched DEF Rest
<1>8. Own(w)'
  BY <1>1, <1>2, <1>5 DEF Own, OwnFile, OwnTemp, OwnTarget, Whole, Holding, BeforeLink, Linked, disk, Rest
<1>9. Undisturbed'
  BY <1>2, <1>5 DEF StoreInv, Undisturbed, Rest
<1> QED
  BY <1>6, <1>7, <1>8, <1>9, WriterStepSuffices

LEMMA UnlinkTempKeeps ==
  ASSUME StoreInv, NEW w \in Writers, UnlinkTemp(w) PROVE StoreInv'
<1> DEFINE i == writer[w].inode
           t == writer[w].temp
<1>1. StoreTypes /\ OwnFile(w) /\ OwnTemp(w) /\ OwnTarget(w) /\ NamesLeadToFiles /\ Undisturbed
  BY DEF StoreInv
<1>2. /\ writer[w].pc = "unlinkTemp" /\ UNCHANGED <<file, disk, Rest>>
      /\ dir' = [dir EXCEPT ![t] = None]
      /\ Becomes(w, "syncDir", None, i, writer[w].targetCreated)
  BY DEF UnlinkTemp, At
<1>3. /\ i \in Inodes /\ i # None /\ file[i].owner = w /\ w # None
      /\ t # None /\ dir[t] = i /\ t \in Temps /\ writer[w].targetCreated = TRUE
  BY <1>1, <1>2, StoreAssumption DEF OwnFile, OwnTemp, OwnTarget, Holding, Linked, StoreTypes
<1>4. /\ writer'[w] = [pc |-> "syncDir", temp |-> None, inode |-> i, targetCreated |-> TRUE]
      /\ \A v \in Writers \ {w} : writer'[v] = writer[v]
      /\ writer' \in [Writers -> [pc : WriterPCs, temp : Temps \cup {None},
                                  inode : Inodes \cup {None}, targetCreated : BOOLEAN]]
  <2>1. "syncDir" \in WriterPCs /\ None \in Temps \cup {None} /\ i \in Inodes \cup {None} /\ TRUE \in BOOLEAN
    BY <1>3 DEF WriterPCs, InTry
  <2> QED
    BY <1>1, <1>2, <1>3, <2>1, BecomesMoves
<1>5. /\ Target \in Names /\ Target \notin Temps /\ Temps \subseteq Names
      /\ dir'[t] = None /\ \A n \in Names \ {t} : dir'[n] = dir[n]
      /\ dir' \in [Names -> Inodes \cup {None}]
  BY <1>1, <1>2, <1>3, StoreAssumption DEF StoreTypes, Names
<1>6. StoreTypes'
  BY <1>1, <1>2, <1>4, <1>5 DEF StoreTypes, disk, Rest
<1>7. OnlyTouches(w)
  BY <1>2, <1>3, <1>4, <1>5 DEF OnlyTouches, disk, Rest
<1>8. Own(w)'
  <2>1. OwnFile(w)'
    BY <1>1, <1>2, <1>3, <1>4 DEF OwnFile, Whole, Holding, BeforeLink, Linked, disk
  <2>2. OwnTemp(w)'
    BY <1>1, <1>2, <1>3, <1>4, <1>5 DEF OwnTemp, BeforeLink
  <2>3. OwnTarget(w)'
    BY <1>1, <1>2, <1>3, <1>4, <1>5 DEF OwnTarget, Linked, Rest
  <2> QED
    BY <2>1, <2>2, <2>3 DEF Own
<1>9. NamesLeadToFiles'
  BY <1>2, <1>5, FilesAlone DEF disk
<1>10. Undisturbed'
  BY <1>1, <1>2, <1>3, <1>4, <1>5 DEF Undisturbed, Rest
<1> QED
  BY <1>6, <1>7, <1>8, <1>9, <1>10, WriterStepSuffices

(* A writer syncs what all of them have done to the directory so far.      *)
LEMMA SyncDirKeeps ==
  ASSUME StoreInv, NEW w \in Writers, SyncDir(w) PROVE StoreInv'
<1>1. StoreTypes /\ OwnFile(w) /\ OwnTemp(w) /\ OwnTarget(w)
  BY DEF StoreInv
<1>2. /\ writer[w].pc \in {"syncDir", "syncRollback"}
      /\ UNCHANGED <<dir, file, diskFile, Rest>> /\ diskDir' = dir
  BY DEF SyncDir, At
<1>3. PICK pc \in {"checkPublished", "raised"} :
        /\ pc = "checkPublished" <=> writer[w].pc = "syncDir"
        /\ Goto(w, pc)
  BY DEF SyncDir, At
<1>4. pc \in WriterPCs
  BY DEF WriterPCs, InTry
<1>5. /\ writer'[w] = [pc |-> pc, temp |-> writer[w].temp, inode |-> writer[w].inode,
                       targetCreated |-> writer[w].targetCreated]
      /\ \A v \in Writers \ {w} : writer'[v] = writer[v]
      /\ writer' \in [Writers -> [pc : WriterPCs, temp : Temps \cup {None},
                                  inode : Inodes \cup {None}, targetCreated : BOOLEAN]]
  BY <1>1, <1>3, <1>4, GotoMoves
<1>6. StoreTypes'
  BY <1>1, <1>2, <1>5 DEF StoreTypes, Rest
<1>7. OnlyTouches(w)
  BY <1>2, <1>5 DEF OnlyTouches, Rest
<1>8. NamesLeadToFiles'
  BY <1>2, FilesAlone
<1>9. Own(w)'
  <2>1. OwnFile(w)'
    BY <1>1, <1>2, <1>3, <1>5 DEF OwnFile, Whole, Holding, BeforeLink, Linked
  <2>2. OwnTemp(w)'
    BY <1>1, <1>2, <1>3, <1>5 DEF OwnTemp, BeforeLink
  <2>3. OwnTarget(w)'
    <3>1. CASE pc = "raised"
      BY <1>1, <1>2, <1>3, <1>5, <3>1 DEF OwnTarget, Linked, Rest
    <3>2. CASE pc = "checkPublished"
      <4>1. writer[w].inode # None /\ \A n \in Temps : dir[n] # writer[w].inode
        BY <1>1, <1>3, <3>2, StoreAssumption DEF OwnTarget, OwnTemp, Linked, Names
      <4> QED
        BY <1>1, <1>2, <1>3, <1>5, <3>2, <4>1 DEF OwnTarget, Linked, Rest
    <3> QED
      BY <3>1, <3>2
  <2> QED
    BY <2>1, <2>2, <2>3 DEF Own
<1>10. Undisturbed'
  BY <1>2, <1>3, <1>5 DEF StoreInv, Undisturbed, Rest
<1> QED
  BY <1>6, <1>7, <1>8, <1>9, <1>10, WriterStepSuffices

LEMMA CheckPublishedKeeps ==
  ASSUME StoreInv, NEW w \in Writers, CheckPublished(w) PROVE StoreInv'
<1> DEFINE i == writer[w].inode
<1>1. StoreTypes /\ OwnFile(w) /\ OwnTemp(w) /\ OwnTarget(w)
  BY DEF StoreInv
<1>2. writer[w].pc = "checkPublished" /\ UNCHANGED <<dir, file, disk, reader, seen, counters>>
  BY DEF CheckPublished, At
<1>3. Becomes(w, "returned", writer[w].temp, i, FALSE) /\ acked' = acked \cup {w}
  <2>1. /\ dir[Target] # None /\ Links(dir[Target]) = 1
        /\ file[dir[Target]].data = "all" /\ file[dir[Target]].readOnly
    BY <1>2, LinksOfOwnFile DEF Linked
  <2>2. /\ Stat(dir[Target]).links = 1 /\ Stat(dir[Target]).data = "all"
        /\ Stat(dir[Target]).readOnly
    BY <2>1 DEF Stat
  <2> QED
    BY <2>1, <2>2 DEF CheckPublished
<1>4. /\ writer'[w] = [pc |-> "returned", temp |-> writer[w].temp, inode |-> i, targetCreated |-> FALSE]
      /\ \A v \in Writers \ {w} : writer'[v] = writer[v]
      /\ writer' \in [Writers -> [pc : WriterPCs, temp : Temps \cup {None},
                                  inode : Inodes \cup {None}, targetCreated : BOOLEAN]]
  <2>1. "returned" \in WriterPCs /\ writer[w].temp \in Temps \cup {None}
        /\ i \in Inodes \cup {None} /\ FALSE \in BOOLEAN
    BY <1>1 DEF WriterPCs, StoreTypes
  <2> QED
    BY <1>1, <1>3, <2>1, BecomesMoves
<1>5. StoreTypes'
  BY <1>1, <1>2, <1>3, <1>4 DEF StoreTypes, disk, counters
<1>6. OnlyTouches(w) /\ NamesLeadToFiles'
  BY <1>2, <1>3, <1>4, FilesUntouched
<1>7. Own(w)'
  <2>1. OwnFile(w)'
    BY <1>1, <1>2, <1>4 DEF OwnFile, Whole, Holding, BeforeLink, Linked, disk
  <2>2. OwnTemp(w)'
    BY <1>1, <1>2, <1>4 DEF OwnTemp, BeforeLink
  <2>3. OwnTarget(w)'
    BY <1>1, <1>2, <1>3, <1>4 DEF OwnTarget, Linked, disk
  <2> QED
    BY <2>1, <2>2, <2>3 DEF Own
<1>8. Undisturbed'
  BY <1>2, <1>4 DEF StoreInv, Undisturbed, counters
<1> QED
  BY <1>5, <1>6, <1>7, <1>8, WriterStepSuffices

LEMMA CleanTempKeeps ==
  ASSUME StoreInv, NEW w \in Writers, CleanTemp(w) PROVE StoreInv'
<1> DEFINE i == writer[w].inode
           t == writer[w].temp
<1>1. StoreTypes /\ OwnFile(w) /\ OwnTemp(w) /\ OwnTarget(w) /\ NamesLeadToFiles /\ Undisturbed
  BY DEF StoreInv
<1>2. /\ writer[w].pc = "cleanTemp" /\ UNCHANGED <<file, disk, Rest>>
      /\ dir' = [n \in Names |-> IF n = t THEN None ELSE dir[n]] /\ Goto(w, "cleanTarget")
  BY DEF CleanTemp, At
<1>3. /\ t \in Temps \cup {None} /\ (t # None => i # None /\ dir[t] = i)
      /\ (i # None => file[i].owner = w) /\ w # None
  BY <1>1, <1>2, StoreAssumption DEF OwnFile, OwnTemp, StoreTypes
<1>4. "cleanTarget" \in WriterPCs
  BY DEF WriterPCs, InFinally
<1>5. /\ writer'[w] = [pc |-> "cleanTarget", temp |-> t, inode |-> i,
                       targetCreated |-> writer[w].targetCreated]
      /\ \A v \in Writers \ {w} : writer'[v] = writer[v]
      /\ writer' \in [Writers -> [pc : WriterPCs, temp : Temps \cup {None},
                                  inode : Inodes \cup {None}, targetCreated : BOOLEAN]]
  BY <1>1, <1>2, <1>4, GotoMoves
<1>6. /\ Target \in Names /\ Target \notin Temps /\ Temps \subseteq Names /\ t # Target
      /\ None \notin Names
  BY <1>3, StoreAssumption DEF Names
<1>7. /\ \A n \in Names : dir'[n] = (IF n = t THEN None ELSE dir[n])
      /\ dir' \in [Names -> Inodes \cup {None}]
  BY <1>1, <1>2 DEF StoreTypes
<1>8. StoreTypes'
  BY <1>1, <1>2, <1>5, <1>7 DEF StoreTypes, disk, Rest
<1>9. OnlyTouches(w)
  BY <1>2, <1>3, <1>5, <1>6, <1>7 DEF OnlyTouches, disk, Rest
<1>10. NamesLeadToFiles'
  BY <1>2, <1>7, FilesAlone DEF disk
<1>11. Own(w)'
  <2>1. OwnFile(w)'
    BY <1>1, <1>2, <1>5 DEF OwnFile, Holding, BeforeLink, Linked
  <2>2. OwnTemp(w)'
    BY <1>1, <1>2, <1>5, <1>6, <1>7 DEF OwnTemp, BeforeLink
  <2>3. OwnTarget(w)'
    BY <1>1, <1>2, <1>5, <1>6, <1>7 DEF OwnTarget, Linked, Rest
  <2> QED
    BY <2>1, <2>2, <2>3 DEF Own
<1>12. Undisturbed'
  BY <1>1, <1>2, <1>5, <1>6, <1>7 DEF Undisturbed, Rest
<1> QED
  BY <1>8, <1>9, <1>10, <1>11, <1>12, WriterStepSuffices

LEMMA CleanTargetKeeps ==
  ASSUME StoreInv, NEW w \in Writers, CleanTarget(w) PROVE StoreInv'
<1> DEFINE i == writer[w].inode
<1>1. StoreTypes /\ OwnFile(w) /\ OwnTemp(w) /\ OwnTarget(w) /\ NamesLeadToFiles /\ Undisturbed
  BY DEF StoreInv
<1>2. writer[w].pc = "cleanTarget" /\ UNCHANGED <<file, disk, Rest>>
  BY DEF CleanTarget, At
<1>3. CASE ~(writer[w].targetCreated /\ dir[Target] # None)
  <2>1. ~writer[w].targetCreated
    BY <1>1, <1>2, <1>3 DEF OwnTarget
  <2>2. UNCHANGED dir /\ Goto(w, "raised") /\ writer[w].pc \in InFinally /\ faults' \in Nat
    BY <1>1, <1>2, <1>3 DEF CleanTarget, InFinally, Rest, StoreTypes
  <2> QED
    BY <1>2, <2>1, <2>2, GivingUpKeeps DEF Rest
<1>4. CASE writer[w].targetCreated /\ dir[Target] # None
  <2>1. dir' = [dir EXCEPT ![Target] = None] /\ Goto(w, "syncRollback")
    BY <1>4 DEF CleanTarget
  <2>2. "syncRollback" \in WriterPCs
    BY DEF WriterPCs, InFinally
  <2>3. /\ writer'[w] = [pc |-> "syncRollback", temp |-> writer[w].temp, inode |-> i,
                         targetCreated |-> writer[w].targetCreated]
        /\ \A v \in Writers \ {w} : writer'[v] = writer[v]
        /\ writer' \in [Writers -> [pc : WriterPCs, temp : Temps \cup {None},
                                    inode : Inodes \cup {None}, targetCreated : BOOLEAN]]
    BY <1>1, <2>1, <2>2, GotoMoves
  <2>4. dir[Target] = i /\ i # None /\ file[i].owner = w
    BY <1>1, <1>2, <1>4 DEF OwnTarget, OwnFile
  <2>5. /\ Target \in Names /\ Target \notin Temps /\ Temps \subseteq Names
        /\ dir'[Target] = None /\ \A n \in Names \ {Target} : dir'[n] = dir[n]
        /\ dir' \in [Names -> Inodes \cup {None}]
    BY <1>1, <2>1, StoreAssumption DEF StoreTypes, Names
  <2>6. StoreTypes'
    BY <1>1, <1>2, <2>3, <2>5 DEF StoreTypes, disk, Rest
  <2>7. OnlyTouches(w)
    BY <1>2, <2>3, <2>4, <2>5 DEF OnlyTouches, disk, Rest
  <2>8. NamesLeadToFiles'
    BY <1>2, <2>5, FilesAlone DEF disk
  <2>9. Own(w)'
    <3>1. OwnFile(w)'
      BY <1>1, <1>2, <2>3 DEF OwnFile, Holding, BeforeLink, Linked
    <3>2. OwnTemp(w)'
      BY <1>1, <1>2, <2>3, <2>5 DEF OwnTemp, BeforeLink
    <3>3. OwnTarget(w)'
      BY <1>1, <1>2, <2>3 DEF OwnTarget, Linked, Rest
    <3> QED
      BY <3>1, <3>2, <3>3 DEF Own
  <2>10. Undisturbed'
    BY <1>1, <1>2, <1>4 DEF Undisturbed, Rest
  <2> QED
    BY <2>6, <2>7, <2>8, <2>9, <2>10, WriterStepSuffices
<1> QED
  BY <1>3, <1>4

LEMMA RetryKeeps ==
  ASSUME StoreInv, NEW w \in Writers, Retry(w) PROVE StoreInv'
<1>1. StoreTypes /\ OwnFile(w) /\ OwnTemp(w) /\ OwnTarget(w)
  BY DEF StoreInv
<1>2. writer[w].pc = "raised" /\ UNCHANGED <<dir, file, disk, Rest>>
  BY DEF Retry, At
<1>3. /\ writer'[w] = FreshWriter
      /\ \A v \in Writers \ {w} : writer'[v] = writer[v]
      /\ writer' \in [Writers -> [pc : WriterPCs, temp : Temps \cup {None},
                                  inode : Inodes \cup {None}, targetCreated : BOOLEAN]]
  BY <1>1 DEF Retry, StoreTypes, FreshWriter, WriterPCs, InTry
<1>4. StoreTypes'
  BY <1>1, <1>2, <1>3 DEF StoreTypes, disk, Rest
<1>5. OnlyTouches(w) /\ NamesLeadToFiles'
  BY <1>2, <1>3, FilesUntouched DEF Rest
<1>6. Own(w)'
  BY <1>1, <1>2, <1>3 DEF Own, OwnFile, OwnTemp, OwnTarget, Holding, BeforeLink, Linked, FreshWriter, Rest
<1>7. Undisturbed'
  BY <1>2, <1>3 DEF StoreInv, Undisturbed, FreshWriter, Rest
<1> QED
  BY <1>4, <1>5, <1>6, <1>7, WriterStepSuffices

LEMMA ReaderKeeps ==
  ASSUME StoreInv, NEW r \in Readers, ReaderStep(r) PROVE StoreInv'
<1>1. StoreTypes /\ NamesLeadToFiles /\ Undisturbed
  BY DEF StoreInv
<1>2. UNCHANGED <<dir, file, disk, writer, acked, counters>>
  BY DEF ReaderStep
<1>3. Target \in Names /\ None \notin Inodes
  BY StoreAssumption DEF Names
<1>4. /\ DOMAIN reader' = Readers
      /\ \A s \in Readers :
           /\ reader'[s] \in [pc : ReaderPCs, inode : Inodes \cup {None}, before : {reader'[s].before}]
           /\ reader'[s].pc # "open" => reader'[s].inode # None
  <2>1. FreshReader \in [pc : ReaderPCs, inode : Inodes \cup {None}, before : {FreshReader.before}]
        /\ FreshReader.pc = "open"
    BY DEF FreshReader, ReaderPCs
  <2>2. /\ reader[r] \in [pc : ReaderPCs, inode : Inodes \cup {None}, before : {reader[r].before}]
        /\ reader[r].pc # "open" => reader[r].inode # None
    BY <1>1 DEF StoreTypes
  <2>3. PICK x : /\ reader' = [reader EXCEPT ![r] = x]
                 /\ x \in [pc : ReaderPCs, inode : Inodes \cup {None}, before : {x.before}]
                 /\ x.pc # "open" => x.inode # None
    <3>1. CASE Open(r)
      <4> DEFINE x == [pc |-> "fstat", inode |-> dir[Target], before |-> None]
      <4>1. reader' = [reader EXCEPT ![r] = x] /\ dir[Target] \in Inodes
        BY <1>1, <1>3, <3>1 DEF Open, StoreTypes
      <4>2. /\ x \in [pc : ReaderPCs, inode : Inodes \cup {None}, before : {x.before}]
            /\ x.inode # None
        BY <1>3, <4>1 DEF ReaderPCs
      <4> HIDE DEF x
      <4> QED
        BY <4>1, <4>2
    <3>2. CASE Fstat(r)
      <4> DEFINE x == [pc |-> "stat", inode |-> reader[r].inode, before |-> Stat(reader[r].inode)]
      <4>1. reader' = [reader EXCEPT ![r] = x] /\ reader[r].inode \in Inodes
        BY <1>3, <2>2, <3>2 DEF Fstat
      <4>2. /\ x \in [pc : ReaderPCs, inode : Inodes \cup {None}, before : {x.before}]
            /\ x.inode # None
        BY <1>3, <4>1 DEF ReaderPCs
      <4> HIDE DEF x
      <4> QED
        BY <4>1, <4>2
    <3>3. ASSUME NEW pc \in {"read", "restat"}, reader[r].pc # "open",
                 reader' = [reader EXCEPT ![r] = [@ EXCEPT !.pc = pc]]
          PROVE  \E x : /\ reader' = [reader EXCEPT ![r] = x]
                        /\ x \in [pc : ReaderPCs, inode : Inodes \cup {None}, before : {x.before}]
                        /\ x.pc # "open" => x.inode # None
      <4> DEFINE x == [pc |-> pc, inode |-> reader[r].inode, before |-> reader[r].before]
      <4>1. [reader[r] EXCEPT !.pc = pc] = x
        BY <2>2
      <4>2. reader' = [reader EXCEPT ![r] = x]
        BY <3>3, <4>1
      <4> QED
        BY <2>2, <3>3, <4>2 DEF ReaderPCs
    <3>4. CASE StatPath(r)
      BY <2>1, <3>3, <3>4 DEF StatPath
    <3>5. CASE ReadAndFstat(r)
      BY <2>1, <3>3, <3>5 DEF ReadAndFstat
    <3>6. CASE RestatAndReturn(r)
      BY <2>1, <3>6 DEF RestatAndReturn
    <3> QED
      BY <3>1, <3>2, <3>4, <3>5, <3>6 DEF ReaderStep
  <2>4. \A s \in Readers : reader'[s] = IF s = r THEN x ELSE reader[s]
    BY <1>1, <2>3 DEF StoreTypes
  <2> QED
    BY <1>1, <2>3, <2>4 DEF StoreTypes
<1>5. \/ seen' = seen
      \/ /\ dir[Target] # None /\ file[dir[Target]].owner \in Writers
         /\ seen' = seen \cup {file[dir[Target]].owner}
  <2>1. CASE ~RestatAndReturn(r)
    BY <2>1 DEF ReaderStep
  <2>2. CASE RestatAndReturn(r)
    <3>1. reader[r].inode \in Inodes
      BY <1>1, <2>2, <1>3 DEF RestatAndReturn, StoreTypes
    <3>2. ASSUME dir[Target] = reader[r].inode
          PROVE  dir[Target] # None /\ file[dir[Target]].owner \in Writers
      <4>1. Named(dir[Target]) /\ dir[Target] \in Inodes
        BY <1>3, <3>1, <3>2 DEF Named
      <4>2. file[dir[Target]].owner # None
        BY <1>1, <4>1 DEF NamesLeadToFiles
      <4> QED
        BY <1>1, <1>3, <4>1, <4>2 DEF StoreTypes, FileState
    <3> QED
      BY <2>2, <3>2 DEF RestatAndReturn, StillAt
  <2> QED
    BY <2>1, <2>2
<1>6. StoreTypes'
  BY <1>1, <1>2, <1>4, <1>5 DEF StoreTypes, disk, counters
<1>7. NamesLeadToFiles'
  BY <1>1, <1>2 DEF NamesLeadToFiles, Named, Whole, disk
<1>8. Undisturbed'
  <2>1. UNCHANGED <<dir, file, writer, faults, crashes>>
    BY <1>2 DEF counters
  <2>2. \/ seen' = seen
        \/ dir[Target] # None /\ seen' = seen \cup {file[dir[Target]].owner}
    BY <1>5
  <2>3. (\A v \in seen : dir[Target] # None /\ file[dir[Target]].owner = v)
          => \A v \in seen' : dir[Target] # None /\ file[dir[Target]].owner = v
    BY <2>2
  <2> QED
    BY <1>1, <2>1, <2>3 DEF Undisturbed
<1>9. \A w \in Writers : OwnFile(w)' /\ OwnTemp(w)' /\ OwnTarget(w)'
  BY <1>2 DEF StoreInv, OwnFile, OwnTemp, OwnTarget, Whole, disk
<1> QED
  BY <1>6, <1>7, <1>8, <1>9 DEF StoreInv

(* After a crash every name leads where it led, in memory or on disk; a    *)
(* whole file stays whole, and what was acknowledged is where it was.      *)
LEMMA CrashKeeps ==
  ASSUME StoreInv, Crash PROVE StoreInv'
<1>1. StoreTypes /\ NamesLeadToFiles /\ \A w \in Writers : OwnFile(w) /\ OwnTemp(w) /\ OwnTarget(w)
  BY DEF StoreInv
<1>2. /\ Target \in Names /\ Target \notin Temps /\ Temps \subseteq Names
      /\ None \notin Inodes /\ None \notin Writers
  BY StoreAssumption DEF Names
<1>3. /\ dir' \in [Names -> Inodes \cup {None}]
      /\ \A n \in Names : dir'[n] = dir[n] \/ dir'[n] = diskDir[n]
  <2>1. PICK names \in SUBSET Names :
          dir' = [n \in Names |-> IF n \in names THEN dir[n] ELSE diskDir[n]]
    BY DEF Crash
  <2> QED
    BY <1>1, <2>1 DEF StoreTypes
<1>4. /\ file' \in [Inodes -> FileState]
      /\ \A i \in Inodes :
           \/ file'[i] = file[i]
           \/ file'[i] = [owner |-> file[i].owner, data |-> diskFile[i].data,
                          readOnly |-> diskFile[i].readOnly]
  <2>1. PICK kept \in SUBSET Inodes :
          file' = [i \in Inodes |-> IF i \in kept THEN file[i]
                                    ELSE [diskFile[i] EXCEPT !.owner = file[i].owner]]
    BY DEF Crash
  <2>2. ASSUME NEW i \in Inodes
        PROVE  [diskFile[i] EXCEPT !.owner = file[i].owner]
                 = [owner |-> file[i].owner, data |-> diskFile[i].data,
                    readOnly |-> diskFile[i].readOnly]
    BY <1>1 DEF StoreTypes, FileState
  <2>3. ASSUME NEW i \in Inodes
        PROVE  /\ file[i] \in FileState
               /\ [owner |-> file[i].owner, data |-> diskFile[i].data,
                   readOnly |-> diskFile[i].readOnly] \in FileState
    BY <1>1 DEF StoreTypes, FileState
  <2>4. ASSUME NEW i \in Inodes
        PROVE  /\ \/ file'[i] = file[i]
                  \/ file'[i] = [owner |-> file[i].owner, data |-> diskFile[i].data,
                                 readOnly |-> diskFile[i].readOnly]
               /\ file'[i] \in FileState
    BY <2>1, <2>2, <2>3
  <2>5. file' = [i \in Inodes |-> file'[i]]
    BY <2>1
  <2> QED
    BY <2>4, <2>5
<1>5. /\ diskDir' = dir' /\ diskFile' = file' /\ UNCHANGED <<acked, seen, faults>>
      /\ writer' = [w \in Writers |-> IF w \in acked THEN writer[w] ELSE FreshWriter]
      /\ reader' = [r \in Readers |-> FreshReader]
      /\ crashes' = crashes + 1
  BY DEF Crash
<1>6. StoreTypes'
  <2>1. writer' \in [Writers -> [pc : WriterPCs, temp : Temps \cup {None},
                                 inode : Inodes \cup {None}, targetCreated : BOOLEAN]]
    BY <1>1, <1>5 DEF StoreTypes, FreshWriter, WriterPCs, InTry
  <2>2. /\ DOMAIN reader' = Readers
        /\ \A s \in Readers :
             /\ reader'[s] \in [pc : ReaderPCs, inode : Inodes \cup {None}, before : {reader'[s].before}]
             /\ reader'[s].pc # "open" => reader'[s].inode # None
    BY <1>5 DEF FreshReader, ReaderPCs
  <2> QED
    BY <1>1, <1>3, <1>4, <1>5, <2>1, <2>2 DEF StoreTypes
<1>7. ASSUME NEW i \in Inodes
      PROVE  /\ file'[i].owner = file[i].owner
             /\ Whole(i) => file'[i].data = "all" /\ file'[i].readOnly
             /\ diskFile[i] = file[i] => file'[i] = file[i]
  <2>1. file[i] = [owner |-> file[i].owner, data |-> file[i].data, readOnly |-> file[i].readOnly]
    BY <1>1 DEF StoreTypes, FileState
  <2> QED
    BY <1>4, <2>1 DEF Whole
<1>8. NamesLeadToFiles'
  <2>1. \A i \in Inodes : Named(i)' => Named(i)
    BY <1>3, <1>5 DEF Named
  <2>2. \A i \in {dir'[Target], diskDir'[Target]} \ {None} : i \in Inodes /\ Whole(i)
    BY <1>1, <1>2, <1>3, <1>5 DEF NamesLeadToFiles, StoreTypes
  <2> QED
    BY <1>1, <1>5, <1>7, <2>1, <2>2 DEF NamesLeadToFiles, Whole
<1>9. Undisturbed'
  BY <1>1, <1>5 DEF Undisturbed, StoreTypes
<1>10. ASSUME NEW w \in Writers PROVE OwnFile(w)' /\ OwnTemp(w)' /\ OwnTarget(w)'
  <2>1. CASE w \notin acked
    <3>1. writer'[w] = FreshWriter /\ w \notin acked'
      BY <1>5, <2>1
    <3> QED
      BY <3>1 DEF OwnFile, OwnTemp, OwnTarget, Holding, BeforeLink, Linked, FreshWriter
  <2>2. CASE w \in acked
    <3>1. writer'[w] = writer[w] /\ writer[w].pc = "returned" /\ w \in acked'
      BY <1>1, <1>5, <2>2 DEF OwnTarget
    <3>2. /\ writer[w].inode \in Inodes /\ writer[w].inode # None
          /\ dir[Target] = writer[w].inode /\ diskDir[Target] = writer[w].inode
          /\ Whole(writer[w].inode) /\ diskFile[writer[w].inode] = file[writer[w].inode]
          /\ file[writer[w].inode].owner = w
          /\ ~writer[w].targetCreated /\ writer[w].temp = None
      BY <1>1, <1>2, <3>1 DEF OwnFile, OwnTemp, OwnTarget, Holding, StoreTypes
    <3>3. file'[writer[w].inode] = file[writer[w].inode]
      BY <1>7, <3>2
    <3>4. \A n \in Temps : dir'[n] # writer[w].inode
      BY <1>1, <1>2, <1>3, <3>1 DEF OwnTarget
    <3>5. OwnFile(w)'
      BY <1>5, <3>1, <3>2, <3>3 DEF OwnFile, Whole, Holding, BeforeLink, Linked
    <3>6. OwnTemp(w)'
      BY <3>1, <3>2, <3>4 DEF OwnTemp, BeforeLink
    <3>7. OwnTarget(w)'
      BY <1>2, <1>3, <1>5, <3>1, <3>2, <3>4 DEF OwnTarget, Linked
    <3> QED
      BY <3>5, <3>6, <3>7
  <2> QED
    BY <2>1, <2>2
<1> QED
  BY <1>6, <1>8, <1>9, <1>10 DEF StoreInv

-----------------------------------------------------------------------------
(* The theorems.                                                           *)

(* A step of the specification keeps the invariant: one case per action.   *)
LEMMA NextKeeps == StoreInv /\ [Next]_vars => StoreInv'
<1> SUFFICES ASSUME StoreInv, [Next]_vars PROVE StoreInv'
  OBVIOUS
<1>1. ASSUME NEW w \in Writers, CreateExhausted(w) PROVE StoreInv'
  <2>1. writer[w].pc = "create" /\ Goto(w, "cleanTemp") /\ UNCHANGED <<dir, file, disk, Rest>>
    BY <1>1 DEF CreateExhausted, At
  <2>2. ~writer[w].targetCreated /\ faults \in Nat
    BY <2>1 DEF StoreInv, OwnFile, FreshWriter, StoreTypes
  <2> QED
    BY <2>1, <2>2, GivingUpKeeps DEF InTry, Rest
<1>2. ASSUME NEW w \in Writers, LinkExists(w) PROVE StoreInv'
  <2>1. writer[w].pc = "link" /\ Goto(w, "cleanTemp") /\ UNCHANGED <<dir, file, disk, Rest>>
    BY <1>2 DEF LinkExists, At
  <2>2. ~writer[w].targetCreated /\ faults \in Nat
    BY <2>1 DEF StoreInv, OwnFile, BeforeLink, StoreTypes
  <2> QED
    BY <2>1, <2>2, GivingUpKeeps DEF InTry, Rest
<1>3. ASSUME NEW w \in Writers, Fault(w) PROVE StoreInv'
  <2>1. faults \in Nat /\ faults' = faults + 1
    BY <1>3 DEF Fault, StoreInv, StoreTypes
  <2>2. faults' \in Nat /\ faults' # 0
    BY <2>1
  <2> QED
    BY <1>3, <2>2, GivingUpKeeps DEF Fault
<1>4. ASSUME NEW w \in Writers, WriterStep(w) PROVE StoreInv'
  BY <1>1, <1>2, <1>4, CreateKeeps, WriteKeeps, SyncFileKeeps, ChmodKeeps, LinkKeeps,
     CheckLinkedKeeps, UnlinkTempKeeps, SyncDirKeeps, CheckPublishedKeeps, CleanTempKeeps,
     CleanTargetKeeps DEF WriterStep
<1>5. CASE UNCHANGED vars
  BY <1>5 DEF vars, StoreInv, StoreTypes, NamesLeadToFiles, Named, Whole, Undisturbed,
     OwnFile, OwnTemp, OwnTarget
<1> QED
  BY <1>3, <1>4, <1>5, RetryKeeps, ReaderKeeps, CrashKeeps DEF Next

(* At every moment each writer knows which file and names are its own, no  *)
(* name leads to a file that was never made, and the segment's name only   *)
(* to one that is whole, in memory and on disk (ledger_io.py:94-205).      *)
THEOREM StoreInvHolds == Spec => []StoreInv
<1>1. Init => StoreInv
  BY InitKeeps
<1>2. StoreInv /\ [Next]_vars => StoreInv'
  BY NextKeeps
<1> QED
  BY <1>1, <1>2, PTL DEF Spec

(* No torn or writable segment ever stands at the path, whatever fails and *)
(* wherever the machine crashes.                                           *)
THEOREM PublishedIsCompleteHolds == Spec => []PublishedIsComplete
<1>1. StoreInv => PublishedIsComplete
  BY DEF StoreInv, NamesLeadToFiles, Whole, PublishedIsComplete
<1> QED
  BY <1>1, StoreInvHolds, PTL

(* A returned digest is a promise: the segment stands at the path under    *)
(* that name alone, in memory and on disk, and nothing takes it away.      *)
THEOREM AcknowledgedIsDurableHolds == Spec => []AcknowledgedIsDurable
<1>1. StoreInv => AcknowledgedIsDurable
  <2> SUFFICES ASSUME StoreInv, NEW w \in acked
               PROVE  /\ dir[Target] # None /\ diskDir[Target] = dir[Target]
                      /\ file[dir[Target]] = [owner |-> w, data |-> "all", readOnly |-> TRUE]
                      /\ diskFile[dir[Target]] = file[dir[Target]]
                      /\ Links(dir[Target]) = 1
    BY DEF AcknowledgedIsDurable
  <2> DEFINE i == writer[w].inode
  <2>1. w \in Writers /\ StoreTypes /\ OwnFile(w) /\ OwnTarget(w)
    BY DEF StoreInv, StoreTypes
  <2>2. writer[w].pc = "returned"
    BY <2>1 DEF OwnTarget
  <2>3. /\ i # None /\ dir[Target] = i /\ diskDir[Target] = i /\ i \in Inodes
        /\ file[i].owner = w /\ Whole(i) /\ diskFile[i] = file[i]
        /\ \A n \in Temps : dir[n] # i
    BY <2>1, <2>2 DEF OwnFile, OwnTarget, Holding, StoreTypes
  <2>4. file[i] = [owner |-> w, data |-> "all", readOnly |-> TRUE]
    BY <2>1, <2>3 DEF Whole, StoreTypes, FileState
  <2>5. {n \in Names : dir[n] = dir[Target]} = {Target}
    BY <2>3 DEF Names
  <2>6. Links(dir[Target]) = 1
    BY <2>5, FS_Singleton DEF Links
  <2> QED
    BY <2>3, <2>4, <2>6
<1> QED
  BY <1>1, StoreInvHolds, PTL

(* At most one writer of a path ever gets a digest back: the segment that  *)
(* was promised is one segment.                                            *)
THEOREM OneWriterIsAcknowledged == Spec => [](\A v, w \in acked : v = w)
<1>1. AcknowledgedIsDurable => \A v, w \in acked : v = w
  <2> SUFFICES ASSUME AcknowledgedIsDurable, NEW v \in acked, NEW w \in acked PROVE v = w
    OBVIOUS
  <2>1. /\ file[dir[Target]] = [owner |-> v, data |-> "all", readOnly |-> TRUE]
        /\ file[dir[Target]] = [owner |-> w, data |-> "all", readOnly |-> TRUE]
    BY DEF AcknowledgedIsDurable
  <2>2. file[dir[Target]].owner = v /\ file[dir[Target]].owner = w
    BY <2>1
  <2> QED
    BY <2>2
<1> QED
  BY <1>1, AcknowledgedIsDurableHolds, PTL

(* The writer's own checks of its file's metadata never refuse: until its  *)
(* digest is returned nobody else changes the file or its names            *)
(* (ledger_io.py:115-144), so only a failing call leads to the rollback.   *)
ChecksPass(w) ==
  /\ writer[w].pc = "chmod" =>
       Links(writer[w].inode) = 1 /\ file[writer[w].inode].data = "all"
  /\ writer[w].pc \in {"checkLinked", "checkPublished"} =>
       /\ dir[Target] # None /\ file[dir[Target]].data = "all" /\ file[dir[Target]].readOnly
       /\ Links(dir[Target]) = IF writer[w].pc = "checkLinked" THEN 2 ELSE 1

THEOREM ChecksNeverFail == Spec => [](\A w \in Writers : ChecksPass(w))
<1>1. StoreInv => \A w \in Writers : ChecksPass(w)
  <2> SUFFICES ASSUME StoreInv, NEW w \in Writers PROVE ChecksPass(w)
    OBVIOUS
  <2> DEFINE i == writer[w].inode
             t == writer[w].temp
  <2>1. StoreTypes /\ OwnFile(w) /\ OwnTemp(w)
    BY DEF StoreInv
  <2>2. ASSUME writer[w].pc = "chmod" PROVE Links(i) = 1 /\ file[i].data = "all"
    <3>1. t \in Temps /\ dir[t] = i /\ i # None /\ dir[Target] # i
      BY <2>1, <2>2 DEF OwnFile, OwnTemp, Holding, BeforeLink, StoreTypes
    <3>2. {n \in Names : dir[n] = i} = {t}
      BY <2>1, <3>1 DEF OwnTemp, Names
    <3>3. Links(i) = 1
      BY <3>2, FS_Singleton DEF Links
    <3> QED
      BY <2>1, <2>2, <3>3 DEF OwnFile
  <2>3. ASSUME writer[w].pc \in {"checkLinked", "checkPublished"}
        PROVE  /\ dir[Target] # None /\ file[dir[Target]].data = "all" /\ file[dir[Target]].readOnly
               /\ Links(dir[Target]) = IF writer[w].pc = "checkLinked" THEN 2 ELSE 1
    BY <2>3, LinksOfOwnFile DEF Linked
  <2> QED
    BY <2>2, <2>3 DEF ChecksPass
<1> QED
  BY <1>1, StoreInvHolds, PTL

(* While nothing has failed, all reads agree with each other, with what    *)
(* was acknowledged and with what stands at the path.                      *)
THEOREM UndisturbedReadsAgreeHolds == Spec => []UndisturbedReadsAgree
<1>1. StoreInv => UndisturbedReadsAgree
  <2> SUFFICES ASSUME StoreInv, faults = 0, crashes = 0
               PROVE  /\ Cardinality(seen \cup acked) <= 1
                      /\ \A w \in seen : dir[Target] # None /\ file[dir[Target]].owner = w
    BY DEF UndisturbedReadsAgree
  <2>1. \A w \in seen : dir[Target] # None /\ file[dir[Target]].owner = w
    BY DEF StoreInv, Undisturbed
  <2>2. \A w \in acked : file[dir[Target]].owner = w
    <3> SUFFICES ASSUME NEW w \in acked PROVE file[dir[Target]].owner = w
      OBVIOUS
    <3>1. w \in Writers /\ OwnFile(w) /\ OwnTarget(w)
      BY DEF StoreInv, StoreTypes
    <3> QED
      BY <3>1 DEF OwnFile, OwnTarget, Holding
  <2>3. seen \cup acked \subseteq {file[dir[Target]].owner}
    BY <2>1, <2>2
  <2>4. Cardinality(seen \cup acked) <= 1
    <3>1. CASE seen \cup acked = {}
      <4>1. Cardinality(seen \cup acked) = 0
        BY <3>1, FS_EmptySet
      <4> QED
        BY <4>1
    <3>2. CASE seen \cup acked = {file[dir[Target]].owner}
      <4>1. Cardinality(seen \cup acked) = 1
        BY <3>2, FS_Singleton
      <4> QED
        BY <4>1
    <3> QED
      BY <2>3, <3>1, <3>2
  <2> QED
    BY <2>1, <2>4
<1> QED
  BY <1>1, StoreInvHolds, PTL

(* Only the writer of a segment, in its own rollback, or a crash takes a   *)
(* segment away from the path.                                             *)
THEOREM RollbackSparesOthersHolds == Spec => RollbackSparesOthers
<1> DEFINE Spares == (dir[Target] # None /\ dir'[Target] # dir[Target] /\ crashes' = crashes) =>
                       \E w \in Writers : /\ writer[w].pc = "cleanTarget" /\ writer[w].inode = dir[Target]
                                          /\ dir'[Target] = None
<1>1. StoreInv /\ [Next]_vars => [Spares]_vars
  <2> SUFFICES ASSUME StoreInv, Next, dir[Target] # None, dir'[Target] # dir[Target],
                      crashes' = crashes
               PROVE  \E w \in Writers : /\ writer[w].pc = "cleanTarget" /\ writer[w].inode = dir[Target]
                                         /\ dir'[Target] = None
    BY DEF vars
  <2>1. StoreTypes /\ Target \in Names /\ Target \notin Temps /\ Target # None
    BY StoreAssumption DEF StoreInv, Names
  <2>2. ~Crash
    BY <2>1 DEF Crash, StoreTypes
  <2>3. PICK w \in Writers : WriterStep(w)
    BY <2>2 DEF Next, Fault, Retry, ReaderStep
  <2>4. writer[w].temp # Target /\ OwnTarget(w)
    BY <2>1 DEF StoreInv, StoreTypes
  <2>5. ~Create(w) /\ ~UnlinkTemp(w) /\ ~CleanTemp(w)
    BY <2>1, <2>4 DEF Create, UnlinkTemp, CleanTemp, StoreTypes
  <2>6. CleanTarget(w)
    BY <2>3, <2>5 DEF WriterStep, CreateExhausted, Write, SyncFile, Chmod, Link, LinkExists,
       CheckLinked, SyncDir, CheckPublished
  <2> QED
    BY <2>1, <2>4, <2>6 DEF CleanTarget, At, OwnTarget, StoreTypes
<1> QED
  BY <1>1, StoreInvHolds, PTL DEF Spec, RollbackSparesOthers
=============================================================================
