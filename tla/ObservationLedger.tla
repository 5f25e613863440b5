-------------------------- MODULE ObservationLedger -------------------------
(***************************************************************************)
(* The observation ledger (ledger.py): builders that append observations   *)
(* to a segment and seal it, segments chained by their manifests, and the  *)
(* replay that accepts or rejects a sequence of stored segments.           *)
(*                                                                         *)
(* SHA-256 is collision-free here: the digest of a segment is the segment  *)
(* itself, so `previous' holds the segment whose digest a manifest names.  *)
(* Likewise the record chain and the records root are the sequence of      *)
(* records.  The contract set is fixed; every manifest names the same one. *)
(***************************************************************************)
EXTENDS Integers, FiniteSets, SequencesExt

CONSTANTS Sources,            \* governed source ids
          Events,             \* source event ids
          Observations,       \* bound: the observations offered for appending
          Times,              \* observation and creation times, unix ms
          SegmentIds,
          Builders,           \* ObservationLedgerBuilder objects alive at once
          MaxSegmentRecords,  \* MAX_SEGMENT_RECORDS
          MaxFiles            \* bound: segments ever sealed

ASSUME LedgerAssumption ==
  /\ Times \subseteq Nat
  /\ MaxSegmentRecords \in Nat \ {0}
  /\ Observations \subseteq [source : Sources, sequence : Nat, time : Times, event : Events]
  /\ MaxFiles \in Nat

VARIABLES builders,  \* what each builder object holds
          files,     \* the segments on disk, sealed by a builder or rewritten
          sealed     \* history: the segments that builders sealed

vars == <<builders, files, sealed>>

Genesis == [id |-> "genesis"]  \* ZERO_SHA256: no previous segment
Idle == [id |-> "none"]       \* no such object, or one that is sealed

-----------------------------------------------------------------------------
(* Source checkpoints: the last sequence and observation time per source.  *)

NoCheckpoints == [s \in {} |-> 0]

Point(o) == [sequence |-> o.sequence, time |-> o.time]

\* A source that was never observed starts at sequence zero, at any time.
PointOf(checkpoints, s) ==
  IF s \in DOMAIN checkpoints THEN checkpoints[s] ELSE [sequence |-> -1, time |-> 0]

Follows(o, point) == o.sequence = point.sequence + 1 /\ o.time >= point.time

SameIdentity(o, p) == o.source = p.source /\ o.event = p.event

CreatedAfter_Unchecked(created, checkpoints) == TRUE
CreatedAfter(created, checkpoints) == \A s \in DOMAIN checkpoints : created >= checkpoints[s].time

-----------------------------------------------------------------------------
(* Replay: validate_segment and validate_segment_chain.                    *)

\* The last record of source s among the first n.
LastOf(records, n, s) ==
  {j \in 1 .. n : records[j].source = s /\ \A k \in j + 1 .. n : records[k].source # s}

PointBefore(starting, records, n, s) ==
  IF LastOf(records, n, s) = {} THEN PointOf(starting, s)
  ELSE Point(records[CHOOSE j \in LastOf(records, n, s) : TRUE])

EndingOf(starting, records) ==
  [s \in DOMAIN starting \cup {records[i].source : i \in DOMAIN records}
     |-> PointBefore(starting, records, Len(records), s)]

\* SegmentManifest.__post_init__ and validate_segment.
ValidSegment(g) ==
  /\ Len(g.records) \in 1 .. MaxSegmentRecords
  /\ (g.previous = Genesis) <=> (DOMAIN g.starting = {})
  /\ \A i \in DOMAIN g.records :
       /\ Follows(g.records[i], PointBefore(g.starting, g.records, i - 1, g.records[i].source))
       /\ \A j \in 1 .. i - 1 : ~SameIdentity(g.records[j], g.records[i])
  /\ g.ending = EndingOf(g.starting, g.records)
  /\ CreatedAfter(g.created, g.ending)

\* Distinct ids, from genesis on, every segment naming the digest of the one before.
Linked(chain) ==
  /\ chain # <<>>
  /\ chain[1].previous = Genesis
  /\ \A i \in 2 .. Len(chain) : chain[i].previous = chain[i - 1]
  /\ \A i, j \in DOMAIN chain : chain[i].id = chain[j].id => i = j

\* validate_segment_chain, of segments that were parsed and so are valid.
ValidChain_DigestLinkOnly(chain) ==
  /\ Linked(chain)
  /\ \A i \in DOMAIN chain : ValidSegment(chain[i])
  /\ \A i \in 2 .. Len(chain) : chain[i].created >= chain[i - 1].created
ValidChain(chain) ==
  /\ Linked(chain)
  /\ \A i \in DOMAIN chain : ValidSegment(chain[i])
  /\ chain[1].starting = NoCheckpoints
  /\ \A i \in 2 .. Len(chain) :
       /\ chain[i].starting = chain[i - 1].ending
       /\ chain[i].created >= chain[i - 1].created

-----------------------------------------------------------------------------
(* Builders.                                                               *)

Init == builders = [b \in Builders |-> Idle] /\ files = {} /\ sealed = {}

\* __init__: start at genesis, or after any stored manifest the caller parsed.
Start_AnyCreationTime(b) ==
  /\ builders[b] = Idle
  /\ Cardinality(sealed) < MaxFiles
  /\ \E id \in SegmentIds, created \in Times,
        previous \in {Genesis} \cup {g \in files : ValidSegment(g)} :
       /\ builders' = [builders EXCEPT ![b] =
            LET starting == IF previous = Genesis THEN NoCheckpoints ELSE previous.ending
            IN  [id |-> id, created |-> created, previous |-> previous,
                 starting |-> starting, records |-> <<>>, last |-> starting]]
  /\ UNCHANGED <<files, sealed>>
Start(b) ==
  /\ builders[b] = Idle
  /\ Cardinality(sealed) < MaxFiles
  /\ \E id \in SegmentIds, created \in Times,
        previous \in {Genesis} \cup {g \in files : ValidSegment(g)} :
       /\ previous # Genesis => created >= previous.created
       /\ builders' = [builders EXCEPT ![b] =
            LET starting == IF previous = Genesis THEN NoCheckpoints ELSE previous.ending
            IN  [id |-> id, created |-> created, previous |-> previous,
                 starting |-> starting, records |-> <<>>, last |-> starting]]
  /\ UNCHANGED <<files, sealed>>

\* append: the next observation of its source, and a new one in this segment.
AppendRecord(b, o) ==
  /\ builders[b] # Idle
  /\ Len(builders[b].records) < MaxSegmentRecords
  /\ Follows(o, PointOf(builders[b].last, o.source))
  /\ \A i \in DOMAIN builders[b].records : ~SameIdentity(builders[b].records[i], o)
  /\ builders' = [builders EXCEPT
       ![b].records = Append(@, o),
       ![b].last = [s \in DOMAIN @ \cup {o.source} |-> IF s = o.source THEN Point(o) ELSE @[s]]]
  /\ UNCHANGED <<files, sealed>>

SegmentOf(b) ==
  [id |-> b.id, created |-> b.created, previous |-> b.previous,
   starting |-> b.starting, records |-> b.records, ending |-> b.last]

\* seal's own checks; the manifest and segment it then builds are validated again.
Sealable(b) ==
  b # Idle /\ b.records # <<>> /\ CreatedAfter(b.created, b.last)

Seal(b) ==
  /\ Sealable(builders[b])
  /\ ValidSegment(SegmentOf(builders[b]))
  /\ Cardinality(sealed) < MaxFiles
  /\ files' = files \cup {SegmentOf(builders[b])}
  /\ sealed' = sealed \cup {SegmentOf(builders[b])}
  /\ builders' = [builders EXCEPT ![b] = Idle]  \* sealed: every further call raises

\* The process exits: a builder keeps nothing on disk before it is sealed.
Exit(b) ==
  /\ builders[b] # Idle
  /\ builders' = [builders EXCEPT ![b] = Idle]
  /\ UNCHANGED <<files, sealed>>

-----------------------------------------------------------------------------
(***************************************************************************)
(* A stored segment is rewritten outside the ledger with every digest made *)
(* to fit again: a record is lost, two neighbours change places, or the    *)
(* segment is attached to another predecessor, whose checkpoints it may    *)
(* take over.                                                              *)
(***************************************************************************)
Rewrites(g) ==
  LET Rehashed(starting, records) ==
        [g EXCEPT !.starting = starting, !.records = records, !.ending = EndingOf(starting, records)]
      Swapped(i) == [g.records EXCEPT ![i] = g.records[i + 1], ![i + 1] = g.records[i]]
  IN  {Rehashed(g.starting, RemoveAt(g.records, i)) : i \in DOMAIN g.records}
        \cup {Rehashed(g.starting, Swapped(i)) : i \in 1 .. Len(g.records) - 1}
        \cup {[g EXCEPT !.previous = p] : p \in files}
        \cup {[Rehashed(p.ending, g.records) EXCEPT !.previous = p] : p \in files}

Rewrite ==
  /\ files = sealed /\ Cardinality(sealed) = MaxFiles  \* bound: one rewrite, at the end
  /\ \E g \in files : \E r \in Rewrites(g) : files' = (files \ {g}) \cup {r}
  /\ UNCHANGED <<builders, sealed>>

Next ==
  \/ \E b \in Builders : Start(b) \/ Seal(b) \/ Exit(b)
  \/ \E b \in Builders, o \in Observations : AppendRecord(b, o)
  \/ Rewrite

Spec == Init /\ [][Next]_vars

-----------------------------------------------------------------------------
(* Properties.                                                             *)

Chains == {c \in SeqOf(files, MaxFiles) : ValidChain(c)}

\* The records of a chain are told apart by where they are: segment, then record.
Positions(chain) == UNION {{i} \X DOMAIN chain[i].records : i \in DOMAIN chain}

RecordAt(chain, p) == chain[p[1]].records[p[2]]

Before(p, q) == p[1] < q[1] \/ (p[1] = q[1] /\ p[2] < q[2])

\* What the chain holds of the source of the record at p, before p.
Earlier(chain, p) ==
  {q \in Positions(chain) :
     Before(q, p) /\ RecordAt(chain, q).source = RecordAt(chain, p).source}

(***************************************************************************)
(* A replayed chain is one gapless history per source: the sequence of a   *)
(* record is the number of records of its source before it, across segment *)
(* boundaries, and none of those was observed later, whatever was lost,    *)
(* reordered, forked or rewritten among the files.                         *)
(***************************************************************************)
ReplayIsGapless ==
  \A chain \in Chains : \A p \in Positions(chain) :
    /\ RecordAt(chain, p).sequence = Cardinality(Earlier(chain, p))
    /\ \A q \in Earlier(chain, p) : RecordAt(chain, q).time <= RecordAt(chain, p).time

(***************************************************************************)
(* The last manifest of a replayed chain speaks for the whole chain: its   *)
(* checkpoints are the last observation of every source ever seen, and it  *)
(* was created no earlier than any observation under it.                   *)
(***************************************************************************)
CheckpointsSpeakForChain ==
  \A chain \in Chains :
    LET g == chain[Len(chain)] IN
    /\ DOMAIN g.ending = {RecordAt(chain, p).source : p \in Positions(chain)}
    /\ \A p \in Positions(chain) :
         /\ g.created >= RecordAt(chain, p).time
         /\ (\A q \in Positions(chain) : p \notin Earlier(chain, q))
              => g.ending[RecordAt(chain, p).source] = Point(RecordAt(chain, p))

(***************************************************************************)
(* What builders sealed one after the other always replays, across process *)
(* restarts and forks, provided the caller gave every segment of the chain *)
(* an id of its own.                                                       *)
(***************************************************************************)
BuiltChainsReplay ==
  \A chain \in SeqOf(files \cap sealed, MaxFiles) : Linked(chain) => ValidChain(chain)
=============================================================================
