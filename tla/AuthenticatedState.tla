------------------------- MODULE AuthenticatedState -------------------------
(***************************************************************************)
(* Block-state anchors, state proofs and snapshots (F2).                   *)
(*                                                                         *)
(* An anchor is a block head and the state root that the same source       *)
(* observed after it.  A proof observation claims an account and some of   *)
(* its slots under that root.  EvmStateProofEvidence checks the claims one *)
(* after the other, the account against the state root and each slot       *)
(* against the account's storage root, by a walk of TrieProofs; the first  *)
(* claim that fails discards the whole.  Snapshots gather evidence of      *)
(* several accounts under one anchor.                                      *)
(*                                                                         *)
(* Source: state_proof_types.py, state_proof_evidence.py.  Nothing         *)
(* authenticates the state root itself: sources may claim any.  The node   *)
(* lists of a proof are chosen when they are first read.                   *)
(***************************************************************************)
EXTENDS TrieProofs

CONSTANTS
    Heads,              \* block-head observations
    States,             \* block-state observations
    Proofs,             \* state-proof observations, without their node lists
    ListsFor(_, _),     \* node lists that sources present for a root and key
    AccountKey,         \* keccak256 of an address, as nibbles
    SlotKey,            \* keccak256 of a slot
    EmptyAccount,       \* nonce 0, balance 0, EMPTY_TRIE_ROOT, EMPTY_CODE_HASH
    MaxEvidence,        \* bound on the evidence gathered in a behaviour
    MaxSnapshotAccounts \* MAX_SNAPSHOT_ACCOUNTS

(* Payloads that decode as an account or as a storage scalar.              *)
Account(claim) == [kind |-> "account", account |-> claim]
Word(n) == [kind |-> "word", number |-> n]

(* What a source claims is well formed: slots are numbers, sorted by key,   *)
(* without repetition.                                                     *)
IsStateProof(p) ==
    /\ p.slots \in Seq([slot : DOMAIN SlotKey, value : Nat])
    /\ \A j, k \in DOMAIN p.slots : j < k => p.slots[j].slot < p.slots[k].slot

ASSUME StateAssumption ==
    /\ \A p \in Proofs : IsStateProof(p)
    /\ \A p \in Proofs : /\ AccountKey[p.address] \in Seq(Nibbles)
                         /\ \A k \in DOMAIN p.slots : SlotKey[p.slots[k].slot] \in Seq(Nibbles)
    /\ EmptyAccount.storage = EmptyRoot

VARIABLES
    job,        \* the proof observation being verified, NoJob if there is none
    evidence    \* verified EvmStateProofEvidence

stateVars == <<walk, job, evidence>>

NoJob == [stage |-> "none"]

-----------------------------------------------------------------------------
SameStream(p, q) == p.chain = q.chain /\ p.source = q.source /\ p.finality = q.finality

(* q was observed after p. *)
Succeeds(q, p) == p.sequence < q.sequence /\ p.time <= q.time

SameBlock(p, q) == p.number = q.number /\ p.hash = q.hash

(* _validate_anchor_observations *)
IsAnchor(a) ==
    /\ a.head.finality \in {"confirmed", "finalized"}
    /\ SameStream(a.head, a.state)
    /\ Succeeds(a.state, a.head)
    /\ SameBlock(a.head, a.state)

Binds(p, a) ==
    /\ SameStream(p, a.state) /\ Succeeds(p, a.state)
    /\ SameBlock(p, a.state) /\ p.root = a.state.root

BeginProof(a, p) ==
    /\ job = NoJob /\ Cardinality(evidence) < MaxEvidence
    /\ IsAnchor(a) /\ Binds(p, a)
    /\ job' = [stage |-> 0, anchor |-> a, proof |-> p, exists |-> FALSE, included |-> <<>>]
    /\ UNCHANGED <<walk, evidence>>

Claims == job.proof.slots

Pending == job # NoJob /\ job.stage <= Len(Claims)

(* Storage is looked up under the root that the account was found to have. *)
JobRoot == IF job.stage = 0 THEN job.anchor.state.root ELSE job.proof.account.storage

JobKey == IF job.stage = 0 THEN AccountKey[job.proof.address]
          ELSE SlotKey[Claims[job.stage].slot]

PresentNext ==
    /\ Pending
    /\ \E list \in ListsFor(JobRoot, JobKey) : Present(JobRoot, JobKey, list)
    /\ UNCHANGED <<job, evidence>>

TakeWalkStep == WalkStep /\ UNCHANGED <<job, evidence>>

(* A proof of absence supports any claim. *)
AccountAgrees_IfFound ==
    Found(walk) => walk.value = Account(job.proof.account)

AccountAgrees ==
    IF Found(walk) THEN walk.value = Account(job.proof.account)
    ELSE job.proof.account = EmptyAccount

(* A slot that holds 0 is no leaf of the trie. *)
SlotAgrees ==
    LET value == Claims[job.stage].value IN
    IF Found(walk) THEN walk.value = Word(value) /\ value # 0 ELSE value = 0

Agrees == IF job.stage = 0 THEN AccountAgrees ELSE SlotAgrees

AcceptAccount ==
    /\ walk.phase = "verified" /\ job.stage = 0 /\ Agrees
    /\ job' = [job EXCEPT !.stage = 1, !.exists = Found(walk)]
    /\ walk' = NoWalk
    /\ UNCHANGED evidence

AcceptSlot ==
    /\ walk.phase = "verified" /\ job.stage > 0 /\ Agrees
    /\ job' = [job EXCEPT !.stage = @ + 1, !.included = Append(@, Found(walk))]
    /\ walk' = NoWalk
    /\ UNCHANGED evidence

Reject ==
    /\ \/ walk.phase = "refused"
       \/ walk.phase = "verified" /\ ~Agrees
    /\ job' = NoJob /\ walk' = NoWalk
    /\ UNCHANGED evidence

Conclude ==
    /\ job # NoJob /\ ~Pending
    /\ evidence' = evidence \cup {[anchor |-> job.anchor, proof |-> job.proof,
                                   exists |-> job.exists, included |-> job.included]}
    /\ job' = NoJob
    /\ UNCHANGED walk

(* Evidence of one block, whatever root its anchors claim for it. *)
OneAnchor_BlockOnly(S) == \A e, f \in S : SameBlock(e.anchor.state, f.anchor.state)

OneAnchor(S) == \A e, f \in S : e.anchor = f.anchor

(* EvmStateSnapshot *)
IsSnapshot(S) ==
    /\ S # {} /\ Cardinality(S) <= MaxSnapshotAccounts
    /\ \A e, f \in S : e.proof.address = f.proof.address => e = f
    /\ OneAnchor(S)

StateInit == walk = NoWalk /\ job = NoJob /\ evidence = {}

(* The verification that was begun runs on by itself. *)
Verify == PresentNext \/ TakeWalkStep \/ AcceptAccount \/ AcceptSlot \/ Reject \/ Conclude

StateNext ==
    \/ \E head \in Heads, state \in States, p \in Proofs :
          BeginProof([head |-> head, state |-> state], p)
    \/ Verify

-----------------------------------------------------------------------------
HasEntry(root, key) == \E e \in EntriesOf(root) : e[1] = key

AccountHolds(p, exists) ==
    IF exists THEN <<AccountKey[p.address], Account(p.account)>> \in EntriesOf(p.root)
    ELSE ~HasEntry(p.root, AccountKey[p.address]) /\ p.account = EmptyAccount

SlotHolds(p, k, included) ==
    LET key == SlotKey[p.slots[k].slot]
        storage == p.account.storage
    IN IF included THEN <<key, Word(p.slots[k].value)>> \in EntriesOf(storage)
       ELSE ~HasEntry(storage, key) /\ p.slots[k].value = 0

(* Evidence repeats what the claimed state holds (state_proof_evidence     *)
(* 103-185): its account and each of its slots, found or absent, are those *)
(* of the trie under its anchor's root, whatever lists were presented, and *)
(* the root of each trie is the one that the level above commits to.       *)
ProofsTellTheState ==
    \A e \in evidence :
        /\ e.proof.root = e.anchor.state.root
        /\ AccountHolds(e.proof, e.exists)
        /\ \A k \in DOMAIN e.proof.slots : SlotHolds(e.proof, k, e.included[k])
=============================================================================
