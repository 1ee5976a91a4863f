-------------------------------- MODULE Jobs --------------------------------
(***************************************************************************)
(* What modules TxInfo and Search share: the tables about prover jobs, the *)
(* nodes of the chain that fill them, and the state of a job.  A job is a  *)
(* run transaction, the proofs made for it and the verifications of those. *)
(*                                                                         *)
(* A transaction has a row in table transaction and then one in            *)
(* workflow_step, proof or verification that says what it belongs to; the  *)
(* foreign keys ask for that order and for no more.  Rows may go again,    *)
(* and with a row goes all that refers to it.  All rows are of one program *)
(* here, which is there as long as any of them is.                         *)
(***************************************************************************)
EXTENDS Model, Sequences, SequencesExt, FiniteSets

CONSTANTS
  Runs, Proofs, Verifications,   \* the hashes of the transactions, by kind
  Program,                       \* the hash of the program
  MaxTime,                       \* bound: the latest created_at
  MaxDeletions                   \* bound: how many rows are deleted

Hashes == Runs \cup Proofs \cup Verifications
Times  == 0 .. MaxTime

ASSUME JobsAssumption ==
  /\ Runs \cap Proofs = {} /\ Runs \cap Verifications = {}
  /\ Proofs \cap Verifications = {}
  /\ Program \notin Hashes
  /\ MaxTime \in Nat /\ MaxDeletions \in Nat

VARIABLES
  created,    \* table transaction: created_at of each hash that has a row
  parent,     \* the row that links a transaction: proof.parent,
              \* verification.parent, and for a run the program of its step
  deletions   \* how many deletions there have been

tables == <<created, parent, deletions>>

Stored == DOMAIN created
Linked == DOMAIN parent

TablesInit ==
  /\ created = [h \in {} |-> 0] /\ parent = [h \in {} |-> Program]
  /\ deletions = 0

TablesTypeOK ==
  /\ created \in [Stored -> Times] /\ Stored \subseteq Hashes
  /\ parent \in [Linked -> Hashes \cup {Program}] /\ Linked \subseteq Stored
  /\ deletions \in 0 .. MaxDeletions

------------------------------------------------------------------------------
(* The nodes. *)

\* created_at is the time at which the inserting database transaction began:
\* two may share it, and a later one may be seen first.
AddTransaction(h) ==
  /\ h \notin Stored
  /\ \E t \in Times :
       created' = [g \in Stored \cup {h} |-> IF g = h THEN t ELSE created[g]]
  /\ UNCHANGED <<parent, deletions>>

\* What a transaction of each kind may belong to.
Parents(h) == IF h \in Runs THEN {Program}
              ELSE Stored \cap (IF h \in Proofs THEN Runs ELSE Proofs)

AddLink(h) ==
  /\ h \in Stored \ Linked
  /\ \E p \in Parents(h) :
       parent' = [g \in Linked \cup {h} |-> IF g = h THEN p ELSE parent[g]]
  /\ UNCHANGED <<created, deletions>>

\* Rows are deleted, and with them the rows that refer to them.
Delete(rows, links) ==
  /\ deletions < MaxDeletions
  /\ created' = [g \in Stored \ rows |-> created[g]]
  /\ parent' = [g \in Linked \ links |-> parent[g]]
  /\ deletions' = deletions + 1

DeleteTransaction(h) ==
  h \in Stored /\ Delete({h}, {g \in Linked : g = h \/ parent[g] = h})

\* All rows of workflow_step, proof and verification refer to the program.
DeleteProgram == Linked # {} /\ Delete({}, Linked)

Nodes == \/ \E h \in Hashes : AddTransaction(h) \/ AddLink(h) \/ DeleteTransaction(h)
         \/ DeleteProgram

------------------------------------------------------------------------------
(* The job of a transaction and its state. *)

ProofsOf(r)        == {p \in Proofs \cap Linked : parent[p] = r}
VerificationsOf(r) == {v \in Verifications \cap Linked : parent[v] \in ProofsOf(r)}

\* The run a proof or a verification leads to, by the rows that are there.
HasRoot(h) == h \in Linked /\ (h \in Verifications => parent[h] \in Linked)

\* Faulty variant: a verification leads to its proof.
RootOfParent(h) == parent[h]

RootOf(h) == IF h \in Verifications THEN parent[parent[h]] ELSE parent[h]

\* Faulty variant: the verifications are left out of the union.
RelatedProofs(r) == (Stored \cap {r}) \cup ProofsOf(r)

\* fetchTxsQuery of TxInfo: the transactions of a job.
Related(r) == (Stored \cap {r}) \cup ProofsOf(r) \cup VerificationsOf(r)

\* Faulty variant: the second verification falls between two cases.
StateGap(proofs, verifications) ==
  CASE proofs > 0 /\ verifications = 0        -> StateProving
    [] verifications > 0 /\ verifications < 2 -> StateVerifying
    [] verifications > 2                      -> StateComplete
    [] OTHER                                  -> StateSubmitted

\* getState counts the proofs and verifications among the transactions.
StateOf(proofs, verifications) ==
  CASE proofs > 0 /\ verifications = 0        -> StateProving
    [] verifications > 0 /\ verifications < 3 -> StateVerifying
    [] verifications > 2                      -> StateComplete
    [] OTHER                                  -> StateSubmitted

GetState(T) == StateOf(Cardinality(T \cap Proofs), Cardinality(T \cap Verifications))

\* Transactions of one kind are interchangeable.
Interchangeable == Permutations(Proofs) \cup Permutations(Verifications)

==============================================================================
