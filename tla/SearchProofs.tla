---------------------------- MODULE SearchProofs ----------------------------
(***************************************************************************)
(* Proofs about the two readers of the tables of jobs, TxInfo and Search,  *)
(* for any number of transactions of every kind, of any times, added in    *)
(* any order that the foreign keys allow and deleted as often as one likes.*)
(***************************************************************************)
EXTENDS Search, FiniteSetTheorems, Numbers

\* The foreign keys: what a transaction belongs to is there, and of the kind
\* above it.
LinksTyped ==
  \A h \in Linked :
    /\ h \in Runs => parent[h] = Program
    /\ h \in Proofs => parent[h] \in Runs \cap Stored
    /\ h \in Verifications => parent[h] \in Proofs \cap Stored

TablesOK == TablesTypeOK /\ IsFiniteSet(Stored) /\ LinksTyped

LocalsOK ==
  /\ pc \in {"idle", "parent", "txs", "prover"}
  /\ tx \in Hashes \cup {Program} /\ root \in Runs \cup {Program}
  /\ related \in [txs : SUBSET Hashes, duration : Times] /\ IsFiniteSet(related.txs)
  /\ lost \in BOOLEAN
  /\ pc # "idle" => tx \in Hashes
  /\ pc = "parent" => tx \notin Runs
  /\ pc \in {"txs", "prover"} => root \in Runs

\* As long as nothing that TxInfo has read is deleted, what it holds leads back
\* to the transaction that it was asked for.
ReaderKnows ==
  ~lost =>
    /\ pc # "idle" => tx \in Stored
    /\ pc \in {"txs", "prover"} => root \in Stored /\ tx \in Related(root)
    /\ pc = "prover" => related.txs \subseteq Related(root) /\ tx \in related.txs
                        /\ related.duration = JobDuration(related.txs)

\* A page is made of some of the transactions of its job.
PageKnown ==
  page # NoPage =>
    /\ page.root \in Runs \cap Stored /\ Shown \subseteq Related(page.root)
    /\ page.state = GetState(Shown) /\ page.duration = JobDuration(Shown)
    /\ page.log = Log(Shown)

\* What is about to be shown is no less than what was.
NeverBehind ==
  page # NoPage /\ pc = "prover" /\ root = page.root =>
    Shown \subseteq related.txs /\ page.duration <= related.duration

Inv == TablesOK /\ LocalsOK /\ ReaderKnows /\ PageKnown /\ NeverBehind

------------------------------------------------------------------------------
(* The tables. *)

\* A job has its transactions in the table, and they are finitely many.
LEMMA JobInTable ==
  ASSUME TablesOK, NEW r
  PROVE  /\ Related(r) \subseteq Stored /\ Related(r) \subseteq Hashes
         /\ IsFiniteSet(Related(r))
<1>1. Related(r) \in SUBSET Stored
  BY DEF TablesOK, TablesTypeOK, Related, ProofsOf, VerificationsOf
<1>2. IsFiniteSet(Related(r)) BY <1>1, FS_Subset DEF TablesOK
<1> QED BY <1>1, <1>2 DEF TablesOK, TablesTypeOK

\* A job's transactions are told apart by their kind.
LEMMA JobByKind ==
  ASSUME NEW r \in Runs
  PROVE  /\ Related(r) \cap Proofs = ProofsOf(r)
         /\ Related(r) \cap Verifications = VerificationsOf(r)
BY JobsAssumption DEF Related, ProofsOf, VerificationsOf

\* Rows that are added change nothing of what is there.
TablesKept ==
  /\ Stored \subseteq Stored' /\ Linked \subseteq Linked'
  /\ \A h \in Stored : created'[h] = created[h]
  /\ \A h \in Linked : parent'[h] = parent[h]

\* A transaction, or the row that links one, is added.
LEMMA TablesGrow ==
  ASSUME TablesOK, NEW h \in Hashes, AddTransaction(h) \/ AddLink(h)
  PROVE  TablesOK' /\ TablesKept
<1>1. TablesTypeOK /\ LinksTyped /\ IsFiniteSet(Stored) BY DEF TablesOK
<1>2. CASE AddTransaction(h)
  <2>1. PICK t \in Times :
          created' = [g \in Stored \cup {h} |-> IF g = h THEN t ELSE created[g]]
    BY <1>2 DEF AddTransaction
  <2>2. h \notin Stored /\ parent' = parent /\ deletions' = deletions BY <1>2 DEF AddTransaction
  <2>3. Stored' = Stored \cup {h} /\ Linked' = Linked BY <2>1, <2>2 DEF Stored, Linked
  <2>4. IsFiniteSet(Stored') BY <1>1, <2>3, FS_AddElement
  <2>5. TablesTypeOK' BY <1>1, <2>1, <2>2, <2>3 DEF TablesTypeOK
  <2>6. LinksTyped' BY <1>1, <2>2, <2>3 DEF LinksTyped
  <2>7. TablesKept BY <2>1, <2>2, <2>3 DEF TablesKept
  <2> QED BY <2>4, <2>5, <2>6, <2>7 DEF TablesOK
<1>3. CASE AddLink(h)
  <2>1. PICK p \in Parents(h) :
          parent' = [g \in Linked \cup {h} |-> IF g = h THEN p ELSE parent[g]]
    BY <1>3 DEF AddLink
  <2>2. h \in Stored \ Linked /\ created' = created /\ deletions' = deletions
    BY <1>3 DEF AddLink
  <2>3. Stored' = Stored /\ Linked' = Linked \cup {h} BY <2>1, <2>2 DEF Stored, Linked
  <2>4. p \in Hashes \cup {Program} BY <1>1, <2>1 DEF Parents, TablesTypeOK
  <2>5. TablesTypeOK' BY <1>1, <2>1, <2>2, <2>3, <2>4 DEF TablesTypeOK
  <2>6. /\ h \in Runs => p = Program
        /\ h \in Proofs => p \in Runs \cap Stored
        /\ h \in Verifications => p \in Proofs \cap Stored
    BY <2>1, JobsAssumption DEF Parents
  <2>7. LinksTyped' BY <1>1, <2>1, <2>2, <2>3, <2>6 DEF LinksTyped
  <2>8. TablesKept BY <2>1, <2>2, <2>3 DEF TablesKept
  <2> QED BY <1>1, <2>3, <2>5, <2>7, <2>8 DEF TablesOK
<1> QED BY <1>2, <1>3

\* What is left of the tables is as it was; unless all links go, a link goes
\* with one of the two transactions that it links.
TablesCut ==
  /\ Stored' \subseteq Stored /\ Linked' \subseteq Linked
  /\ \A h \in Stored' : created'[h] = created[h]
  /\ \A h \in Linked' : parent'[h] = parent[h]
  /\ \/ Linked' = {}
     \/ \A h \in Linked \ Linked' : {h, parent[h]} \cap (Stored \ Stored') # {}

\* A transaction is deleted, or the program.
LEMMA TablesShrink ==
  ASSUME TablesOK, (\E h \in Hashes : DeleteTransaction(h)) \/ DeleteProgram
  PROVE  TablesOK' /\ TablesCut
<1>1. TablesTypeOK /\ LinksTyped /\ IsFiniteSet(Stored) BY DEF TablesOK
<1>2. ASSUME NEW rows \in SUBSET Stored, NEW links, Delete(rows, links),
             \A g \in Linked : g \in rows \/ parent[g] \in rows => g \in links,
             links = Linked \/ \A g \in links : g \in rows \/ parent[g] \in rows
      PROVE  TablesOK' /\ TablesCut
  <2>1. /\ created' = [g \in Stored \ rows |-> created[g]]
        /\ parent' = [g \in Linked \ links |-> parent[g]]
        /\ deletions < MaxDeletions /\ deletions' = deletions + 1
    BY <1>2 DEF Delete
  <2>2. Stored' = Stored \ rows /\ Linked' = Linked \ links BY <2>1 DEF Stored, Linked
  <2>3. IsFiniteSet(Stored') BY <1>1, <2>2, FS_Subset
  <2>4. Linked' \subseteq Stored' BY <1>1, <1>2, <2>2 DEF TablesTypeOK
  <2>5. deletions' \in 0 .. MaxDeletions
    BY <1>1, <2>1, JobsAssumption DEF TablesTypeOK
  <2>6. TablesTypeOK' BY <1>1, <2>1, <2>2, <2>4, <2>5 DEF TablesTypeOK
  <2>7. LinksTyped' BY <1>1, <1>2, <2>1, <2>2 DEF LinksTyped
  <2>8. TablesCut BY <1>2, <2>1, <2>2 DEF TablesCut
  <2> QED BY <2>3, <2>6, <2>7, <2>8 DEF TablesOK
<1>3. CASE \E h \in Hashes : DeleteTransaction(h)
  <2>1. PICK h \in Stored : Delete({h}, {g \in Linked : g = h \/ parent[g] = h})
    BY <1>3 DEF DeleteTransaction
  <2> QED BY <1>2, <2>1
<1>4. CASE DeleteProgram
  <2>1. Delete({}, Linked) BY <1>4 DEF DeleteProgram
  <2> QED BY <1>2, <2>1
<1> QED BY <1>3, <1>4

\* A step of the nodes does the one or the other.
LEMMA NodesChangeTables ==
  ASSUME TablesOK, Nodes
  PROVE  TablesOK' /\ (TablesKept \/ TablesCut)
BY TablesGrow, TablesShrink DEF Nodes

\* Of the transactions of a job, those that are not deleted stay in it.
LEMMA JobKept ==
  ASSUME TablesOK, TablesOK', TablesKept \/ TablesCut,
         NEW r \in Runs \cap Stored, NEW T \in SUBSET Related(r),
         Deleted \cap ({r} \cup T) = {}
  PROVE  /\ r \in Stored' /\ T \subseteq Related(r)'
         /\ \A h \in T : created'[h] = created[h]
<1>1. T \subseteq Stored /\ T \subseteq Stored' /\ r \in Stored'
  BY JobInTable DEF Deleted
<1>2. \A h \in T : created'[h] = created[h] BY <1>1 DEF TablesKept, TablesCut
<1>3. ASSUME NEW h \in T PROVE h \in Related(r)'
  <2>1. h \in Stored' BY <1>1
  <2>2. h \in Linked => h \in Linked' /\ parent'[h] = parent[h]
    BY DEF Deleted, TablesKept, TablesCut
  <2>3. CASE h = r BY <2>1, <2>3 DEF Related
  <2>4. CASE h \in ProofsOf(r) BY <2>2, <2>4 DEF Related, ProofsOf
  <2>5. CASE h \in VerificationsOf(r)
    <3>1. /\ h \in Verifications \cap Linked /\ h \in Linked' /\ parent'[h] = parent[h]
          /\ parent[h] \in Proofs \cap Linked /\ parent[parent[h]] = r
      BY <2>2, <2>5 DEF VerificationsOf, ProofsOf
    <3>2. parent[h] \in Stored' BY <3>1 DEF TablesOK, LinksTyped
    <3>3. parent[h] \in Linked' /\ parent'[parent[h]] = r
      BY <1>1, <3>1, <3>2 DEF TablesKept, TablesCut
    <3> QED BY <3>1, <3>3 DEF Related, VerificationsOf, ProofsOf
  <2> QED BY <2>3, <2>4, <2>5 DEF Related
<1> QED BY <1>1, <1>2, <1>3

------------------------------------------------------------------------------
(* The parts of a page. *)

\* The state of a job does not go back when transactions are added to it.
LEMMA StateGrows ==
  ASSUME NEW U, IsFiniteSet(U), NEW T \in SUBSET U
  PROVE  GetState(T) \in State /\ GetState(T) <= GetState(U)
<1> DEFINE p == Cardinality(T \cap Proofs)         q == Cardinality(U \cap Proofs)
           v == Cardinality(T \cap Verifications)  w == Cardinality(U \cap Verifications)
<1>1. IsFiniteSet(U \cap Proofs) /\ IsFiniteSet(U \cap Verifications) BY FS_Subset
<1>2. /\ T \cap Proofs \in SUBSET (U \cap Proofs)
      /\ T \cap Verifications \in SUBSET (U \cap Verifications)
  OBVIOUS
<1>3. IsFiniteSet(T \cap Proofs) /\ IsFiniteSet(T \cap Verifications) BY <1>1, <1>2, FS_Subset
<1>4. p \in Nat /\ q \in Nat /\ v \in Nat /\ w \in Nat BY <1>1, <1>3, FS_CardinalityType
<1>5. p <= q /\ v <= w BY <1>1, <1>2, FS_Subset
<1> HIDE DEF p, q, v, w
<1>6. StateOf(p, v) \in State /\ StateOf(p, v) <= StateOf(q, w)
  BY <1>4, <1>5
     DEF StateOf, State, StateUnknown, StateSubmitted, StateProving, StateVerifying, StateComplete
<1> QED BY <1>6 DEF GetState, p, q, v, w

\* The first and the last of some transactions are among them.
LEMMA FirstAndLast ==
  ASSUME TablesOK, NEW T \in SUBSET Stored, T # {}
  PROVE  LET times == {created[h] : h \in T}
         IN  /\ Min(times) \in times /\ Max(times) \in times /\ times \subseteq Times
             /\ \A t \in times : Min(times) <= t /\ t <= Max(times)
<1> DEFINE times == {created[h] : h \in T}
<1>1. times \subseteq Times /\ times # {} BY DEF TablesOK, TablesTypeOK
<1>2. MaxTime \in Nat BY JobsAssumption
<1> HIDE DEF times
<1>3. /\ times \in SUBSET Nat /\ times \in SUBSET Int /\ MaxTime \in Int
      /\ \A t \in times : t <= MaxTime
  BY <1>1, <1>2 DEF Times
<1>4. Min(times) \in times /\ \A t \in times : Min(times) <= t BY <1>1, <1>3, MinIsLeast
<1>5. Max(times) \in times /\ \A t \in times : t <= Max(times) BY <1>1, <1>3, MaxIsGreatest
<1> QED BY <1>1, <1>4, <1>5 DEF times

\* The duration of a job does not shrink when transactions are added to it.
LEMMA DurationGrows ==
  ASSUME TablesOK, NEW U \in SUBSET Stored, NEW T \in SUBSET U
  PROVE  JobDuration(T) \in Times /\ JobDuration(T) <= JobDuration(U)
<1> DEFINE P == {created[h] : h \in T}
           Q == {created[h] : h \in U}
<1>1. MaxTime \in Nat BY JobsAssumption
<1>2. CASE U = {}
  <2>1. T = {} BY <1>2
  <2> QED BY <1>1, <1>2, <2>1 DEF JobDuration, Times
<1>3. CASE U # {}
  <2>1. /\ Min(Q) \in Q /\ Max(Q) \in Q /\ Q \subseteq Times
        /\ \A t \in Q : Min(Q) <= t /\ t <= Max(Q)
    BY <1>3, FirstAndLast
  <2>2. JobDuration(U) = Max(Q) - Min(Q) BY <1>3 DEF JobDuration
  <2>3. CASE T = {}
    <3>1. JobDuration(T) = 0 BY <2>3 DEF JobDuration
    <3> HIDE DEF P, Q
    <3>2. Min(Q) \in 0 .. MaxTime /\ Max(Q) \in 0 .. MaxTime /\ Min(Q) <= Max(Q)
      BY <2>1 DEF Times
    <3> QED BY <1>1, <2>2, <3>1, <3>2 DEF Times
  <2>4. CASE T # {}
    <3>1. /\ Min(P) \in P /\ Max(P) \in P
          /\ \A t \in P : Min(P) <= t /\ t <= Max(P)
      BY <2>4, FirstAndLast
    <3>2. JobDuration(T) = Max(P) - Min(P) BY <2>4 DEF JobDuration
    <3>3. P \subseteq Q OBVIOUS
    <3> HIDE DEF P, Q
    <3>4. /\ Min(P) \in 0 .. MaxTime /\ Max(P) \in 0 .. MaxTime
          /\ Min(Q) \in 0 .. MaxTime /\ Max(Q) \in 0 .. MaxTime
          /\ Min(Q) <= Min(P) /\ Min(P) <= Max(P) /\ Max(P) <= Max(Q)
      BY <2>1, <3>1, <3>3 DEF Times
    <3> QED BY <1>1, <2>2, <3>2, <3>4 DEF Times
  <2> QED BY <2>3, <2>4
<1> QED BY <1>2, <1>3

\* Transactions that keep their times keep their duration.
LEMMA DurationKept ==
  ASSUME NEW T, \A h \in T : created'[h] = created[h]
  PROVE  JobDuration(T)' = JobDuration(T)
<1>1. {created[h] : h \in T}' = {created[h] : h \in T} OBVIOUS
<1> QED BY <1>1 DEF JobDuration

\* The log tells which transactions it was made of.
LEMMA LogTells ==
  ASSUME NEW T
  PROVE  {e.tx : e \in Log(T)} = T /\ \A U : T \subseteq U => Log(T) \subseteq Log(U)
<1>1. \A h \in T : [tx |-> h, state |-> StateFromKind(h)].tx = h OBVIOUS
<1> QED BY <1>1 DEF Log

------------------------------------------------------------------------------
(* The steps. *)

\* The locals of a reader that has not begun are well-formed.
LEMMA NothingHeld ==
  NoRows \in [txs : SUBSET Hashes, duration : Times] /\ IsFiniteSet(NoRows.txs)
<1>1. IsFiniteSet({}) BY FS_EmptySet
<1>2. 0 \in Times BY JobsAssumption DEF Times
<1> QED BY <1>1, <1>2 DEF NoRows

\* A reader that has returned holds nothing.
LEMMA ReturnOK ==
  ASSUME pc' = "idle", tx' = Program, root' = Program, related' = NoRows, lost' = FALSE
  PROVE  LocalsOK'
BY NothingHeld DEF LocalsOK, NoRows

\* The invariant holds initially.
LEMMA InitEstablishesInv == Init => Inv
<1> SUFFICES ASSUME Init PROVE Inv
  OBVIOUS
<1>1. Stored = {} /\ Linked = {} /\ deletions = 0 /\ MaxDeletions \in Nat /\ MaxTime \in Nat
  BY JobsAssumption DEF Init, TablesInit, Stored, Linked
<1>2. IsFiniteSet({}) BY FS_EmptySet
<1>3. TablesOK
  BY <1>1, <1>2 DEF TablesOK, TablesTypeOK, LinksTyped, Init, TablesInit
<1>4. LocalsOK BY NothingHeld DEF Init, LocalsOK
<1> QED BY <1>3, <1>4 DEF Init, Inv, ReaderKnows, PageKnown, NeverBehind

\* What the nodes add changes nothing that a reader holds or a page shows, and
\* what they delete is given up.
LEMMA NodesKeepInv ==
  ASSUME Inv, NodesStep
  PROVE  Inv'
<1>1. /\ TablesOK /\ Nodes
      /\ pc' = pc /\ tx' = tx /\ root' = root /\ related' = related
      /\ lost' = (lost \/ Deleted \cap ({tx, root} \cup related.txs) # {})
  BY DEF Inv, NodesStep, locals
<1>2. TablesOK' /\ (TablesKept \/ TablesCut) BY <1>1, NodesChangeTables
<1>3. LocalsOK' BY <1>1 DEF Inv, LocalsOK
<1>4. ReaderKnows'
  <2> SUFFICES ASSUME ~lost' PROVE ReaderKnows' BY DEF ReaderKnows
  <2>1. ~lost /\ Deleted \cap ({tx, root} \cup related.txs) = {} BY <1>1
  <2>2. pc # "idle" => tx \in Stored' BY <2>1 DEF Inv, ReaderKnows, Deleted
  <2>3. ASSUME pc \in {"txs", "prover"} PROVE root \in Stored' /\ tx \in Related(root)'
    <3>1. root \in Runs \cap Stored /\ {tx} \in SUBSET Related(root)
      BY <2>1, <2>3 DEF Inv, LocalsOK, ReaderKnows
    <3>2. Deleted \cap ({root} \cup {tx}) = {} BY <2>1
    <3> QED BY <1>1, <1>2, <3>1, <3>2, JobKept DEF Related, ProofsOf, VerificationsOf
  <2>4. ASSUME pc = "prover"
        PROVE  /\ related.txs \subseteq Related(root)'
               /\ related.duration = JobDuration(related.txs)'
    <3>1. /\ root \in Runs \cap Stored /\ related.txs \in SUBSET Related(root)
          /\ related.duration = JobDuration(related.txs)
      BY <2>1, <2>4 DEF Inv, LocalsOK, ReaderKnows
    <3>2. related.txs \subseteq Related(root)'
      BY <1>1, <1>2, <2>1, <3>1, JobKept DEF Related, ProofsOf, VerificationsOf
    <3>3. \A h \in related.txs : created'[h] = created[h]
      BY <1>1, <1>2, <2>1, <3>1, JobKept
    <3>4. JobDuration(related.txs)' = JobDuration(related.txs)
      BY <1>1, <3>3, DurationKept DEF JobDuration
    <3> QED BY <3>1, <3>2, <3>4
  <2> QED BY <1>1, <2>1, <2>2, <2>3, <2>4 DEF Inv, ReaderKnows
<1>5. PageKnown'
  <2> SUFFICES ASSUME page' # NoPage PROVE PageKnown' BY DEF PageKnown
  <2>1. page' = page /\ page # NoPage /\ Deleted \cap ({page.root} \cup Shown) = {}
    BY DEF NodesStep
  <2>2. Shown' = Shown BY <2>1 DEF Shown
  <2>3. /\ page.root \in Runs \cap Stored /\ Shown \in SUBSET Related(page.root)
        /\ page.state = GetState(Shown) /\ page.duration = JobDuration(Shown)
        /\ page.log = Log(Shown)
    BY <2>1 DEF Inv, PageKnown
  <2>4. page.root \in Stored' /\ Shown \subseteq Related(page.root)'
    BY <1>1, <1>2, <2>1, <2>3, JobKept DEF Related, ProofsOf, VerificationsOf
  <2>5. \A h \in Shown : created'[h] = created[h] BY <1>1, <1>2, <2>1, <2>3, JobKept
  <2>6. JobDuration(Shown)' = JobDuration(Shown)
    BY <2>2, <2>5, DurationKept DEF JobDuration
  <2>7. GetState(Shown)' = GetState(Shown) /\ Log(Shown)' = Log(Shown)
    BY <2>2 DEF GetState, Log, StateFromKind
  <2> QED BY <2>1, <2>2, <2>3, <2>4, <2>6, <2>7 DEF PageKnown
<1>6. NeverBehind'
  <2> SUFFICES ASSUME page' # NoPage PROVE NeverBehind' BY DEF NeverBehind
  <2>1. page' = page /\ page # NoPage BY DEF NodesStep
  <2>2. Shown' = Shown BY <2>1 DEF Shown
  <2> QED BY <1>1, <2>1, <2>2 DEF Inv, NeverBehind
<1> QED BY <1>2, <1>3, <1>4, <1>5, <1>6 DEF Inv

\* What a query does not change keeps its part of the invariant.
LEMMA QueryKeeps ==
  ASSUME Inv, UNCHANGED tables
  PROVE  /\ TablesOK' /\ \A r : Related(r)' = Related(r) /\ \A T : JobDuration(T)' = JobDuration(T)
         /\ Stored' = Stored
         /\ UNCHANGED page => PageKnown' /\ Shown' = Shown
<1>1. created' = created /\ parent' = parent /\ deletions' = deletions BY DEF tables
<1>2. Stored' = Stored /\ Linked' = Linked BY <1>1 DEF Stored, Linked
<1>3. TablesOK' BY <1>1, <1>2 DEF Inv, TablesOK, TablesTypeOK, LinksTyped
<1>4. \A r : Related(r)' = Related(r) BY <1>1, <1>2 DEF Related, ProofsOf, VerificationsOf
<1>5. \A T : JobDuration(T)' = JobDuration(T) BY <1>1 DEF JobDuration
<1>6. ASSUME page' = page PROVE PageKnown' /\ Shown' = Shown
  <2>1. Shown' = Shown BY <1>6 DEF Shown
  <2>2. /\ Related(page.root)' = Related(page.root) /\ JobDuration(Shown)' = JobDuration(Shown)
        /\ GetState(Shown)' = GetState(Shown) /\ Log(Shown)' = Log(Shown)
    BY <1>1, <1>2, <1>6, <2>1
       DEF Related, ProofsOf, VerificationsOf, JobDuration, GetState, Log, StateFromKind
  <2> QED BY <1>2, <1>6, <2>1, <2>2 DEF Inv, PageKnown
<1> QED BY <1>2, <1>3, <1>4, <1>5, <1>6

\* The queries before the last keep the tables and the page.
LEMMA QueriesKeepInv ==
  ASSUME Inv, (\E h \in Hashes : FetchTx(h)) \/ FetchParent \/ FetchTxs \/ TxNotFound
  PROVE  Inv'
<1>1. UNCHANGED tables /\ UNCHANGED page BY DEF FetchTx, FetchParent, FetchTxs, TxNotFound
<1>2. /\ TablesOK' /\ Stored' = Stored /\ Shown' = Shown /\ PageKnown' /\ page' = page
      /\ created' = created /\ parent' = parent
  BY <1>1, QueryKeeps DEF tables
<1>3. TablesOK /\ LinksTyped BY DEF Inv, TablesOK
<1>4. CASE \E h \in Hashes : FetchTx(h)
  <2>1. PICK h \in Hashes :
          /\ h \in Stored /\ tx' = h /\ related' = related /\ lost' = lost
          /\ IF h \in Runs THEN pc' = "txs" /\ root' = h ELSE pc' = "parent" /\ root' = root
    BY <1>4 DEF FetchTx
  <2>2. LocalsOK' BY <2>1 DEF Inv, LocalsOK
  <2>3. ReaderKnows' BY <1>2, <2>1 DEF ReaderKnows, Related
  <2>4. NeverBehind' BY <2>1 DEF NeverBehind
  <2> QED BY <1>2, <2>2, <2>3, <2>4 DEF Inv
<1>5. CASE FetchParent
  <2>1. /\ pc = "parent" /\ HasRoot(tx)
        /\ pc' = "txs" /\ tx' = tx /\ root' = RootOf(tx)
        /\ related' = related /\ lost' = lost
    BY <1>5 DEF FetchParent
  <2>2. tx \in Hashes /\ tx \notin Runs BY <2>1 DEF Inv, LocalsOK
  <2>3. RootOf(tx) \in Runs \cap Stored /\ tx \in Related(RootOf(tx))
    BY <1>3, <2>1, <2>2, JobsAssumption
       DEF LinksTyped, HasRoot, RootOf, Hashes, Related, ProofsOf, VerificationsOf
  <2>4. LocalsOK' BY <2>1, <2>2, <2>3 DEF Inv, LocalsOK
  <2>5. Related(root)' = Related(RootOf(tx))
    BY <1>2, <2>1 DEF Related, ProofsOf, VerificationsOf, Stored, Linked
  <2>6. ReaderKnows' BY <1>2, <2>1, <2>3, <2>5 DEF Inv, ReaderKnows
  <2>7. NeverBehind' BY <2>1 DEF NeverBehind
  <2> QED BY <1>2, <2>4, <2>6, <2>7 DEF Inv
<1>6. CASE FetchTxs
  <2> DEFINE T == Related(root)
  <2>1. /\ pc = "txs" /\ pc' = "prover" /\ tx' = tx /\ root' = root /\ lost' = lost
        /\ related' = [txs |-> T, duration |-> JobDuration(T)]
    BY <1>6 DEF FetchTxs
  <2>2. T \in SUBSET Stored /\ T \in SUBSET Hashes /\ IsFiniteSet(T) BY <1>3, JobInTable
  <2>3. Related(root)' = T
    BY <1>2, <2>1 DEF Related, ProofsOf, VerificationsOf, Stored, Linked
  <2>4. JobDuration(T) \in Times BY <1>3, <2>2, DurationGrows
  <2>5. JobDuration(related.txs)' = JobDuration(T)
    BY <1>2, <2>1 DEF JobDuration
  <2>6. page # NoPage /\ root = page.root =>
        Shown \in SUBSET T /\ page.duration = JobDuration(Shown)
    BY DEF Inv, PageKnown
  <2> HIDE DEF T
  <2>7. LocalsOK' BY <2>1, <2>2, <2>4 DEF Inv, LocalsOK
  <2>8. ReaderKnows'
    <3> SUFFICES ASSUME ~lost' PROVE ReaderKnows' BY DEF ReaderKnows
    <3>1. tx \in Stored /\ root \in Stored /\ tx \in T BY <2>1 DEF Inv, ReaderKnows, T
    <3> QED BY <1>2, <2>1, <2>3, <2>5, <3>1 DEF ReaderKnows
  <2>9. NeverBehind'
    <3> SUFFICES ASSUME page # NoPage, root = page.root
                 PROVE  Shown \subseteq T /\ page.duration <= JobDuration(T)
      BY <1>2, <2>1 DEF NeverBehind
    <3> QED BY <1>3, <2>2, <2>6, DurationGrows
  <2> QED BY <1>2, <2>7, <2>8, <2>9 DEF Inv
<1>7. CASE TxNotFound
  <2>1. /\ pc' = "idle" /\ tx' = Program /\ root' = Program /\ related' = NoRows
        /\ lost' = FALSE
    BY <1>7 DEF TxNotFound, Return
  <2> QED BY <1>2, <2>1, ReturnOK DEF Inv, ReaderKnows, NeverBehind
<1> QED BY <1>4, <1>5, <1>6, <1>7

\* The page is made of what the queries returned.
LEMMA FetchProverKeepsInv ==
  ASSUME Inv, FetchProver
  PROVE  Inv'
<1>1. /\ pc = "prover" /\ UNCHANGED tables
      /\ page' = IF lost THEN page ELSE PageMade
      /\ pc' = "idle" /\ tx' = Program /\ root' = Program /\ related' = NoRows
      /\ lost' = FALSE
  BY DEF FetchProver, Return
<1>2. /\ TablesOK' /\ Stored' = Stored
      /\ \A r : Related(r)' = Related(r) /\ \A T : JobDuration(T)' = JobDuration(T)
      /\ page' = page => PageKnown'
  BY <1>1, QueryKeeps
<1>3. LocalsOK' /\ ReaderKnows' /\ NeverBehind' BY <1>1, ReturnOK DEF ReaderKnows, NeverBehind
<1>4. PageKnown'
  <2>1. CASE lost BY <1>1, <1>2, <2>1
  <2>2. CASE ~lost
    <3> DEFINE T == related.txs
    <3>1. /\ root \in Runs \cap Stored /\ T \subseteq Related(root)
          /\ related.duration = JobDuration(T)
      BY <1>1, <2>2 DEF Inv, LocalsOK, ReaderKnows
    <3>2. /\ page'.root = root /\ page'.state = GetState(T) /\ page'.duration = JobDuration(T)
          /\ page'.log = Log(T)
      BY <1>1, <2>2, <3>1 DEF PageMade
    <3>3. Shown' = T BY <3>2, LogTells DEF Shown
    <3> HIDE DEF T
    <3>4. Related(page.root)' = Related(root)
      BY <1>1, <3>2 DEF tables, Related, ProofsOf, VerificationsOf, Stored, Linked
    <3>5. /\ JobDuration(Shown)' = JobDuration(T) /\ GetState(Shown)' = GetState(T)
          /\ Log(Shown)' = Log(T)
      BY <1>1, <3>3 DEF tables, JobDuration, GetState, Log, StateFromKind
    <3> QED BY <1>2, <3>1, <3>2, <3>3, <3>4, <3>5 DEF PageKnown
  <2> QED BY <2>1, <2>2
<1> QED BY <1>2, <1>3, <1>4 DEF Inv

\* Every step keeps the invariant.
LEMMA NextKeepsInv == Inv /\ [Next]_vars => Inv'
<1> SUFFICES ASSUME Inv, [Next]_vars PROVE Inv'
  OBVIOUS
<1>1. CASE Next
  BY <1>1, NodesKeepInv, QueriesKeepInv, FetchProverKeepsInv DEF Next
<1>2. CASE UNCHANGED vars
  <2>1. UNCHANGED tables /\ page' = page /\ lost' = lost
        /\ pc' = pc /\ tx' = tx /\ root' = root /\ related' = related
    BY <1>2 DEF vars, locals
  <2>2. /\ TablesOK' /\ Stored' = Stored /\ PageKnown' /\ Shown' = Shown
        /\ created' = created /\ parent' = parent
    BY <2>1, QueryKeeps DEF tables
  <2>3. Related(root)' = Related(root) /\ JobDuration(related.txs)' = JobDuration(related.txs)
    BY <2>1, <2>2 DEF Related, ProofsOf, VerificationsOf, Stored, Linked, JobDuration
  <2> QED BY <2>1, <2>2, <2>3 DEF Inv, LocalsOK, ReaderKnows, NeverBehind
<1> QED BY <1>1, <1>2

\* The invariant holds in every state.
THEOREM Invariance == Spec => []Inv
BY InitEstablishesInv, NextKeepsInv, PTL DEF Spec

------------------------------------------------------------------------------
(* What follows. *)

\* The tables, what TxInfo holds and what it shows are well-formed.
THEOREM TypeCorrect == Spec => []TypeOK
<1>1. Inv => TypeOK
  <2> SUFFICES ASSUME Inv PROVE TypeOK
    OBVIOUS
  <2>1. TablesOK /\ TablesTypeOK /\ LocalsOK BY DEF Inv, TablesOK
  <2>2. ASSUME page # NoPage
        PROVE  /\ page.root \in Runs /\ page.state \in State /\ page.duration \in Times
               /\ page.log \subseteq LogEntry
    <3>1. /\ page.root \in Runs /\ Shown \in SUBSET Related(page.root)
          /\ page.state = GetState(Shown) /\ page.duration = JobDuration(Shown)
          /\ page.log = Log(Shown)
      BY <2>2 DEF Inv, PageKnown
    <3>2. Shown \in SUBSET Stored /\ Shown \in SUBSET Hashes /\ IsFiniteSet(Shown)
      BY <2>1, <3>1, JobInTable, FS_Subset
    <3>3. page.state \in State BY <3>1, <3>2, StateGrows
    <3>4. page.duration \in Times BY <2>1, <3>1, <3>2, DurationGrows
    <3>5. Log(Shown) \subseteq LogEntry
      BY <3>2 DEF Log, LogEntry, StateFromKind, State, StateUnknown, StateSubmitted, StateProving,
                  StateVerifying, StateComplete
    <3> QED BY <3>1, <3>3, <3>4, <3>5
  <2> QED BY <2>1, <2>2 DEF TypeOK, LocalsOK
<1> QED BY <1>1, Invariance, PTL

\* A page shows the transaction that it was asked for.
THEOREM PageAlwaysShowsTx == Spec => []PageShowsTx
<1>1. Inv => PageShowsTx BY DEF Inv, ReaderKnows, PageShowsTx
<1> QED BY <1>1, Invariance, PTL

\* Reloading the page of a job never shows less of it.
THEOREM PagesNeverGoBack == Spec => []PagesNeverRegress
<1>1. Inv => PagesNeverRegress
  <2> SUFFICES ASSUME Inv, pc = "prover", page # NoPage, page.root = root
               PROVE  /\ page.state <= PageMade.state /\ page.duration <= PageMade.duration
                      /\ page.log \subseteq PageMade.log
    BY DEF PagesNeverRegress
  <2>1. /\ Shown \in SUBSET related.txs /\ page.duration <= related.duration
        /\ IsFiniteSet(related.txs) /\ page.state = GetState(Shown) /\ page.log = Log(Shown)
    BY DEF Inv, NeverBehind, LocalsOK, PageKnown
  <2>2. GetState(Shown) <= GetState(related.txs) BY <2>1, StateGrows
  <2>3. Log(Shown) \subseteq Log(related.txs) BY <2>1, LogTells
  <2> QED BY <2>1, <2>2, <2>3 DEF PageMade
<1> QED BY <1>1, Invariance, PTL

\* The verifications of a job are of its proofs, and both are counted.
LEMMA JobCounts ==
  ASSUME Inv, NEW r \in Runs
  PROVE  /\ Cardinality(ProofsOf(r)) \in Nat /\ Cardinality(VerificationsOf(r)) \in Nat
         /\ Cardinality(ProofsOf(r)) = 0 <=> ProofsOf(r) = {}
         /\ Cardinality(VerificationsOf(r)) = 0 <=> VerificationsOf(r) = {}
         /\ ProofsOf(r) = {} => VerificationsOf(r) = {}
<1>1. ProofsOf(r) \in SUBSET Stored /\ VerificationsOf(r) \in SUBSET Stored
  BY DEF Inv, TablesOK, TablesTypeOK, ProofsOf, VerificationsOf
<1>2. IsFiniteSet(ProofsOf(r)) /\ IsFiniteSet(VerificationsOf(r))
  BY <1>1, FS_Subset DEF Inv, TablesOK
<1>3. ProofsOf(r) = {} => VerificationsOf(r) = {} BY DEF VerificationsOf
<1> QED BY <1>2, <1>3, FS_CardinalityType, FS_EmptySet

\* The CASE of the SQL query and getState agree on runs and verifications, and
\* on proofs exactly where SearchAgrees says.
THEOREM SearchAlwaysAgrees == Spec => []SearchAgrees
<1>1. Inv => SearchAgrees
  <2> SUFFICES ASSUME Inv, NEW h \in Stored, h \in Runs \/ HasRoot(h)
               PROVE  LET job   == IF h \in Runs THEN h ELSE RootOf(h)
                          state == GetState(Related(job))
                      IN  /\ h \notin Proofs => RowState(h) = {state}
                          /\ h \in Proofs => ( RowState(h) = {state} <=>
                               (Cardinality(ProofsOf(job)) = 1 <=> state = StateProving) )
                          /\ \A s \in RowState(h) : s <= state
    BY DEF SearchAgrees
  <2> DEFINE job == IF h \in Runs THEN h ELSE RootOf(h)
             p == Cardinality(ProofsOf(job))
             v == Cardinality(VerificationsOf(job))
  <2>1. /\ job \in Runs
        /\ h \in Proofs => h \in ProofsOf(job)
        /\ h \notin Runs /\ h \notin Proofs => h \in VerificationsOf(job)
    BY JobsAssumption
       DEF Inv, TablesOK, TablesTypeOK, Hashes, LinksTyped, HasRoot, RootOf, ProofsOf,
           VerificationsOf
  <2>2. GetState(Related(job)) = StateOf(p, v) BY <2>1, JobByKind DEF GetState
  <2>3. /\ p \in Nat /\ v \in Nat /\ (p = 0 => v = 0)
        /\ p = 0 <=> ProofsOf(job) = {}
        /\ v = 0 <=> VerificationsOf(job) = {}
        /\ h \in Proofs => p # 0
        /\ h \notin Runs /\ h \notin Proofs => v # 0
    <3> HIDE DEF job
    <3> QED BY <2>1, JobCounts
  <2>4. CASE h \in Runs
    <3>1. RowState(h) = IF p = 0 THEN {StateSubmitted}
                        ELSE IF v = 0 THEN {StateProving} ELSE Case(v)
      BY <2>3, <2>4 DEF RowState
    <3>2. h \notin Proofs BY <2>4, JobsAssumption
    <3> HIDE DEF p, v
    <3>3. RowState(h) = {StateOf(p, v)} /\ StateOf(p, v) \in Nat
      BY <2>3, <3>1
         DEF Case, StateOf, StateSubmitted, StateProving, StateVerifying, StateComplete
    <3> QED BY <2>2, <3>2, <3>3
  <2>5. CASE h \in Proofs
    <3>1. RowState(h) = IF p = 1 THEN {StateProving} ELSE Case(v)
      BY <2>1, <2>5, JobsAssumption DEF RowState
    <3> HIDE DEF p, v
    <3>2. /\ RowState(h) = {StateOf(p, v)} <=> (p = 1 <=> StateOf(p, v) = StateProving)
          /\ \A s \in RowState(h) : s <= StateOf(p, v)
      BY <2>3, <2>5, <3>1
         DEF Case, StateOf, StateSubmitted, StateProving, StateVerifying, StateComplete
    <3> QED BY <2>2, <2>5, <3>2 DEF p
  <2>6. CASE h \notin Runs /\ h \notin Proofs
    <3>1. RowState(h) = Case(v) BY <2>6 DEF RowState
    <3> HIDE DEF p, v
    <3>2. RowState(h) = {StateOf(p, v)} /\ StateOf(p, v) \in Nat
      BY <2>3, <2>6, <3>1
         DEF Case, StateOf, StateSubmitted, StateProving, StateVerifying, StateComplete
    <3> QED BY <2>2, <2>6, <3>2
  <2> HIDE DEF job
  <2> QED BY <2>4, <2>5, <2>6 DEF job
<1> QED BY <1>1, Invariance, PTL

\* A run is always found.
THEOREM RunsAreFound == Spec => []RunFound
<1>1. Inv => RunFound
  <2> SUFFICES ASSUME Inv, NEW r \in Runs \cap Linked
               PROVE  Newest(Matching(r)) = {{r}} /\ ~Fails(r, {r})
    BY DEF RunFound
  <2>1. r # Program /\ r \in Stored
    BY JobsAssumption DEF Hashes, Inv, TablesOK, TablesTypeOK
  <2>2. Matching(r) = {r} BY <2>1 DEF Matching
  <2>3. Newest({r}) = {{r}}
    <3>1. Cardinality({}) = 0 /\ Cardinality({r}) = 1 BY FS_EmptySet, FS_Singleton
    <3>2. Min({Limit, 1}) = 1
      <4>1. {Limit, 1} \in SUBSET Nat /\ {Limit, 1} # {} BY LimitAssumption
      <4>2. Min({Limit, 1}) \in {Limit, 1} /\ Min({Limit, 1}) <= 1 BY <4>1, MinIsLeast
      <4> QED BY <4>2, LimitAssumption
    <3>3. SUBSET {r} = {{}, {r}} OBVIOUS
    <3>4. {r} \ {r} = {} OBVIOUS
    <3> QED BY <3>1, <3>2, <3>3, <3>4 DEF Newest
  <2>4. RowState(r) # {}
    <3>1. /\ Cardinality(VerificationsOf(r)) \in Nat
          /\ Cardinality(VerificationsOf(r)) = 0 <=> VerificationsOf(r) = {}
      BY JobCounts
    <3>2. VerificationsOf(r) # {} => Case(Cardinality(VerificationsOf(r))) # {} BY <3>1 DEF Case
    <3> QED BY <3>2 DEF RowState
  <2> QED BY <2>2, <2>3, <2>4 DEF Fails, HasTag
<1> QED BY <1>1, Invariance, PTL

==============================================================================
