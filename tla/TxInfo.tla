------------------------------- MODULE TxInfo -------------------------------
(***************************************************************************)
(* Store.TxInfo, the page about the job of a transaction: up to four       *)
(* queries with no transaction around them, while the nodes change the     *)
(* tables.                                                                 *)
(***************************************************************************)
EXTENDS Jobs, FiniteSetsExt

CONSTANT NoPage

VARIABLES
  pc,        \* where TxInfo is
  tx,        \* the transaction it was asked for
  root,      \* txHash: the run of its job
  related,   \* what fetchTxsQuery returned: the transactions and their duration
  lost,      \* history: something that TxInfo has read has been deleted
  page       \* history: the last page made, as long as all of it is there

NoRows == [txs |-> {}, duration |-> 0]

locals == <<pc, tx, root, related>>
vars   == <<tables, locals, lost, page>>

Init ==
  /\ TablesInit
  /\ pc = "idle" /\ tx = Program /\ root = Program /\ related = NoRows
  /\ lost = FALSE /\ page = NoPage

\* The locals of TxInfo go.
Return == pc' = "idle" /\ tx' = Program /\ root' = Program /\ related' = NoRows /\ lost' = FALSE

\* What is deleted in a step of the nodes.
Deleted == (Stored \ Stored') \cup (Linked \ Linked')

Shown == {e.tx : e \in page.log}

NodesStep ==
  /\ Nodes
  /\ lost' = (lost \/ Deleted \cap ({tx, root} \cup related.txs) # {})
  /\ page' = IF page # NoPage /\ Deleted \cap ({page.root} \cup Shown) # {} THEN NoPage ELSE page
  /\ UNCHANGED locals

------------------------------------------------------------------------------
(* What the page shows of a set of transactions. *)

StateFromKind(h) == CASE h \in Runs   -> StateSubmitted
                      [] h \in Proofs -> StateProving
                      [] OTHER        -> StateVerifying

\* txLogEventsFromTxs: one entry for each transaction.  The range variable of
\* the last loop is a copy, so that what it assigns is lost; no entry ever has
\* StateComplete, so that all name their author as a node.
Log(T) == {[tx |-> h, state |-> StateFromKind(h)] : h \in T}

\* getJobDuration: from the first transaction to the last; zero without any.
JobDuration(T) ==
  LET times == {created[h] : h \in T}
  IN  IF T = {} THEN 0 ELSE Max(times) - Min(times)

------------------------------------------------------------------------------
(* TxInfo: up to four queries, and no transaction around them. *)

\* fetchTxQuery; a missing row is an error.  A run is its own root.
FetchTx(h) ==
  /\ pc = "idle"
  /\ h \in Stored
  /\ tx' = h
  /\ IF h \in Runs THEN pc' = "txs" /\ root' = h
                   ELSE pc' = "parent" /\ UNCHANGED root
  /\ UNCHANGED <<tables, related, lost, page>>

\* fetchProofParent reads table proof, fetchVerificationParent joins it.
FetchParent ==
  /\ pc = "parent"
  /\ HasRoot(tx)
  /\ root' = RootOf(tx)
  /\ pc' = "txs"
  /\ UNCHANGED <<tables, tx, related, lost, page>>

\* fetchTxsQuery
FetchTxs ==
  /\ pc = "txs"
  /\ related' = [txs |-> Related(root), duration |-> JobDuration(Related(root))]
  /\ pc' = "prover"
  /\ UNCHANGED <<tables, tx, root, lost, page>>

\* What is rendered of what the queries returned.
PageMade == [root |-> root, state |-> GetState(related.txs),
             duration |-> related.duration, log |-> Log(related.txs)]

\* findProverProgramHashQuery, which takes the program of any of the run's
\* workflow steps (not shown here), and the page.
FetchProver ==
  /\ pc = "prover"
  /\ root \in Linked
  /\ page' = IF lost THEN page ELSE PageMade
  /\ Return
  /\ UNCHANGED tables

\* A row that is not there is an error, as is any query that fails, and
\* the answer is "tx not found".
TxNotFound ==
  /\ pc # "idle"
  /\ Return
  /\ UNCHANGED <<tables, page>>

------------------------------------------------------------------------------

Next ==
  \/ NodesStep
  \/ (\E h \in Hashes : FetchTx(h)) \/ FetchParent \/ FetchTxs \/ FetchProver
  \/ TxNotFound

Spec == Init /\ [][Next]_vars

------------------------------------------------------------------------------

LogEntry == [tx : Hashes, state : State]

TypeOK ==
  /\ TablesTypeOK
  /\ pc \in {"idle", "parent", "txs", "prover"}
  /\ tx \in Hashes \cup {Program} /\ root \in Runs \cup {Program}
  /\ related \in [txs : SUBSET Hashes, duration : Times]
  /\ page # NoPage => /\ page.root \in Runs /\ page.state \in State
                      /\ page.duration \in Times /\ page.log \subseteq LogEntry
  /\ lost \in BOOLEAN

\* The page about to be made for a transaction shows that transaction, although
\* the queries that lead to its run and back see the tables at different times,
\* unless something of the job has been deleted meanwhile.
PageShowsTx == pc = "prover" /\ ~lost => tx \in related.txs

\* The page about to be made of a job never shows an earlier state or a shorter
\* duration than the last one, and never misses an entry of its log, unless
\* something that it showed has been deleted.
PagesNeverRegress ==
  pc = "prover" /\ page # NoPage /\ page.root = root =>
    /\ page.state <= PageMade.state /\ page.duration <= PageMade.duration
    /\ page.log \subseteq PageMade.log

==============================================================================
