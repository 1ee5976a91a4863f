------------------------------- MODULE Search -------------------------------
(***************************************************************************)
(* Store.Search, one SQL query over the tables of module Jobs: what it may *)
(* answer in any state of the tables.  It computes the state of a job by a *)
(* CASE of its own, where TxInfo uses getState.  The properties are stated *)
(* of module TxInfo's behaviours, whose nodes fill the tables.             *)
(***************************************************************************)
EXTENDS TxInfo

CONSTANT Limit   \* how many rows Search returns (50)

ASSUME LimitAssumption == Limit \in Nat \ {0}

------------------------------------------------------------------------------
(* The query. *)

\* Faulty variant: the branch for two verifications is missing.
CaseGap(verifications) ==
  IF verifications = 1 THEN {StateVerifying}
  ELSE IF verifications > 2 THEN {StateComplete} ELSE {}

\* The branches of the CASE that count verifications.
Case(verifications) ==
  IF verifications \in 1 .. 2 THEN {StateVerifying}
  ELSE IF verifications > 2 THEN {StateComplete} ELSE {}

\* The CASE of Search; a set without an element is NULL.
RowState(h) ==
  IF h \in Runs THEN
    IF ProofsOf(h) = {} THEN {StateSubmitted}
    ELSE IF VerificationsOf(h) = {} THEN {StateProving}
    ELSE Case(Cardinality(VerificationsOf(h)))
  ELSE IF ~HasRoot(h) THEN {}
  ELSE LET job == RootOf(h) IN
    IF h \in Proofs /\ Cardinality(ProofsOf(job)) = 1 THEN {StateProving}
    ELSE Case(Cardinality(VerificationsOf(job)))

\* What table t2 selects from: the transaction with the hash searched for, or
\* the runs, proofs and verifications of the program searched for.
Matching(f) ==
  IF f = Program THEN {h \in Linked : HasRoot(h)} ELSE {f} \cap Stored

\* ORDER BY created_at DESC LIMIT 50: what T may be cut to, of transactions of
\* the same time any.
Newest(T) ==
  {S \in SUBSET T : /\ Cardinality(S) = Min({Limit, Cardinality(T)})
                    /\ \A h \in S, g \in T \ S : created[g] <= created[h]}

\* The subqueries for tag and prover_id find the program by the hash searched
\* for, or by the workflow step of a run among the rows; else they are NULL.
HasTag(f, rows) == f = Program \/ \E h \in rows : h \in Runs \cap Linked

\* Scan fails on a NULL in any row, and Search with it.
Fails(f, rows) == rows # {} /\ (~HasTag(f, rows) \/ \E h \in rows : RowState(h) = {})

\* What the page may show for a search: its rows, in no particular order, as
\* they are joined with table transaction once more and nothing orders the
\* result.  A failure is shown as no rows.
Answers(f) == {IF Fails(f, rows) THEN {} ELSE rows : rows \in Newest(Matching(f))}

------------------------------------------------------------------------------

\* The state that Search computes in SQL for a run or a verification is the one
\* that TxInfo computes in Go for its job, at every stage of every job.  For a
\* proof it is so exactly as long as a single proof is not verified, or several
\* have a verification: a single proof stays at Proving, and several proofs
\* without a verification have no state.  No row is ahead of its job.
SearchAgrees ==
  \A h \in Stored : h \in Runs \/ HasRoot(h) =>
    LET job   == IF h \in Runs THEN h ELSE RootOf(h)
        state == GetState(Related(job))
    IN  /\ h \notin Proofs => RowState(h) = {state}
        /\ h \in Proofs => ( RowState(h) = {state} <=>
                             (Cardinality(ProofsOf(job)) = 1 <=> state = StateProving) )
        /\ \A s \in RowState(h) : s <= state

\* A search for a run that has its workflow step finds it, whatever the state
\* of its job and whatever of the job has been deleted.
RunFound ==
  \A r \in Runs \cap Linked : Newest(Matching(r)) = {{r}} /\ ~Fails(r, {r})

\* A search returns the most recent matching events, when every transaction has
\* the row it needs.
SearchAnswered ==
  Linked = Stored =>
    \A f \in Stored \cup {Program} : Answers(f) \subseteq Newest(Matching(f))

==============================================================================
