------------------------------ MODULE JobTable ------------------------------
(***************************************************************************)
(* The table of jobs in PostgreSQL as db.mjs uses it: rows are leased to a *)
(* coordinator for 30 seconds and acknowledged by it.  Time is not         *)
(* counted: a lease that is running may run out at any moment.             *)
(***************************************************************************)
EXTENDS Naturals, FiniteSets

CONSTANTS Jobs, Coordinators, NoOne,
          RowPriority,   \* the column "priority" of a job's row
          FetchLimit     \* LIMIT $2

(* What the module takes of its constants; the module that instantiates it *)
(* assumes it.                                                             *)
JobTableConstants ==
  /\ IsFiniteSet(Jobs)
  /\ NoOne \notin Coordinators
  /\ RowPriority \in [Jobs -> Nat]
  /\ FetchLimit \in Nat \ {0}

VARIABLE row    \* the row of each job; status is 0, 1 or 2 as in the table

Row == [status : 0 .. 2, holder : Coordinators \cup {NoOne}, expired : BOOLEAN]

TableTypeOK == row \in [Jobs -> Row]

(* The rows of the jobs in "open" wait; the others are done already.       *)
TableInit(open) ==
  row = [j \in Jobs |-> [status  |-> IF j \in open THEN 0 ELSE 2,
                         holder  |-> NoOne,
                         expired |-> FALSE]]

Fetchable ==
  {j \in Jobs : row[j].status = 0 \/ (row[j].status = 1 /\ row[j].expired)}

(* ORDER BY priority DESC ... LIMIT: what a fetch may return.              *)
FetchResults ==
  {S \in SUBSET Fetchable :
     /\ Cardinality(S) <= FetchLimit
     /\ S = Fetchable \/ Cardinality(S) = FetchLimit
     /\ \A j \in S, k \in Fetchable \ S : RowPriority[j] >= RowPriority[k]}

(* The update of claimed_jobs: one statement, so one step.                 *)
Claim(c, S) ==
  row' = [j \in Jobs |-> IF j \in S THEN [status |-> 1, holder |-> c, expired |-> FALSE]
                                    ELSE row[j]]

(* A slip: AND assigned_coordinator = $2 is missing.                       *)
AcknowledgeableByAnyone(c, j) == row[j].status = 1

(* acknowledgeJobs() passes over rows it may not acknowledge, and does not *)
(* tell its caller.                                                        *)
Acknowledgeable(c, j) == row[j].status = 1 /\ row[j].holder = c

Acknowledge(c, S) ==
  row' = [j \in Jobs |->
            IF j \in S /\ Acknowledgeable(c, j)
            THEN [status |-> 2, holder |-> row[j].holder, expired |-> row[j].expired]
            ELSE row[j]]

LeaseRunsOut(j) ==
  /\ row[j].status = 1 /\ ~row[j].expired
  /\ row' = [row EXCEPT ![j].expired = TRUE]

=============================================================================
