------------------------------- MODULE Budget -------------------------------
(***************************************************************************)
(* Is the correlated randomness that SystemConfig deals enough, and are    *)
(* all databases that can be set up also answered?  The states are the     *)
(* configurations of a deployment: every pair of database dimensions that  *)
(* PRCDatabase::from_seed accepts, up to 2^MaxBits rows of 2^MaxBits bits, *)
(* and a number of queries.                                                *)
(***************************************************************************)
EXTENDS QueryPlan

CONSTANT MaxQueries   \* bound on the number of queries dealt for

ASSUME BudgetAssumption == MaxQueries \in Nat \ {0}

VARIABLES l1, l2, n

bvars == <<l1, l2, n>>

BudgetInit == l1 = 3 /\ l2 = 3 /\ n = 1

\* The next larger or smaller dimension that the assertions of from_seed
\* allow: powers of two, l1 at least eight bits and at least l2.
WidenL1 == l1 < MaxBits /\ l1' = l1 + 1 /\ UNCHANGED <<l2, n>>
WidenL2 == l2 < l1 /\ l2' = l2 + 1 /\ UNCHANGED <<l1, n>>
NarrowL2 == l2 > 0 /\ l2' = l2 - 1 /\ UNCHANGED <<l1, n>>
MoreQueries == n < MaxQueries /\ n' = n + 1 /\ UNCHANGED <<l1, l2>>

BudgetNext == WidenL1 \/ WidenL2 \/ NarrowL2 \/ MoreQueries

BudgetSpec == BudgetInit /\ [][BudgetNext]_bvars

\* No guard of prc_protocol on the shape of the database panics.
Answered == OheAccepts(l1) /\ OheAccepts(l2) /\ JoinAccepts(l1, l2)

\* init_seeded_correlated_randomness deals at least what n calls of
\* prc_protocol take, of triples and of daBits, so that no assertion of take
\* fails within the expected number of queries.
ProvisionSuffices ==
    Answered =>
        \A kind \in {"beaver", "dabit"} :
            TakenBy(Session(l1, l2, n), kind) <= Provision(l1, l2, n)[kind]

\* The estimate behind the formula: an encoding of b bits has at most 1.5 * 2^b
\* gates, and a query loses at most 3 * 32 bits to padding.
EstimateHolds ==
    Answered =>
        /\ \A b \in {l1, l2} : 2 * OheGateBits[b] <= 3 * 2^b
        /\ 8 * TakenBy(PrcProtocol(l1, l2), "beaver")
               <= OheGateBits[l1] + OheGateBits[l2] + 2^l2 + 3 * 32

\* The documentation of the command line and of DBConfig::new: dimensions that
\* are powers of two, with l1 at least l2 and at least eight, are all that a
\* database needs, so every database that from_seed builds is answered.
ShapesAnswered == Answered
=============================================================================
