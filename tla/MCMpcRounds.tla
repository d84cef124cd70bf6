---------------------------- MODULE MCMpcRounds ----------------------------
(* Instances of MpcRounds: the rounds and the correlated randomness of a   *)
(* session of NumQueries queries on a database of 2^L2 x 2^L1 bits, with    *)
(* the randomness that is dealt for Expected queries.                      *)
EXTENDS MpcRounds, QueryPlan, FiniteSetsExt

CONSTANTS L1, L2, NumQueries, Expected

MCSchedule == Session(L1, L2, NumQueries)
MCAvail == Provision(L1, L2, Expected)

\* Randomness dealt for at least as many queries as are answered suffices
\* (Provided): the running totals of the rounds never exceed it.
ASSUME ExpectedSuffices ==
    NumQueries <= Expected =>
        Covered([r \in 0..Len(Schedule) |->
                    [k \in Kinds |-> MapThenSumSet(LAMBDA i : Takes(i, k), 1..r)]])
=============================================================================
