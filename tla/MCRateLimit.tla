---------------------------- MODULE MCRateLimit -----------------------------
(***************************************************************************)
(* Instances of RateLimit for TLC: two requests of one source, and one     *)
(* from elsewhere (the other scope, or another client).                    *)
(***************************************************************************)
EXTENDS RateLimit

CONSTANTS r1, r2, r3, ask, search

MCSourceOf == [r \in Request |-> IF r = r3 THEN search ELSE ask]

MCLimit == [s \in Source |-> 1]

=============================================================================
