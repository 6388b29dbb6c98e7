---------------------------- MODULE MCJobEngine ----------------------------
(* Instances of JobEngine for TLC: what the runs share. *)
EXTENDS JobEngine, TLC

CONSTANTS w1, w2, t1, t2, j1, j2, j3, kFirst, kOther

\* The second and third jobs submit one payload; the first is of another.
TwoKeys == [j \in Jobs |-> IF j = j1 THEN kFirst ELSE kOther]

\* Requests are sent only where they contend for no job.
UncontendedSpec == Init /\ [][Next /\ Uncontended']_vars /\ Fairness

\* Workers are interchangeable, and so are threads.
ActorSymmetry == Permutations(Workers) \cup Permutations(Threads)
ThreadSymmetry == Permutations(Threads)

=============================================================================
