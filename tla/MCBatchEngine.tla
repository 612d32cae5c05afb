--------------------------- MODULE MCBatchEngine ---------------------------
(***************************************************************************)
(* Settings of BatchEngine for TLC.                                        *)
(***************************************************************************)
EXTENDS BatchEngine, TLC

CONSTANTS k1, k2, k3, b1, b2

\* The rank session is lost and replaced under two submissions in flight.
Session == [residents |-> {k1, k2}, submissions |-> {b1, b2}, chain |-> 1,
            sessions |-> 2, faults |-> {"DISCONNECT", "LATE_HEAL"}]

\* Two requests compete for one resident slot; waves are refused or stall.
Refusal == [residents |-> {k1}, submissions |-> {b1}, chain |-> 1,
            sessions |-> 1, faults |-> {"REFUSE", "EXPIRE", "LIMIT"}]

\* Completions, the pipeline, the prefix index or cached prefixes fail.
Failure == [residents |-> {k1, k2}, submissions |-> {b1}, chain |-> 2,
            sessions |-> 2,
            faults |-> {"APPLY", "PIPELINE", "INDEX", "STALE"}]

\* Waves are refused and the session is lost.
Recovery == [residents |-> {k1}, submissions |-> {b1}, chain |-> 1,
             sessions |-> 2, faults |-> {"DISCONNECT", "REFUSE"}]

\* The ranks come back between the two pipeline calls of one Progress.
LateHeal == [residents |-> {k1}, submissions |-> {b1}, chain |-> 1,
             sessions |-> 2, faults |-> {"DISCONNECT", "LATE_HEAL"}]

\* Completions cannot be applied, with three slots and two submissions.
DoubleFree == [residents |-> {k1, k2, k3}, submissions |-> {b1, b2},
               chain |-> 1, sessions |-> 1, faults |-> {"APPLY"}]

SafetySettings == {Session, Refusal, Failure}
RecoverySettings == {Recovery}
LateHealSettings == {LateHeal}
DoubleFreeSettings == {DoubleFree}

\* Every action treats the members of each of these sets alike.
Symmetry == Permutations(Requests) \cup Permutations(Slots)
              \cup Permutations(AllResidents) \cup Permutations(AllSubmissions)
=============================================================================
