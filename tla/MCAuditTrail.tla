---------------------------- MODULE MCAuditTrail ----------------------------
(* A small instance of AuditTrail for TLC.                                 *)
EXTENDS AuditTrail, TLC
CONSTANTS engine, supervisor, d1
Processes == Permutations({engine, supervisor})
\* What the properties of the run depend on: no step reads the metadata of a
\* record, which append returns to its caller.
WithoutMetadata ==
  <<log, ends, packets,
    [w \in Writers |-> [writer[w] EXCEPT !.line = 0, !.seen = 0, !.pos = 0]],
    decided, completed, now, batches, crashes>>
=============================================================================
