----------------------------- MODULE MCDiscovery -----------------------------
(* Discovery with interchangeable user threads: of the two providers one is *)
(* in the client's worker loop, so that what it sends overtakes what waits. *)
EXTENDS Discovery, TLC

CONSTANTS p1, p2, u1, u2

Symmetry == Permutations({u1, u2})

WithProvider == {{p1, Client}}
=============================================================================
