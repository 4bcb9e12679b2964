---------------------------- MODULE MCLBLifecycle ----------------------------
(* Small instances of LBLifecycle. *)
EXTENDS LBLifecycle, TLC

\* Objects, UIDs and zones are interchangeable, and so are the load balancers
\* that the project does not have yet.
Symmetry ==
  Permutations(Objects) \cup Permutations(UIDs) \cup Permutations(Zones)
    \cup Permutations(LBs \ Foreign)
==============================================================================
