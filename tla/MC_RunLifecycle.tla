-------------------------- MODULE MC_RunLifecycle --------------------------
(* A chat with two files; one user downloads and previews, the other          *)
(* resumes; or one user does it all, and gets single messages too.            *)
EXTENDS RunLifecycle, TLC

CONSTANTS p1, p2
MCSymmetry == Permutations(RunIDs)

MCCommandsOf == [p \in Procs |-> IF p = p1 THEN {"dl", "scan"} ELSE {"resume"}]
MCAlone == [p \in Procs |-> {"dl", "get", "scan", "resume"}]

\* All files, or the first one only.
MCFilters == {Files, {"f1"}}

MCFileOf == [m \in Msgs |-> IF m[2] = 1 THEN "f1" ELSE "f2"]
=============================================================================
