---------------------------- MODULE MC_FileStore ----------------------------
(* One or two files, a path of their own each, two further sightings: in another
   chat, and of the same message. *)
EXTENDS FileStore

MCRowOf == [i \in {"s1", "own"} |-> "r1"]
MCNoSightings == [i \in {} |-> "r1"]
MCNameOf == [i \in Items |-> CASE i \in {"r1", "own"} -> "a" [] i = "r2" -> "b" [] OTHER -> "c"]
MCIndexOf == [n \in Names |-> IF n = "a" THEN "a1" ELSE NoName]

\* What an unused inode last held is forgotten.
Held(n) == IF Free(n) THEN <<>> ELSE <<owner[n], state[n]>>
MCView == <<inode, [n \in Inodes |-> Held(n)], rowVars, workVars, doomed, meddled>>

Config(h, s, c) == [hardlink |-> h, skipExisting |-> s, collision |-> c]
MCConfigs == {Config(TRUE, FALSE, "index"), Config(FALSE, TRUE, "skip")}
MCDefault == {Config(TRUE, FALSE, "index")}
=============================================================================
