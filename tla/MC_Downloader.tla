--------------------------- MODULE MC_Downloader ---------------------------
(* Instances of Downloader for TLC. *)
EXTENDS Downloader, TLC

\* Rows 1 and 2 share a chat, the others have one each.
MCChatOf == [i \in Items |-> IF i <= 2 THEN 1 ELSE i]

\* What earlier runs leave: a failure with budget left, a stranded claim and
\* a finished file.
MCLeftover == {<<"failed", 1>>, <<"downloading", 1>>, <<"done", 0>>}

\* Workers are interchangeable goroutines.
MCSymmetry == Permutations(Workers)
=============================================================================
