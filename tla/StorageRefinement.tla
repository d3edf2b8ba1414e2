------------------------- MODULE StorageRefinement --------------------------
(***************************************************************************)
(* What Storage promises its callers, AtomicStorage, in terms of its state *)
(* with system calls and locks.  While a write is in progress the files    *)
(* are still those from before it.                                         *)
(***************************************************************************)
EXTENDS StorageInvariant

FilesSeen == IF frame[Applier].fd # NoFile THEN before ELSE ContentsOf(tree, data)
CallsMade == [t \in Threads |-> frame[t].call]
Results == [t \in Threads |-> frame[t].res]

\* Every call is atomic: a reader sees a file as it was at one instant, between two
\* commands and never in the middle of one; a command that succeeds has done all of its
\* work and one that fails has done nothing, or part of one write.
Atomic == INSTANCE AtomicStorage WITH files <- FilesSeen, call <- CallsMade, res <- Results
CallsAreAtomic == Atomic!Spec
=============================================================================
