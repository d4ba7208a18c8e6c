----------------------------- MODULE MCRegions -----------------------------
(* Instances of Regions for TLC. *)
EXTENDS Regions

R(page, count) == [page |-> page, count |-> count]

\* The heap, which has one page and may grow by another, a hole for mmap(), and
\* the stack.
MCInitialMap == <<R(1, 1), R(6, 1)>>
MCMapPages == {3, 4}
=============================================================================
