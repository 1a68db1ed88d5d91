----------------------------- MODULE MCLazyDoc ------------------------------
(* A stream of two documents, [a, b] and {k: v}, read by two threads.       *)
EXTENDS LazyDoc, TLC

CONSTANTS t1, t2, s, m, a, b, k, v

MCKids == (s :> <<a, b>>) @@ (m :> <<k, v>>)
MCSeqs == {s}
MCTextOf == k :> "k"
Interchangeable == Permutations(Threads)
=============================================================================
