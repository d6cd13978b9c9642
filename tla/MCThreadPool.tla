---------------------------- MODULE MCThreadPool ----------------------------
(* Three workers and the caller; jobs smaller than, equal to and larger than *)
(* the number of threads; a generation counter that wraps at once.         *)
EXTENDS ThreadPool

\* ds4_parallel_for passes 512, the batch kernels pass 1: jobs of this model
\* are on both sides of the larger value.
MCMinRows == {1, 4}
=============================================================================
