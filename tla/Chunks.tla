------------------------------- MODULE Chunks -------------------------------
(***************************************************************************)
(* How a table evaluation divides the n rows of a table among c worker     *)
(* threads: c - 1 chunks of n / c rows, and the rest to the last thread.   *)
(* Rows are inclusive bounds, as the workers take them.                    *)
(***************************************************************************)
EXTENDS Integers

\* int chunk_size = numBuckets / cores;
ChunkSize(n, c) == n \div c

Thread(c) == 0 .. c - 1

FirstRow(n, c, th) == th * ChunkSize(n, c)

\* Mutant of LastRow: the bound is taken as exclusive.
LastRowExclusive(n, c, th) ==
  IF th = c - 1 THEN n - 1 ELSE (th + 1) * ChunkSize(n, c) - 2

\* The last row of a thread; -1, which is 2^64 - 1 for the worker, when a chunk
\* that is not the last one is empty.
LastRow(n, c, th) ==
  IF th = c - 1 THEN n - 1 ELSE (th + 1) * ChunkSize(n, c) - 1

Rows(n, c, th) == FirstRow(n, c, th) .. LastRow(n, c, th)

=============================================================================
