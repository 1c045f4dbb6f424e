----------------------------- MODULE RowChunks -----------------------------
(***************************************************************************)
(* How the dynamic master (src/Lab5/task5/master.c) cuts the image into    *)
(* work units: chunk k starts at row k * ChunkSize and has ChunkSize rows, *)
(* except the last one, which stops at the bottom of the image.            *)
(***************************************************************************)
EXTENDS Integers

CONSTANTS Height,       \* rows of the image (600 in the code)
          ChunkSize     \* rows per work unit (CHUNK_SIZE, 10 in the code)

ASSUME GeometryAssumption == Height \in Nat \ {0} /\ ChunkSize \in Nat \ {0}

\* total_chunks: the ceiling of Height / ChunkSize.
TotalChunks == (Height + ChunkSize - 1) \div ChunkSize

Slots == 0 .. TotalChunks - 1

\* What the queue-building loop stores in queue[k].
ChunkAt(k) ==
  [start    |-> k * ChunkSize,
   num_rows |-> IF k * ChunkSize + ChunkSize <= Height
                THEN ChunkSize ELSE Height - k * ChunkSize]

Chunks == {ChunkAt(k) : k \in Slots}

\* The rows of the image a chunk (or a result) stands for.
Rows(c) == c.start .. c.start + c.num_rows - 1

ImageRows == 0 .. Height - 1
=============================================================================
