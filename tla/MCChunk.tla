------------------------------- MODULE MCChunk -------------------------------
EXTENDS Chunk

CONSTANTS k1, k2, v1, v2

MCKeys == {k1, k2}
MCVals == {v1, v2}
====
