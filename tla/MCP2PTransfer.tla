---------------------------- MODULE MCP2PTransfer ----------------------------
(* Small instances of P2PTransfer: bytes 0 (the fill byte), 1 and 2, chunks *)
(* of two bytes, so a file of three bytes ends in a short chunk.            *)
EXTENDS P2PTransfer, TLC

MCByte == 0 .. 2

\* One content; three bytes, a full and a short chunk.
ShortTail == {<<1, 2, 1>>}
\* Two contents of one size, and one of a full chunk.
Edited == {<<1, 2, 1>>, <<1, 1, 2>>, <<2, 1>>}
\* Two contents of one size, for liveness.
Live == {<<1, 2, 2>>, <<2, 2, 1>>}

OneArchive == {<<1, 2, 1>>}
NoArchives == {}

TempSymmetry == Permutations(Temps)
=============================================================================
