------------------------ MODULE MCDirectoryTransfer ------------------------
(* Small instances of DirectoryTransfer: a directory of two entries.       *)
EXTENDS DirectoryTransfer

MCEntries == 1 .. 3
MCSizes == 0 .. 1

\* Two files, a file and a link, a file and a FIFO, a directory that holds a file.
MCKinds ==
  {<<"dir", "file", "file">>, <<"dir", "file", "link">>, <<"dir", "file", "fifo">>,
   <<"dir", "dir", "file">>}
OneKind == {<<"dir", "file", "file">>}
MCParents == [k \in MCKinds |-> IF k[2] = "dir" THEN <<1, 1, 2>> ELSE <<1, 1, 1>>]
OneParents == [k \in OneKind |-> <<1, 1, 1>>]

At(name, protected, isTop, places) ==
  [root |-> name, readOnly |-> protected, top |-> isTop, taken |-> places]

\* A plain directory; with a read-only entry; received where one place is taken,
\* or in "/"; and directories whose names are rejected at once, or at the first
\* entry.
MCPlaces ==
  {At("plain", {}, FALSE, {}), At("plain", {2}, FALSE, {}), At("plain", {}, FALSE, {2}),
   At("plain", {}, TRUE, {}), At("..", {}, FALSE, {}), At(".", {}, FALSE, {})}
NamedPlaces == {At(name, {}, isTop, {}) : name \in {"plain", ".", "..", "/"}, isTop \in BOOLEAN}
=============================================================================
