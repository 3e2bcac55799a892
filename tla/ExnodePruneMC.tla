--------------------------- MODULE ExnodePruneMC ---------------------------
(* Instances of ExnodePrune for TLC. *)
EXTENDS ExnodePrune

CONSTANTS root, u1, u2

DirVersion(v) == [id |-> "d", ver |-> v, mode |-> "directory", parent |-> root, extents |-> <<>>,
                  embedded |-> FALSE]
Dir == DirVersion(1)
Extent(id, offset, size) == [id |-> id, offset |-> offset, size |-> size, readable |-> id # "x3"]
File(id, ver, exts) == [id |-> id, ver |-> ver, mode |-> "file", parent |-> "d", extents |-> exts,
                        embedded |-> TRUE]

First == {<<0, 1>>, <<0, 2>>, <<1, 1>>}
Second == {<<0, 1>>, <<1, 1>>, <<2, 1>>}

\* A directory with one file of two extents, in any place, and: another file, or an older version; or a directory
\* of two versions.  The extents are in the files, or in the records only.
Embedded == {{Dir, File("f", 1, <<Extent("x1", p[1], p[2]), Extent("x2", q[1], q[2])>>)} : p \in First, q \in Second} \cup
  {{Dir, File("f", 1, <<Extent("x1", 0, 1)>>), File(id, 2, <<Extent("x3", 0, 1), Extent("x2", 1, 1)>>)} : id \in {"f", "g"}} \cup
  {{Dir, DirVersion(2), File("f", 1, <<Extent("x1", 0, 1)>>)}}
MCTrees == Embedded \cup {{[e EXCEPT !.embedded = FALSE] : e \in tree} : tree \in Embedded}

MCUploads == {File(id, 3, <<Extent("x4", 0, 1)>>) : id \in {"f", "u"}}
MCReferences == [a \in {"x1", "x2", "x3", "x4"} |-> IF a = "x1" THEN 2 ELSE 1]
MCSymmetry == {[u \in {u1, u2} |-> u], [u \in {u1, u2} |-> IF u = u1 THEN u2 ELSE u1]}
MCAllocs == DOMAIN MCReferences
=============================================================================
