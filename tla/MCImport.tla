------------------------------ MODULE MCImport ------------------------------
(***************************************************************************)
(* Import for TLC: importers are interchangeable; the items share          *)
(* directories, sources, versions and spots in the ways that matter.       *)
(***************************************************************************)
EXTENDS Import, TLC

AnItem(bundle, native, source, spot, version, content) ==
    [bundle |-> bundle, native |-> native, source |-> source, spot |-> spot,
     version |-> version, content |-> content, family |-> "family"]

MCItems == {
    AnItem("dir1", "solve1", "hash1", "spot1", "v1", "payload1"),
    AnItem("dir1", "solve1", "hash1", "spot1", "v2", "payload2"),   \* a second spot of the solve
    AnItem("dir1", "solve1", "hash1", "spot1", "v1", "payload1b"),  \* exported again, other content
    AnItem("dir2", "solve2", "hash1", "spot2", "v3", "payload3")}   \* another solve, the same hash

Symmetry == Permutations(Importers)
=============================================================================
