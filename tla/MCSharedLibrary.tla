--------------------------- MODULE MCSharedLibrary ---------------------------
(* SharedLibrary with two workbenches. The Library holds one item, and a   *)
(* second is created, or is the copy of a refused document; to see what is *)
(* written over, it holds two.                                             *)
EXTENDS SharedLibrary

CONSTANTS a, b, i, j, k

TwoItems == <<i, j>>
ThreeItems == <<i, j, k>>
Interchangeable == Permutations({a, b})
=============================================================================
