------------------------------ MODULE MCGallery ------------------------------
(* A small instance of Gallery for TLC. *)
EXTENDS Gallery, TLC

CONSTANTS r1, r2, r3, r4, f1, f2, f3

\* Two uploads, whose jobs meet a choice, a deletion and a change of the listing.
MCMayAsk ==
  r1 :> {"upload"} @@ r2 :> {"upload"}
  @@ r3 :> {"setPrimary", "deleteImage"} @@ r4 :> {"deleteListing", "update", "force"}

MCSymmetry == Permutations(Files)
=============================================================================
