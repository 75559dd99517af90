----------------------------- MODULE MCBlobStore -----------------------------
(* Goroutines on one original and one rendition: the keys only meet        *)
(* through the goroutines that write them.                                 *)
EXTENDS BlobStore, TLC

\* originals/<shard>/<o1> and thumbs/<shard>/<r1>, of which an instance keeps
\* the directories it names: BlobStore.cfg both levels above the original and
\* the shard of the rendition, BlobStoreShard.cfg the original's shard alone.
Path(x) ==
  CASE x = "originals/ab" -> {"originals"}
    [] x = "thumbs/ab" -> {"thumbs"}
    [] x \in Originals -> {"originals", "originals/ab"}
    [] x \in Renditions -> {"thumbs", "thumbs/ab"}
    [] OTHER -> {}
Paths == [x \in Keys \cup Dirs |-> Path(x) \cap Dirs]

Symmetry == Permutations(Procs)
==============================================================================
