--------------------------- MODULE MCPhotoPipeline ---------------------------
(* Instances of the pipeline for TLC. *)
EXTENDS PhotoPipeline, TLC

CONSTANTS h1, h2

\* One JPEG.
OneJpeg == {<<h1, "jpeg">>}

\* One content whose bytes say nothing: the file name decides its type.
Ambiguous == Hashes \X Types

\* One HEIC photo: it needs two renditions.
OneHeic == {<<h1, "heic">>}

\* Two photos, one rendition for the one and two for the other.
TwoPhotos == {<<h1, "jpeg">>, <<h2, "heic">>}

\* originals/<shard>/<h1>; the kind's own entry takes no part in an upload
\* and is followed in BlobStore.cfg.
Shard == [x \in Keys \cup Dirs |-> IF x \in Contents THEN Dirs ELSE {}]

Symmetry == Permutations(Uploaders) \cup Permutations(Admins) \cup Permutations(Types)
==============================================================================
