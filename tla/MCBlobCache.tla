---------------------------- MODULE MCBlobCache -----------------------------
(***************************************************************************)
(* Four files: two small ones, one as large as the cache, an empty one.    *)
(***************************************************************************)
EXTENDS BlobCache

Files == 1..4
FileSizes == <<1, 1, 3, 0>>
=============================================================================
