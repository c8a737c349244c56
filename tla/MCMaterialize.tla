--------------------------- MODULE MCMaterialize ---------------------------
(* Small instances of Materialize for TLC. *)
EXTENDS Materialize, TLC

CONSTANTS t1, h1, h2, m1, c1, c2, report, song, partial, r

\* A file of two chunks, which one thread fetches.
MCContentOf == m1 :> <<h1, h2>>
MCChunksOf == m1 :> {h1, h2}
MCMayPut == t1 :> {h1, h2}

\* "song.mp3" has a temporary name of its own.  That of "report.pdf" is a destination of
\* the same caller: "report.nexus-partial", which is its own.
MCTempOf == report :> partial @@ partial :> partial @@ song :> r
MCAsks == c1 :> {<<report, m1>>, <<partial, m1>>} @@ c2 :> {<<song, m1>>}
=============================================================================
