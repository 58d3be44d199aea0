-------------------------- MODULE MCUaoQtcamCache ---------------------------
(***************************************************************************)
(* Values for the instances of the cache.  compression_ratio is 2 where    *)
(* entries of different sizes are wanted from short values, 250 (the       *)
(* server's own) where counters are.                                       *)
(***************************************************************************)
EXTENDS UaoQtcamCache

CacheSymmetry == Permutations(Threads) \cup Permutations(Keys)

Short == <<1>>
Long  == <<Letter, 1, 2, Letter, 3, 4, 5, 6>>   \* four samples at ratio 2

Nines == <<9, 9, 9>>                            \* two samples; an INCR makes it three

OnlyShort == {Short}

\* An INCR of the first leaves a short entry, one of the second a longer one.
LongAndNines == {Long, Nines}
=============================================================================
