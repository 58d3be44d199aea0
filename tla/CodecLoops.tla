----------------------------- MODULE CodecLoops -----------------------------
(***************************************************************************)
(* The two loops of the cache's codec (src/uao_qtcam_cache.rs: compress,   *)
(* decompress) byte by byte, against which the closed forms of CacheCodec  *)
(* are held.  A state is a value that a caller stores; the steps go        *)
(* through the values, each longer by a byte than the one before.          *)
(***************************************************************************)
EXTENDS CacheCodec

CONSTANTS Alphabet,    \* bytes that values are made of
          MaxLen       \* bound on the length of a value

VARIABLE data          \* the value being stored

CodecInit == data = <<>>
NextByte == Len(data) < MaxLen /\ \E b \in Alphabet : data' = Append(data, b)
CodecSpec == CodecInit /\ [][NextByte]_data

-----------------------------------------------------------------------------
\* What both loops run through.
Offsets(len) == [i \in 1..len |-> i - 1]

\* One iteration of the loop in compress: push every byte whose offset is a multiple of
\* the rate.
CompressStep(d, out, i) == IF i % sample_rate(Len(d)) = 0 THEN Append(out, d[i + 1]) ELSE out

CompressLoop(d) == FoldLeft(LAMBDA out, i : CompressStep(d, out, i), <<>>, Offsets(Len(d)))

\* One iteration of the loop in decompress: at a multiple of the rate take the
\* next sample while there is one, otherwise repeat the last byte.
DecompressRate(samples, original_size) == AtLeast1(original_size \div AtLeast1(Len(samples)))

DecompressStep(samples, rate, st, i) ==
    IF i % rate = 0 /\ st.sample_idx < Len(samples)
    THEN [result     |-> Append(st.result, samples[st.sample_idx + 1]),
          sample_idx |-> st.sample_idx + 1]
    ELSE [st EXCEPT !.result = Append(@, IF @ = <<>> THEN 0 ELSE Last(@))]

DecompressLoop(samples, original_size) ==
    FoldLeft(LAMBDA st, i : DecompressStep(samples, DecompressRate(samples, original_size), st, i),
             [result |-> <<>>, sample_idx |-> 0], Offsets(original_size)).result

\* The closed forms the cache model computes with are what the two loops of
\* compress and decompress produce, for every value that a SET may store.
CodecMatchesLoops ==
    /\ compress(data) = CompressLoop(data)
    /\ decompress(compress(data), Len(data)) =
           DecompressLoop(compress(data), Len(data))

\* Where the rate was not rounded (the samples are exactly the target), storing
\* again what a GET returned loses nothing more: the restored value compresses to
\* the same samples although decompress recomputes its own rate from their number.
RecompressStable ==
    Len(compress(data)) = target_size(Len(data)) =>
        compress(RoundTrip(data)) = compress(data)
=============================================================================
