----------------------------- MODULE CacheCodec -----------------------------
(***************************************************************************)
(* The "tensor folding" codec of the UAO-QTCAM cache                       *)
(* (src/uao_qtcam_cache.rs: compress, decompress) and the decimal          *)
(* conversions that INCR performs around it.                               *)
(*                                                                         *)
(* A value is a sequence of bytes.  Bytes 0..9 stand for the ASCII digits, *)
(* Letter for any other byte (no sign, no digit).  A compressed value is   *)
(* the sequence of sampled bytes; the 16-byte header (length, checksum) is *)
(* represented only by its size, because nothing ever reads it back.       *)
(***************************************************************************)
EXTENDS Integers, Sequences, SequencesExt

CONSTANT CompressionRatio   \* UaoQtcamCache::compression_ratio `as usize`

ASSUME RatioAssumption == CompressionRatio \in Nat \ {0}

Letter     == 10
Byte       == 0..10
HeaderSize == 16            \* 8 bytes of length, 8 bytes of checksum

AtLeast1(n) == IF n >= 1 THEN n ELSE 1

-----------------------------------------------------------------------------
target_size(len) == AtLeast1(len \div CompressionRatio)

sample_rate(len) == AtLeast1(len \div target_size(len))

\* Slip: the incomplete last stride has no sample.
SampleCount_Floor(len) == len \div sample_rate(len)

\* How many i in 0..len-1 have i % sample_rate = 0.
SampleCount(len) == (len + sample_rate(len) - 1) \div sample_rate(len)

\* Keep the bytes whose offset is a multiple of the sample rate.
compress(data) ==
    [i \in 1..SampleCount(Len(data)) |->
        data[(i - 1) * sample_rate(Len(data)) + 1]]

\* compressed_value.len()
compressed_len(samples) == HeaderSize + Len(samples)

\* Slip: the rate is computed for one sample more than there is.
decompress_OneTooMany(samples, original_size) ==
    LET rate == AtLeast1(original_size \div (Len(samples) + 1))
        Pick(i) == IF (i - 1) \div rate < Len(samples)
                   THEN (i - 1) \div rate + 1
                   ELSE Len(samples)
    IN  [i \in 1..original_size |->
            IF samples = <<>> THEN 0 ELSE samples[Pick(i)]]

\* Spread the samples over original_size bytes; the last one fills the tail.
decompress(samples, original_size) ==
    LET rate == AtLeast1(original_size \div AtLeast1(Len(samples)))
        Pick(i) == IF (i - 1) \div rate < Len(samples)
                   THEN (i - 1) \div rate + 1
                   ELSE Len(samples)
    IN  [i \in 1..original_size |->
            IF samples = <<>> THEN 0 ELSE samples[Pick(i)]]

RoundTrip(data) == decompress(compress(data), Len(data))

-----------------------------------------------------------------------------
\* counter.to_string() for a counter in 0..999 999
to_string(n) ==
    LET width == 1 + Cardinality({k \in 1..5 : n >= 10^k})
    IN  [i \in 1..width |-> (n \div 10^(width - i)) % 10]

\* String::from_utf8_lossy(..).parse::<i64>().unwrap_or(0)
parse_or_0(text) ==
    IF text = <<>> \/ \E i \in DOMAIN text : text[i] = Letter
    THEN 0
    ELSE FoldLeft(LAMBDA n, digit : 10 * n + digit, 0, text)
=============================================================================
