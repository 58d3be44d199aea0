----------------------------- MODULE QagmlEngine -----------------------------
(***************************************************************************)
(* QAGML: the memory engine (qagml/src/engine.rs) driven by the model test *)
(* (bin/qagml_model_test.rs with model_loader.rs) or by the command-line   *)
(* program (bin/qagml_cli.rs), and the bus engine that callers share       *)
(* (bus_width_amplification.rs).  Sizes and addresses count chunks.  The   *)
(* ten postulates answer numbers that a read throws away; the cached data, *)
(* which any later read of the address gets, is kept.                      *)
(***************************************************************************)
EXTENDS Integers, Sequences, FiniteSets, FiniteSetsExt

CONSTANTS Files,        \* the .safetensors files of the model, in directory order
          MaxChunks,    \* bound on the size of a file, in chunks
          Readers,      \* threads that share the bus engine
          Regions,      \* regions <<address, size>> they read
          MaxRequests,  \* requests the bus engine keeps (16)
          MaxReads      \* bound on the calls of a program and of a reader

VARIABLES memory,       \* quantum_cache: address |-> <<origin, length>>
          autocorr,     \* autocorr_cache holds its one answer
          counts,       \* memory_accesses, bytes_processed, hits and misses
          disk,         \* sizes of the files as they are now
          loader,       \* what the program that loads or measures does, and where it is
          coalesced,    \* coalesced_requests
          cached,       \* transaction_cache: addresses
          reading,      \* the region that a reader did not find in the cache, or NoRegion
          served        \* regions that were answered `coalesced`, by reader
qagmlVars == <<memory, autocorr, counts, disk, loader, coalesced, cached, reading, served>>

NoRegion == <<>>

Uncached == <<"none", 0>>
Addresses == 0..(Len(Files) * MaxChunks)
CountUp(c) == counts' = [k \in DOMAIN counts |-> IF k \in DOMAIN c THEN counts[k] + c[k]
                                                 ELSE counts[k]]

\* read_memory: what the cache holds for the address, whatever its length, or made-up
\* bytes of the length asked for.  Bytes are counted only then, and the first
\* correlation computed is kept for ever.
ReadMemory(address, size) ==
    IF memory[address] # Uncached
    THEN CountUp([accesses |-> 1, hits |-> 1]) /\ UNCHANGED <<memory, autocorr>>
    ELSE /\ memory' = [memory EXCEPT ![address] = <<"generated", size>>]
         /\ autocorr' = (autocorr \/ counts.accesses > 0)
         /\ CountUp([accesses |-> 1, misses |-> 1, bytes |-> size])

WriteMemory(address, data) ==
    /\ memory' = [memory EXCEPT ![address] = data]
    /\ CountUp([accesses |-> 1, bytes |-> data[2]])
    /\ UNCHANGED autocorr

\* scan_model_directory lays the files out one after the other by the sizes it sees.
Base(sizes, i) == MapThenSumSet(LAMBDA j : sizes[Files[j]], 1..(i - 1))

Scan == /\ loader.at = "scan"
        /\ loader' = [loader EXCEPT !.at = "load", !.sizes = disk]
        /\ UNCHANGED <<memory, autocorr, counts, disk>>

\* load_model_into_virtual_memory: chunks until the file ends, which need not be at
\* the size that was scanned.
LoadChunk ==
    /\ loader.at = "load" /\ loader.file <= Len(Files)
    /\ LET f == Files[loader.file] IN
       IF loader.chunk < disk[f]
       THEN /\ WriteMemory(Base(loader.sizes, loader.file) + loader.chunk, <<f, 1>>)
            /\ loader' = [loader EXCEPT !.chunk = @ + 1]
       ELSE /\ loader' = [loader EXCEPT !.file = @ + 1, !.chunk = 0]
            /\ UNCHANGED <<memory, autocorr, counts>>
    /\ UNCHANGED disk
Loaded == /\ loader.at = "load" /\ loader.file > Len(Files)
          /\ loader' = [loader EXCEPT !.at = "verify", !.file = 1]
          /\ UNCHANGED <<memory, autocorr, counts, disk>>

\* verify_model_loaded: one read per file, which is compared with nothing; a file
\* shorter than the sample is an error.
Verify ==
    /\ loader.at = "verify"
    /\ IF loader.file > Len(Files)
       THEN /\ loader' = [loader EXCEPT !.at = "done"]
            /\ UNCHANGED <<memory, autocorr, counts>>
       ELSE /\ ReadMemory(Base(loader.sizes, loader.file), 1)
            /\ loader' = IF disk[Files[loader.file]] = 0
                          THEN [loader EXCEPT !.at = "failed"]
                          ELSE [loader EXCEPT !.file = @ + 1]
    /\ UNCHANGED disk

\* The benchmark and the start command of qagml_cli read one address after the other.
Benchmark == /\ loader.at = "benchmark" /\ loader.chunk < MaxReads
             /\ \E size \in 1..2 : ReadMemory(loader.chunk, size)
             /\ loader' = [loader EXCEPT !.chunk = @ + 1]
             /\ UNCHANGED disk

Resize == /\ loader.at \in {"load", "verify"}  \* the files belong to others
          /\ \E f \in DOMAIN disk, n \in 0..MaxChunks :
                n # disk[f] /\ disk = loader.sizes /\ disk' = [disk EXCEPT ![f] = n]
          /\ UNCHANGED <<memory, autocorr, counts, loader>>

\* try_coalesce, under the write lock: a request that starts within or right after a
\* pending one extends it.  Pending requests are never issued or removed.
End(region) == region[1] + region[2]
Merged_NewEnd(old, new) == <<old[1], End(new) - old[1]>>  \* slip: no max
Merged(old, new) ==
    <<old[1], (IF End(new) > End(old) THEN End(new) ELSE End(old)) - old[1]>>
Extends(new, old) == old[1] <= new[1] /\ new[1] <= End(old)

\* optimize_read looks into the cache under a read guard that ends with the block, so
\* the address may be cached by the time the requests' lock is taken.  A hit is
\* answered from the cache and leaves everything here as it is.
OptimizeRead(r, region) ==
    /\ reading[r] = NoRegion /\ Cardinality(served[r]) < MaxReads
    /\ region[1] \notin cached
    /\ reading' = [reading EXCEPT ![r] = region]
    /\ UNCHANGED <<coalesced, cached, served>>
TryCoalesce(r) ==
    LET region == reading[r]
        fits == {i \in DOMAIN coalesced : Extends(region, coalesced[i])}
        room == Len(coalesced) < MaxRequests
    IN  /\ region # NoRegion
        /\ IF fits # {}
           THEN \E i \in fits :
                   /\ \A j \in fits : i <= j
                   /\ coalesced' = [coalesced EXCEPT ![i] = Merged(coalesced[i], region)]
                   /\ served' = [served EXCEPT ![r] = served[r] \union {region}]
           ELSE /\ coalesced' = IF room THEN Append(coalesced, region) ELSE coalesced
                /\ UNCHANGED served
        /\ reading' = [reading EXCEPT ![r] = NoRegion]
        /\ UNCHANGED cached
CacheData(region) == /\ cached' = cached \union {region[1]}
                     /\ UNCHANGED <<coalesced, reading, served>>

QagmlInit ==
    /\ memory = [a \in Addresses |-> Uncached] /\ autocorr = FALSE
    /\ counts = [accesses |-> 0, bytes |-> 0, hits |-> 0, misses |-> 0]
    /\ disk \in [{Files[i] : i \in DOMAIN Files} -> 0..MaxChunks]
    /\ loader \in [at : {"scan", "benchmark", "bus"}, file : {1}, chunk : {0}, sizes : {disk}]
    /\ coalesced = <<>> /\ cached = {}
    /\ reading = [r \in Readers |-> NoRegion] /\ served = [r \in Readers |-> {}]

QagmlNext ==
    \/ /\ Scan \/ LoadChunk \/ Loaded \/ Verify \/ Benchmark \/ Resize
       /\ UNCHANGED <<coalesced, cached, reading, served>>
    \/ /\ loader.at = "bus"
       /\ \/ \E region \in Regions :
                CacheData(region) \/ \E r \in Readers : OptimizeRead(r, region)
          \/ \E r \in Readers : TryCoalesce(r)
       /\ UNCHANGED <<memory, autocorr, counts, disk, loader>>
-----------------------------------------------------------------------------
\* A read answered as coalesced is inside one of the pending requests, however many
\* later reads of other threads went on extending it (try_coalesce).  That is all that
\* `coalesced' says: the bytes of such a read are counted as transferred all the same
\* (bus_width_amplification.rs:231), and only its amplification is another one.
CoalescedCovered ==
    \A r \in Readers : \A region \in served[r] :
        \E i \in DOMAIN coalesced :
            coalesced[i][1] <= region[1] /\ End(region) <= End(coalesced[i])
=============================================================================
