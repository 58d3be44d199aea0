----------------------------- MODULE RoutePrefix -----------------------------
(***************************************************************************)
(* Prefixes, and the lookups of the three engines of uao-qtcam that the    *)
(* TCAM engine keeps side by side.  An address is a number of AddrBits     *)
(* bits (32 in the code); the third engine has a table over the RadixBits  *)
(* (16) leading ones.  A route is its prefix, next hop and metric.         *)
(***************************************************************************)
EXTENDS Integers, Sequences, SequencesExt

CONSTANTS AddrBits, RadixBits

ASSUME PrefixAssumption == AddrBits \in Nat /\ RadixBits \in 0..AddrBits

\* Laws of powers, for the proofs: the provers know none.
ASSUME PowerLaws ==
    \A m, n \in 0..AddrBits :
        2^n \in Nat \ {0} /\ (m + n <= AddrBits => 2^(m + n) = 2^m * 2^n)

Lengths    == 0..AddrBits
Addresses  == 0..(2^AddrBits - 1)
RadixSlots == 0..(2^RadixBits - 1)

\* The address of a prefix need not be masked: from_cidr takes it as written.
matches(r, ip) ==
    \/ r.len = 0
    \/ r.addr \div 2^(AddrBits - r.len) = ip \div 2^(AddrBits - r.len)

NoRoute == [addr |-> 0, len |-> 0, hop |-> "none", metric |-> 0]

\* Slip: the first match wins, whatever its length.
ahgf_lookup_First(routes, ip) ==
    FoldLeft(LAMBDA best, r : IF matches(r, ip) /\ best = NoRoute THEN r ELSE best,
             NoRoute, routes)

\* Phase 1: a later route replaces the best one only if it is longer.
ahgf_lookup(routes, ip) ==
    FoldLeft(LAMBDA best, r :
                 IF matches(r, ip) /\ (best = NoRoute \/ r.len > best.len)
                 THEN r ELSE best,
             NoRoute, routes)

\* Slip: the last match wins, whatever its length.
qagfhg_lookup_Last(routes, ip) ==
    FoldLeft(LAMBDA best, r : IF matches(r, ip) THEN r ELSE best, NoRoute, routes)

\* Phase 2: also if it is as long.
qagfhg_lookup(routes, ip) ==
    FoldLeft(LAMBDA best, r :
                 IF matches(r, ip) /\ r.len >= best.len THEN r ELSE best,
             NoRoute, routes)

\* Phase 3: routes of up to RadixBits bits live in the table, as their metric;
\* longer ones in a list that is searched as in phase 2.
radix_index(addr) == addr \div 2^(AddrBits - RadixBits)

radix_fill(r) ==
    {i \in RadixSlots :
        /\ radix_index(r.addr) <= i
        /\ i < radix_index(r.addr) + 2^(RadixBits - r.len)}

EmptyTrie == [radix_table |-> [i \in RadixSlots |-> 0], patricia_nodes |-> <<>>]

insert_into_hybrid_trie(trie, r) ==
    IF r.len <= RadixBits
    THEN [trie EXCEPT !.radix_table =
             [i \in RadixSlots \cup radix_fill(r) |->
                 IF i \in radix_fill(r) THEN r.metric ELSE trie.radix_table[i]]]
    ELSE [trie EXCEPT !.patricia_nodes = Append(@, r)]

lookup_from_patricia(trie, ip) == qagfhg_lookup(trie.patricia_nodes, ip)

\* A slot that is not zero answers, with the metric it holds and one next hop for
\* every route; the list is asked only otherwise.
scrtt_lookup(trie, ip) ==
    LET entry == trie.radix_table[radix_index(ip)]
    IN  IF entry # 0
        THEN [NoRoute EXCEPT !.hop = "gateway_radix", !.metric = entry]
        ELSE lookup_from_patricia(trie, ip)
=============================================================================
