--------------------------- MODULE AlgorithmProofs --------------------------
(***************************************************************************)
(* Proofs about three engines that threads share, for any number of        *)
(* threads and calls: the sheaf space, the QAGML interceptor and the       *)
(* driver's statistics; and about the codec, for every value and ratio.    *)
(***************************************************************************)
EXTENDS SheafSpace, QagmlEngine, MsiDriver, CodecLoops, Sums, SequenceTheorems, TLAPS

-----------------------------------------------------------------------------
\* The sheaf space.  A thread that is about to file a group has computed it from the
\* space as it is, since it still holds both read guards; that is what makes the
\* freshness of the cached group inductive.
SheafSpec == SheafInit /\ [][SheafNext]_sheafVars

\* Every thread's record says where the thread is.
UsersPlaced == /\ DOMAIN user = Users
               /\ \A u \in Users : "at" \in DOMAIN user[u]

\* A group that is about to be filed is that of the present space.
FiledCurrent == \A u \in Users : user[u].at = "file" => user[u].of = D0(space)

SheafInv == UsersPlaced /\ FiledCurrent /\ CohomologyFresh

LEMMA SheafInitInv == SheafInit => SheafInv
BY DEF SheafInit, SheafInv, UsersPlaced, FiledCurrent, CohomologyFresh, Free

\* A step that leaves the space and the group alone, and moves one thread between two
\* places neither of which is "clear", preserves the invariant.
LEMMA QuietCall ==
    ASSUME SheafInv, NEW u \in Users, user[u].at # "clear",
           space' = space, group' = group,
           NEW new, user' = [user EXCEPT ![u] = new],
           "at" \in DOMAIN new, new.at = "file" => new.of = D0(space)
    PROVE  SheafInv'
<1>1. D0(space)' = D0(space)
    BY DEF D0
<1>2. UsersPlaced'
    BY DEF SheafInv, UsersPlaced
<1>3. FiledCurrent'
    BY <1>1 DEF SheafInv, UsersPlaced, FiledCurrent
<1>4. CohomologyFresh'
    BY <1>1 DEF SheafInv, UsersPlaced, CohomologyFresh
<1>q. QED
    BY <1>2, <1>3, <1>4 DEF SheafInv

\* While some thread is about to file a group nobody else gets a write guard.
LEMMA FilingExcludesWriting ==
    ASSUME NEW u \in Users, NEW v \in Users \ {u}, user[v].at = "file",
           NEW lock \in {"stalks", "restrictions"}, CanWrite(u, lock)
    PROVE  FALSE
BY DEF CanWrite, ReadHeld

\* Adding to the space: the new call is at "clear", and nobody is about to file.
LEMMA AddStep ==
    ASSUME SheafInv, NEW u \in Users, NEW op, Call(u, op),
           NEW lock \in {"stalks", "restrictions"}, CanWrite(u, lock)
    PROVE  SheafInv'
<1>1. user' = [user EXCEPT ![u] = [op |-> op, at |-> "clear"]]
    BY DEF Call
<1>2. UsersPlaced'
    BY <1>1 DEF SheafInv, UsersPlaced
<1>3. FiledCurrent'
    <2>1. SUFFICES ASSUME NEW v \in Users, user'[v].at = "file" PROVE FALSE
        BY DEF FiledCurrent
    <2>2. v # u /\ user[v].at = "file"
        BY <1>1, <2>1 DEF SheafInv, UsersPlaced
    <2>q. QED
        BY <2>2, FilingExcludesWriting
<1>4. CohomologyFresh'
    BY <1>1 DEF SheafInv, UsersPlaced, CohomologyFresh
<1>q. QED
    BY <1>2, <1>3, <1>4 DEF SheafInv

LEMMA ClearStep ==
    ASSUME SheafInv, NEW u \in Users, ClearCache(u)
    PROVE  SheafInv'
<1>1. group' = Nothing /\ space' = space /\ user' = [user EXCEPT ![u] = Free]
    BY DEF ClearCache
<1>2. UsersPlaced'
    BY <1>1 DEF SheafInv, UsersPlaced, Free
<1>3. FiledCurrent'
    BY <1>1 DEF SheafInv, UsersPlaced, FiledCurrent, Free, D0
<1>4. CohomologyFresh'
    BY <1>1 DEF CohomologyFresh
<1>q. QED
    BY <1>2, <1>3, <1>4 DEF SheafInv

LEMMA FileStep ==
    ASSUME SheafInv, NEW u \in Users, FileGroup(u)
    PROVE  SheafInv'
<1>1. /\ group' = D0(space) /\ space' = space
      /\ user' = [user EXCEPT ![u].at = "grant"]
    BY DEF FileGroup, Goto, SheafInv, FiledCurrent
<1>2. D0(space)' = D0(space)
    BY <1>1 DEF D0
<1>3. UsersPlaced'
    BY <1>1 DEF SheafInv, UsersPlaced
<1>4. FiledCurrent'
    BY <1>1, <1>2 DEF SheafInv, UsersPlaced, FiledCurrent
<1>5. CohomologyFresh'
    BY <1>1, <1>2 DEF CohomologyFresh
<1>q. QED
    BY <1>3, <1>4, <1>5 DEF SheafInv

LEMMA SheafStep == SheafInv /\ [SheafNext]_sheafVars => SheafInv'
<1> SUFFICES ASSUME SheafInv, [SheafNext]_sheafVars PROVE SheafInv'
    OBVIOUS
<1>1. CASE UNCHANGED sheafVars
    BY <1>1 DEF sheafVars, SheafInv, UsersPlaced, FiledCurrent, CohomologyFresh, D0
<1>2. ASSUME NEW u \in Users, NEW n \in SpaceNodes, AddNode(u, n) PROVE SheafInv'
    BY <1>2, AddStep DEF AddNode
<1>3. ASSUME NEW u \in Users, NEW s \in SpaceNodes, NEW t \in SpaceNodes,
             AddRestriction(u, s, t)
      PROVE  SheafInv'
    BY <1>3, AddStep DEF AddRestriction
<1>4. ASSUME NEW u \in Users, NEW young \in BOOLEAN, LookInCache(u, young) PROVE SheafInv'
    <2> DEFINE new == [op |-> "allocate",
                       at |-> IF young /\ group # Nothing THEN "grant" ELSE "stalks"]
    <2>1. /\ user[u].at # "clear" /\ space' = space /\ group' = group
          /\ user' = [user EXCEPT ![u] = new]
        BY <1>4 DEF LookInCache, Free
    <2>2. "at" \in DOMAIN new /\ new.at # "file"
        OBVIOUS
    <2> HIDE DEF new
    <2>q. QED
        BY <2>1, <2>2, QuietCall
<1>5. ASSUME NEW u \in Users, ReadStalks(u) PROVE SheafInv'
    <2> DEFINE new == [user[u] EXCEPT !.at = "restrictions"]
    <2>1. /\ user[u].at # "clear" /\ space' = space /\ group' = group
          /\ user' = [user EXCEPT ![u] = new]
        BY <1>5 DEF ReadStalks, Goto
    <2>2. "at" \in DOMAIN new /\ new.at # "file"
        BY DEF SheafInv, UsersPlaced
    <2> HIDE DEF new
    <2>q. QED
        BY <2>1, <2>2, QuietCall
<1>6. ASSUME NEW u \in Users, ReadRestrictions(u) PROVE SheafInv'
    <2> DEFINE filing == [op |-> "allocate", at |-> "file", of |-> D0(space)]
    <2>1. user[u].at # "clear" /\ space' = space /\ group' = group
        BY <1>6 DEF ReadRestrictions
    <2>2. user' = [user EXCEPT ![u] = Free] \/ user' = [user EXCEPT ![u] = filing]
        BY <1>6 DEF ReadRestrictions
    <2>3. /\ "at" \in DOMAIN Free /\ Free.at # "file"
          /\ "at" \in DOMAIN filing /\ filing.of = D0(space)
        BY DEF Free
    <2> HIDE DEF filing
    <2>q. QED
        BY <2>1, <2>2, <2>3, QuietCall
<1>7. ASSUME NEW u \in Users, NEW n \in SpaceNodes, Grant(u, n) PROVE SheafInv'
    <2> DEFINE new == [op |-> "allocate",
                       grant |-> IF n \in space.nodes THEN Granted(NodeUnits + 1, 0) ELSE 0,
                       at |-> "answered"]
    <2>1. /\ user[u].at # "clear" /\ space' = space /\ group' = group
          /\ user' = [user EXCEPT ![u] = new]
        BY <1>7 DEF Grant
    <2>2. "at" \in DOMAIN new /\ new.at # "file"
        OBVIOUS
    <2> HIDE DEF new
    <2>q. QED
        BY <2>1, <2>2, QuietCall
<1>8. ASSUME NEW u \in Users, Answer(u) PROVE SheafInv'
    <2>1. /\ user[u].at # "clear" /\ space' = space /\ group' = group
          /\ user' = [user EXCEPT ![u] = Free]
        BY <1>8 DEF Answer
    <2>2. "at" \in DOMAIN Free /\ Free.at # "file"
        BY DEF Free
    <2>q. QED
        BY <2>1, <2>2, QuietCall
<1>q. QED
    BY <1>1, <1>2, <1>3, <1>4, <1>5, <1>6, <1>7, <1>8, ClearStep, FileStep DEF SheafNext

\* A cached group is never that of an older space once the call that changed the space
\* has returned (compute_h2_cohomology, add_node, add_restriction), whatever the number
\* of threads: the guards that the computation holds until it has filed decide it.
THEOREM GroupAlwaysFresh == SheafSpec => []CohomologyFresh
<1>1. SheafInv => CohomologyFresh
    BY DEF SheafInv
<1>q. QED
    BY SheafInitInv, SheafStep, <1>1, PTL DEF SheafSpec

-----------------------------------------------------------------------------
\* The interceptor's coalesced reads.
QagmlSpec == QagmlInit /\ [][QagmlNext]_qagmlVars

\* Requests and regions are pairs of numbers; whoever was served asked for one.
RequestsTyped ==
    /\ coalesced \in Seq(Int \X Int)
    /\ served \in [Readers -> SUBSET (Int \X Int)]
    /\ reading \in [Readers -> (Int \X Int) \cup {NoRegion}]
CoalescedInv == RequestsTyped /\ CoalescedCovered

\* A merge keeps the start of the request, and its end is no earlier than either end.
LEMMA MergedCovers ==
    ASSUME NEW old \in Int \X Int, NEW new \in Int \X Int
    PROVE  /\ Merged(old, new) \in Int \X Int
           /\ Merged(old, new)[1] = old[1]
           /\ End(old) <= End(Merged(old, new)) /\ End(new) <= End(Merged(old, new))
BY DEF Merged, End

LEMMA CoalescedInit == QagmlInit => CoalescedInv
BY DEF QagmlInit, CoalescedInv, RequestsTyped, CoalescedCovered

\* The two outcomes of TryCoalesce that change something.
LEMMA MergeStep ==
    ASSUME CoalescedInv, NEW r \in Readers, NEW region \in Int \X Int,
           NEW i \in DOMAIN coalesced, Extends(region, coalesced[i]),
           coalesced' = [coalesced EXCEPT ![i] = Merged(coalesced[i], region)],
           served' = [served EXCEPT ![r] = served[r] \union {region}],
           reading' = [reading EXCEPT ![r] = NoRegion]
    PROVE  CoalescedInv'
<1>1. /\ DOMAIN coalesced = 1..Len(coalesced) /\ DOMAIN coalesced' = DOMAIN coalesced
      /\ \A j \in DOMAIN coalesced : coalesced[j] \in Int \X Int
    BY DEF CoalescedInv, RequestsTyped
<1>2. /\ coalesced'[i] \in Int \X Int /\ coalesced'[i][1] = coalesced[i][1]
      /\ End(coalesced[i]) <= End(coalesced'[i]) /\ End(region) <= End(coalesced'[i])
    BY <1>1, MergedCovers
<1>3. \A j \in DOMAIN coalesced : j # i => coalesced'[j] = coalesced[j]
    BY <1>1
<1>4. coalesced' \in Seq(Int \X Int)
    BY <1>1, <1>2 DEF CoalescedInv, RequestsTyped
<1>5. RequestsTyped'
    BY <1>4 DEF CoalescedInv, RequestsTyped
<1>6. CoalescedCovered'
    <2>1. SUFFICES ASSUME NEW q \in Readers, NEW x \in served'[q]
                   PROVE  \E j \in DOMAIN coalesced' :
                              coalesced'[j][1] <= x[1] /\ End(x) <= End(coalesced'[j])
        BY DEF CoalescedCovered
    <2>2. CASE x \in served[q]
        <3>1. PICK j \in DOMAIN coalesced : coalesced[j][1] <= x[1] /\ End(x) <= End(coalesced[j])
            BY <2>2 DEF CoalescedInv, CoalescedCovered
        <3>2. x \in Int \X Int /\ End(x) \in Int /\ End(coalesced[j]) \in Int
            BY <1>1, <2>2 DEF CoalescedInv, RequestsTyped, End
        <3>3. CASE j = i
            <4>1. End(coalesced'[i]) \in Int
                BY <1>2 DEF End
            <4>2. coalesced'[i][1] <= x[1]
                BY <1>2, <3>1, <3>3
            <4>3. End(x) <= End(coalesced[i])
                BY <3>1, <3>3
            <4>4. End(x) <= End(coalesced'[i])
                BY <1>2, <3>2, <3>3, <4>1, <4>3
            <4>q. QED
                BY <1>1, <4>2, <4>4
        <3>4. CASE j # i
            BY <1>1, <1>3, <3>1, <3>4
        <3>q. QED
            BY <3>3, <3>4
    <2>3. CASE x \notin served[q]
        <3>1. x = region
            BY <2>1, <2>3 DEF CoalescedInv, RequestsTyped
        <3>2. coalesced'[i][1] <= region[1]
            BY <1>2 DEF Extends
        <3>q. QED
            BY <1>1, <1>2, <3>1, <3>2
    <2>q. QED
        BY <2>2, <2>3
<1>q. QED
    BY <1>5, <1>6 DEF CoalescedInv

LEMMA AppendStep ==
    ASSUME CoalescedInv, NEW region \in Int \X Int, NEW r \in Readers,
           coalesced' = Append(coalesced, region), served' = served,
           reading' = [reading EXCEPT ![r] = NoRegion]
    PROVE  CoalescedInv'
<1>1. /\ coalesced' \in Seq(Int \X Int) /\ DOMAIN coalesced \subseteq DOMAIN coalesced'
      /\ \A j \in DOMAIN coalesced : coalesced'[j] = coalesced[j]
    BY DEF CoalescedInv, RequestsTyped
<1>2. RequestsTyped'
    BY <1>1 DEF CoalescedInv, RequestsTyped
<1>3. CoalescedCovered'
    BY <1>1 DEF CoalescedInv, CoalescedCovered
<1>q. QED
    BY <1>2, <1>3 DEF CoalescedInv

LEMMA QuietRequests ==
    ASSUME CoalescedInv, coalesced' = coalesced, served' = served,
           reading' \in [Readers -> (Int \X Int) \cup {NoRegion}]
    PROVE  CoalescedInv'
BY DEF CoalescedInv, RequestsTyped, CoalescedCovered

LEMMA CoalesceStep ==
    ASSUME CoalescedInv, NEW r \in Readers, TryCoalesce(r)
    PROVE  CoalescedInv'
<1> DEFINE region == reading[r]
<1>t. region \in Int \X Int
    BY DEF CoalescedInv, RequestsTyped, TryCoalesce
<1>r. reading' = [reading EXCEPT ![r] = NoRegion] /\ reading' \in [Readers -> (Int \X Int) \cup {NoRegion}]
    BY DEF CoalescedInv, RequestsTyped, TryCoalesce
<1> DEFINE fits == {i \in DOMAIN coalesced : Extends(region, coalesced[i])}
<1>1. CASE fits # {}
    <2>1. PICK i \in fits :
             /\ coalesced' = [coalesced EXCEPT ![i] = Merged(coalesced[i], region)]
             /\ served' = [served EXCEPT ![r] = served[r] \union {region}]
        BY <1>1 DEF TryCoalesce
    <2>q. QED
        BY <1>t, <1>r, <2>1, MergeStep
<1>2. CASE fits = {}
    BY <1>t, <1>r, <1>2, AppendStep, QuietRequests DEF TryCoalesce
<1>q. QED
    BY <1>1, <1>2

LEMMA CoalescedStep ==
    ASSUME Regions \subseteq Int \X Int
    PROVE  CoalescedInv /\ [QagmlNext]_qagmlVars => CoalescedInv'
<1> SUFFICES ASSUME CoalescedInv, [QagmlNext]_qagmlVars PROVE CoalescedInv'
    OBVIOUS
<1>1. CASE UNCHANGED qagmlVars
    BY <1>1, QuietRequests DEF qagmlVars, CoalescedInv, RequestsTyped
<1>2. CASE UNCHANGED <<coalesced, cached, reading, served>>
    BY <1>2, QuietRequests DEF CoalescedInv, RequestsTyped
<1>3. ASSUME NEW region \in Regions, CacheData(region) PROVE CoalescedInv'
    BY <1>3, QuietRequests DEF CacheData, CoalescedInv, RequestsTyped
<1>4. ASSUME NEW region \in Regions, NEW r \in Readers, OptimizeRead(r, region)
      PROVE  CoalescedInv'
    <2>1. region \in Int \X Int
        OBVIOUS
    <2>q. QED
        BY <1>4, <2>1, QuietRequests DEF OptimizeRead, CoalescedInv, RequestsTyped
<1>5. ASSUME NEW r \in Readers, TryCoalesce(r) PROVE CoalescedInv'
    BY <1>5, CoalesceStep
<1>q. QED
    BY <1>1, <1>2, <1>3, <1>4, <1>5 DEF QagmlNext

\* Whatever regions any number of threads read, a read that was answered as coalesced
\* stays inside a pending request (try_coalesce never shrinks one).
THEOREM CoalescedStaysCovered ==
    ASSUME Regions \subseteq Int \X Int PROVE QagmlSpec => []CoalescedCovered
<1>1. CoalescedInv => CoalescedCovered
    BY DEF CoalescedInv
<1>q. QED
    BY CoalescedInit, CoalescedStep, <1>1, PTL DEF QagmlSpec


-----------------------------------------------------------------------------
\* The driver's statistics.  While the driver is bound, the counters differ by no more
\* than what the one access in the critical section has counted so far; and what has
\* been read of them is bounded by what the later ones are by now.
MsiSpec == MsiInit /\ [][MsiNext]_msiVars

AccessPoints == {"idle", "enter", "wait", "hit", "miss", "unlock", "faulted"}

MsiTyped ==
    /\ DOMAIN access = Accessors
    /\ \A r \in Accessors : access[r] \in AccessPoints
    /\ tally \in [DOMAIN NoCounts -> Nat]
    /\ shown \in Seq(Nat) /\ Len(shown) <= 4

\* The spin lock admits one access.
OneInSection == \A r, s \in InSection : r = s

\* Without a driver nobody is inside and nothing is shown.
NothingUnbound ==
    /\ control # {} => Len(held) = Len(Ladder)
    /\ control = {} => shown = <<>> /\ \A r \in Accessors : access[r] \in {"idle", "faulted"}

\* What the access inside has counted: a reconstruction before its miss, a hit or a miss
\* before its operation.
CountersClose ==
    control # {} =>
        /\ tally.reconstructions <= tally.cache_misses + 1
        /\ (\A r \in Accessors : access[r] # "miss") =>
               tally.reconstructions <= tally.cache_misses
        /\ Accesses <= tally.amplification_ops + 1
        /\ (\A r \in Accessors : access[r] # "unlock") => Accesses <= tally.amplification_ops

\* What has been read, against what has still to be read.
ShownBehind ==
    /\ Len(shown) >= 1 => shown[1] <= tally.cache_misses + 1
    /\ Len(shown) >= 2 => shown[2] <= tally.cache_hits
    /\ Len(shown) >= 3 => /\ shown[1] <= shown[3] + 1
                          /\ shown[2] + shown[3] <= tally.amplification_ops + 1

MsiInv ==
    MsiTyped /\ OneInSection /\ NothingUnbound /\ CountersClose /\ ShownBehind /\ SnapshotClose

LEMMA CounterNames ==
    DOMAIN NoCounts = {"reconstructions", "cache_hits", "cache_misses", "amplification_ops"}
BY DEF NoCounts

\* The counters are numbers.
LEMMA CountersAreNumbers ==
    ASSUME MsiTyped
    PROVE  /\ tally.reconstructions \in Nat /\ tally.cache_hits \in Nat
           /\ tally.cache_misses \in Nat /\ tally.amplification_ops \in Nat
BY CounterNames DEF MsiTyped

\* A counter that goes up stays a number and leaves the others alone.
LEMMA TallyOne ==
    ASSUME MsiTyped, NEW counter \in DOMAIN NoCounts, Tally(counter)
    PROVE  /\ tally' \in [DOMAIN NoCounts -> Nat]
           /\ tally'[counter] = tally[counter] + 1
           /\ \A c \in DOMAIN NoCounts \ {counter} : tally'[c] = tally[c]
BY DEF Tally, MsiTyped

\* At the start there is no driver.
LEMMA MsiInitInv == MsiInit => MsiInv
<1> SUFFICES ASSUME MsiInit PROVE MsiInv
    OBVIOUS
<1>1. MsiTyped
    BY CounterNames DEF MsiInit, MsiTyped, AccessPoints, NoCounts
<1>2. OneInSection
    BY DEF MsiInit, OneInSection, InSection
<1>q. QED
    BY <1>1, <1>2
       DEF MsiInit, MsiInv, NothingUnbound, CountersClose, ShownBehind, SnapshotClose

\* Probing happens without a driver, and ends with fresh counters; removal forgets what
\* was shown.
LEMMA BindStep ==
    ASSUME MsiInv, Acquire \/ ProbeFails \/ Publish \/ Unbind
    PROVE  MsiInv'
<1> USE DEF MsiInv
<1>1. CASE Acquire \/ ProbeFails
    <2>1. /\ Len(held) < Len(Ladder)
          /\ control' = control /\ access' = access /\ tally' = tally /\ shown' = shown
        BY <1>1 DEF Acquire, ProbeFails
    <2>2. control = {} /\ control' = {}
        <3>1. Len(held) # Len(Ladder)
            <4>1. Len(Ladder) = 7
                BY DEF Ladder
            <4>2. CASE Len(held) = Len(Ladder)
                <5>1. 7 < 7
                    BY <2>1, <4>1, <4>2
                <5>q. QED
                    BY <5>1
            <4>q. QED
                BY <4>2
        <3>q. QED
            BY <2>1, <3>1 DEF NothingUnbound
    <2>q. QED
        BY <2>1, <2>2
           DEF MsiTyped, OneInSection, InSection, NothingUnbound, CountersClose, ShownBehind,
               SnapshotClose
<1>2. CASE Publish
    <2>1. /\ Len(held') = Len(Ladder) /\ control = {} /\ control' # {}
          /\ tally' = NoCounts /\ access' = access /\ shown' = shown
        BY <1>2 DEF Publish
    <2>2. shown = <<>> /\ \A r \in Accessors : access[r] \in {"idle", "faulted"}
        BY <2>1 DEF NothingUnbound
    <2>3. MsiTyped'
        BY <2>1, CounterNames DEF MsiTyped, NoCounts
    <2>4. OneInSection'
        BY <2>1, <2>2 DEF OneInSection, InSection
    <2>5. CountersClose'
        BY <2>1 DEF CountersClose, Accesses, NoCounts
    <2>q. QED
        BY <2>1, <2>2, <2>3, <2>4, <2>5 DEF NothingUnbound, ShownBehind, SnapshotClose
<1>3. CASE Unbind
    <2>1. /\ control' = {} /\ shown' = <<>> /\ tally' = tally
          /\ access' = [r \in Accessors |-> IF access[r] = "idle" THEN "idle" ELSE "faulted"]
        BY <1>3 DEF Unbind
    <2>2. \A r \in Accessors : access'[r] \in {"idle", "faulted"}
        BY <2>1
    <2>3. MsiTyped'
        BY <2>1 DEF MsiTyped, AccessPoints
    <2>4. OneInSection'
        BY <2>2 DEF OneInSection, InSection
    <2>q. QED
        BY <2>1, <2>2, <2>3, <2>4 DEF NothingUnbound, CountersClose, ShownBehind, SnapshotClose
<1>q. QED
    BY <1>1, <1>2, <1>3

\* An access that moves inside the section, or into it, is alone there; so unless it is
\* about to count, the counters agree.
LEMMA AccessMoves ==
    ASSUME MsiInv, NEW r \in Accessors, NEW from, NEW to \in AccessPoints \ {"faulted"},
           from \notin {"idle", "faulted"}, Step(r, from, to), r \in InSection \/ LockFree(r),
           held' = held, control' = control \/ control' # {}
    PROVE  /\ DOMAIN access' = Accessors /\ access'[r] = to
           /\ \A s \in Accessors \ {r} : access'[s] \notin {"miss", "unlock"}
           /\ \A s \in Accessors : access'[s] \in AccessPoints
           /\ from # "miss" => tally.reconstructions <= tally.cache_misses
           /\ from # "unlock" => Accesses <= tally.amplification_ops
           /\ tally.reconstructions <= tally.cache_misses + 1
           /\ Accesses <= tally.amplification_ops + 1
           /\ OneInSection' /\ NothingUnbound'
<1> USE DEF MsiInv
<1>1. /\ DOMAIN access' = Accessors /\ access'[r] = to /\ access[r] = from
      /\ \A s \in Accessors \ {r} : access'[s] = access[s]
      /\ \A s \in Accessors : access'[s] \in AccessPoints
    BY DEF MsiTyped, Step
<1>2. InSection \ {r} = {}
    BY DEF LockFree, OneInSection
<1>3. \A s \in Accessors \ {r} : access[s] \in {"idle", "enter", "faulted"}
    BY <1>2 DEF InSection
<1>4. OneInSection'
    BY <1>1, <1>3 DEF OneInSection, InSection
<1>5. control # {}
    BY <1>1 DEF NothingUnbound
<1>6. NothingUnbound'
    BY <1>5 DEF NothingUnbound
<1>7. /\ from # "miss" => \A s \in Accessors : access[s] # "miss"
      /\ from # "unlock" => \A s \in Accessors : access[s] # "unlock"
    BY <1>1, <1>3
<1>q. QED
    BY <1>1, <1>3, <1>4, <1>5, <1>6, <1>7 DEF CountersClose

\* What was read stays behind counters that only go up.
LEMMA ShownKept ==
    ASSUME MsiInv, shown' = shown, tally' \in [DOMAIN NoCounts -> Nat],
           tally'.cache_hits >= tally.cache_hits, tally'.cache_misses >= tally.cache_misses,
           tally'.amplification_ops >= tally.amplification_ops
    PROVE  ShownBehind' /\ SnapshotClose'
<1>1. /\ tally.cache_hits \in Nat /\ tally.cache_misses \in Nat
      /\ tally.amplification_ops \in Nat
      /\ tally'.cache_hits \in Nat /\ tally'.cache_misses \in Nat
      /\ tally'.amplification_ops \in Nat
    BY CountersAreNumbers, CounterNames DEF MsiInv
<1>2. /\ Len(shown) >= 1 => shown[1] \in Nat
      /\ Len(shown) >= 2 => shown[2] \in Nat
      /\ Len(shown) >= 3 => shown[3] \in Nat
    BY DEF MsiInv, MsiTyped
<1>3. Len(shown) \in Nat
    BY DEF MsiInv, MsiTyped
<1>4. ShownBehind'
    <2>1. ShownBehind
        BY DEF MsiInv
    <2>2. Len(shown) >= 1 => shown[1] <= tally'.cache_misses + 1
        BY <1>1, <1>2, <2>1 DEF ShownBehind
    <2>3. Len(shown) >= 2 => shown[2] <= tally'.cache_hits
        BY <1>1, <1>2, <2>1 DEF ShownBehind
    <2>4. Len(shown) >= 3 => /\ shown[1] <= shown[3] + 1
                             /\ shown[2] + shown[3] <= tally'.amplification_ops + 1
        <3>1. CASE Len(shown) >= 3
            <4>1. shown[2] + shown[3] \in Nat
                BY <1>2, <1>3, <3>1
            <4>2. shown[2] + shown[3] <= tally.amplification_ops + 1
                BY <2>1, <3>1 DEF ShownBehind
            <4>3. shown[1] <= shown[3] + 1
                BY <2>1, <3>1 DEF ShownBehind
            <4>4. shown[2] + shown[3] <= tally'.amplification_ops + 1
                BY <1>1, <4>1, <4>2
            <4>q. QED
                BY <4>3, <4>4
        <3>q. QED
            BY <3>1
    <2>q. QED
        BY <2>2, <2>3, <2>4 DEF ShownBehind
<1>5. SnapshotClose'
    BY DEF MsiInv, SnapshotClose
<1>q. QED
    BY <1>4, <1>5

\* Entering: nobody gets inside yet.
LEMMA EnterStep ==
    ASSUME MsiInv, NEW r \in Accessors, Enter(r)
    PROVE  MsiInv'
<1> USE DEF MsiInv
<1>1. /\ control # {} /\ control' = control /\ held' = held /\ tally' = tally /\ shown' = shown
      /\ access[r] = "idle" /\ access' = [access EXCEPT ![r] = "enter"]
    BY DEF Enter, Bound, Step
<1>2. MsiTyped'
    BY <1>1 DEF MsiTyped, AccessPoints
<1>3. /\ \A s \in Accessors \ {r} : access'[s] = access[s]
      /\ access'[r] = "enter"
    BY <1>1 DEF MsiTyped
<1>4. OneInSection'
    BY <1>1, <1>3 DEF OneInSection, InSection
<1>5. CountersClose'
    BY <1>1, <1>3 DEF CountersClose, Accesses
<1>q. QED
    BY <1>1, <1>2, <1>4, <1>5 DEF NothingUnbound, ShownBehind, SnapshotClose

\* The steps inside the section: a reconstruction, a hit, a miss or an operation is
\* counted, one at a time.
LEMMA SectionStep ==
    ASSUME MsiInv, NEW r \in Accessors,
           (\E inBoundary \in BOOLEAN : Lock(r, inBoundary)) \/ Poll(r) \/ CountAccess(r)
               \/ Unlock(r)
    PROVE  MsiInv'
<1>0. MsiTyped /\ shown' = shown /\ held' = held /\ (control' = control \/ control' # {})
    BY DEF MsiInv, Lock, Poll, CountAccess, Unlock
<1>1. \A at : access[r] = at /\ at \in {"wait", "hit", "miss", "unlock"} => r \in InSection
    BY DEF InSection
<1>2. CASE \E inBoundary \in BOOLEAN : Lock(r, inBoundary)
    <2>1. PICK to \in {"hit", "wait"} : Step(r, "enter", to)
        BY <1>2 DEF Lock
    <2>2. LockFree(r) /\ tally' = tally
        BY <1>2 DEF Lock
    <2>3. /\ DOMAIN access' = Accessors /\ access'[r] = to
          /\ \A s \in Accessors \ {r} : access'[s] \notin {"miss", "unlock"}
          /\ \A s \in Accessors : access'[s] \in AccessPoints
          /\ tally.reconstructions <= tally.cache_misses
          /\ Accesses <= tally.amplification_ops
          /\ OneInSection' /\ NothingUnbound'
        BY <1>0, <2>1, <2>2, AccessMoves DEF AccessPoints
    <2>4. CountersClose'
        BY <1>0, <2>2, <2>3, CountersAreNumbers DEF CountersClose, Accesses
    <2>5. ShownBehind' /\ SnapshotClose'
        BY <1>0, <2>2 DEF MsiInv, ShownBehind, SnapshotClose
    <2>q. QED
        BY <1>0, <2>2, <2>3, <2>4, <2>5 DEF MsiInv, MsiTyped
<1>3. CASE Poll(r)
    <2>1. /\ Step(r, "wait", "miss") /\ r \in InSection
          /\ Tally("reconstructions") \/ tally' = tally
        BY <1>1, <1>3 DEF Poll, Step
    <2>2. /\ DOMAIN access' = Accessors /\ access'[r] = "miss"
          /\ \A s \in Accessors \ {r} : access'[s] \notin {"miss", "unlock"}
          /\ \A s \in Accessors : access'[s] \in AccessPoints
          /\ tally.reconstructions <= tally.cache_misses
          /\ Accesses <= tally.amplification_ops
          /\ OneInSection' /\ NothingUnbound'
        BY <1>0, <2>1, AccessMoves DEF AccessPoints
    <2>3. /\ tally' \in [DOMAIN NoCounts -> Nat]
          /\ tally'.reconstructions \in {tally.reconstructions, tally.reconstructions + 1}
          /\ tally'.cache_hits = tally.cache_hits /\ tally'.cache_misses = tally.cache_misses
          /\ tally'.amplification_ops = tally.amplification_ops
        BY <1>0, <2>1, TallyOne, CounterNames DEF MsiTyped
    <2>4. CountersClose'
        BY <1>0, <2>2, <2>3, CountersAreNumbers DEF CountersClose, Accesses
    <2>5. ShownBehind' /\ SnapshotClose'
        BY <1>0, <2>3, ShownKept, CountersAreNumbers
    <2>q. QED
        BY <1>0, <2>2, <2>3, <2>4, <2>5 DEF MsiInv, MsiTyped
<1>4. CASE CountAccess(r)
    <2>1. PICK from \in {"hit", "miss"} :
              /\ Step(r, from, "unlock") /\ r \in InSection
              /\ Tally(IF from = "hit" THEN "cache_hits" ELSE "cache_misses")
        BY <1>1, <1>4 DEF CountAccess, Step
    <2>2. /\ DOMAIN access' = Accessors /\ access'[r] = "unlock"
          /\ \A s \in Accessors \ {r} : access'[s] \notin {"miss", "unlock"}
          /\ \A s \in Accessors : access'[s] \in AccessPoints
          /\ from # "miss" => tally.reconstructions <= tally.cache_misses
          /\ tally.reconstructions <= tally.cache_misses + 1
          /\ Accesses <= tally.amplification_ops
          /\ OneInSection' /\ NothingUnbound'
        BY <1>0, <2>1, AccessMoves DEF AccessPoints
    <2>3. /\ tally' \in [DOMAIN NoCounts -> Nat]
          /\ tally'.reconstructions = tally.reconstructions
          /\ tally'.cache_hits = IF from = "hit" THEN tally.cache_hits + 1 ELSE tally.cache_hits
          /\ tally'.cache_misses
                 = IF from = "miss" THEN tally.cache_misses + 1 ELSE tally.cache_misses
          /\ tally'.amplification_ops = tally.amplification_ops
        <3>1. CASE from = "hit"
            BY <1>0, <2>1, <3>1, TallyOne, CounterNames
        <3>2. CASE from = "miss"
            BY <1>0, <2>1, <3>2, TallyOne, CounterNames
        <3>q. QED
            BY <2>1, <3>1, <3>2
    <2>4. CountersClose'
        BY <1>0, <2>1, <2>2, <2>3, CountersAreNumbers DEF CountersClose, Accesses
    <2>5. ShownBehind' /\ SnapshotClose'
        BY <1>0, <2>3, ShownKept, CountersAreNumbers
    <2>q. QED
        BY <1>0, <2>2, <2>3, <2>4, <2>5 DEF MsiInv, MsiTyped
<1>5. CASE Unlock(r)
    <2>1. Step(r, "unlock", "idle") /\ r \in InSection /\ Tally("amplification_ops")
        BY <1>1, <1>5 DEF Unlock, Step
    <2>2. /\ DOMAIN access' = Accessors /\ access'[r] = "idle"
          /\ \A s \in Accessors \ {r} : access'[s] \notin {"miss", "unlock"}
          /\ \A s \in Accessors : access'[s] \in AccessPoints
          /\ tally.reconstructions <= tally.cache_misses
          /\ Accesses <= tally.amplification_ops + 1
          /\ OneInSection' /\ NothingUnbound'
        BY <1>0, <2>1, AccessMoves DEF AccessPoints
    <2>3. /\ tally' \in [DOMAIN NoCounts -> Nat]
          /\ tally'.reconstructions = tally.reconstructions
          /\ tally'.cache_hits = tally.cache_hits /\ tally'.cache_misses = tally.cache_misses
          /\ tally'.amplification_ops = tally.amplification_ops + 1
        BY <1>0, <2>1, TallyOne, CounterNames
    <2>4. CountersClose'
        BY <1>0, <2>2, <2>3, CountersAreNumbers DEF CountersClose, Accesses
    <2>5. ShownBehind' /\ SnapshotClose'
        BY <1>0, <2>3, ShownKept, CountersAreNumbers
    <2>q. QED
        BY <1>0, <2>2, <2>3, <2>4, <2>5 DEF MsiInv, MsiTyped
<1>q. QED
    BY <1>2, <1>3, <1>4, <1>5

\* The status file reads one counter, or begins anew.
LEMMA StatusReadStep ==
    ASSUME MsiInv, ReadCounter
    PROVE  MsiInv'
<1> USE DEF MsiInv
<1>1. /\ control # {} /\ held' = held /\ control' = control /\ access' = access
      /\ tally' = tally
    BY DEF ReadCounter, Bound
<1>2. /\ tally.reconstructions \in Nat /\ tally.cache_hits \in Nat
      /\ tally.cache_misses \in Nat /\ tally.amplification_ops \in Nat
    BY CountersAreNumbers
<1>3. OneInSection' /\ NothingUnbound' /\ CountersClose'
    BY <1>1 DEF OneInSection, InSection, NothingUnbound, CountersClose, Accesses
<1>4. /\ tally.reconstructions <= tally.cache_misses + 1
      /\ tally.cache_hits + tally.cache_misses <= tally.amplification_ops + 1
    BY <1>1 DEF CountersClose, Accesses
<1>5. CASE Len(shown) = 4
    <2>1. shown' = <<>>
        BY <1>5 DEF ReadCounter
    <2>q. QED
        BY <1>1, <1>3, <2>1 DEF MsiTyped, ShownBehind, SnapshotClose
<1>6. CASE Len(shown) # 4
    <2>1. shown \in Seq(Nat) /\ Len(shown) \in 0..3
        <3>1. shown \in Seq(Nat) /\ Len(shown) <= 4
            BY DEF MsiTyped
        <3>2. Len(shown) \in Nat
            BY <3>1
        <3>3. \A n \in Nat : n <= 4 /\ n # 4 => n \in 0..3
            OBVIOUS
        <3>4. Len(shown) \in 0..3
            BY <1>6, <3>1, <3>2, <3>3, Zenon
        <3>q. QED
            BY <3>1, <3>4
    <2>2. PICK n \in Nat :
              /\ shown' = Append(shown, n)
              /\ Len(shown) = 0 => n = tally.reconstructions
              /\ Len(shown) = 1 => n = tally.cache_hits
              /\ Len(shown) = 2 => n = tally.cache_misses
              /\ Len(shown) = 3 => n = tally.amplification_ops
        <3>1. CASE Len(shown) = 0
            BY <1>2, <3>1 DEF ReadCounter
        <3>2. CASE Len(shown) = 1
            BY <1>2, <3>2 DEF ReadCounter
        <3>3. CASE Len(shown) = 2
            BY <1>2, <3>3 DEF ReadCounter
        <3>4. CASE Len(shown) = 3
            BY <1>2, <3>4 DEF ReadCounter
        <3>q. QED
            BY <2>1, <3>1, <3>2, <3>3, <3>4
    <2>3. /\ shown' \in Seq(Nat) /\ Len(shown') = Len(shown) + 1
          /\ \A i \in 1..Len(shown) : shown'[i] = shown[i] /\ shown[i] \in Nat
          /\ shown'[Len(shown) + 1] = n
        BY <2>1, <2>2
    <2>4. MsiTyped'
        <3>1. Len(shown') <= 4
            <4>1. \A k \in 0..3 : k + 1 <= 4
                OBVIOUS
            <4>2. Len(shown) + 1 <= 4
                BY <2>1, <4>1, Zenon
            <4>q. QED
                BY <2>3, <4>2, Zenon
        <3>q. QED
            BY <1>1, <2>3, <3>1 DEF MsiTyped
    <2>5. ShownBehind' /\ SnapshotClose'
        <3>1. CASE Len(shown) = 0
            BY <1>1, <1>2, <1>4, <2>2, <2>3, <3>1 DEF ShownBehind, SnapshotClose
        <3>2. CASE Len(shown) = 1
            BY <1>1, <1>2, <1>4, <2>2, <2>3, <3>2 DEF ShownBehind, SnapshotClose
        <3>3. CASE Len(shown) = 2
            <4>1. /\ shown'[1] = shown[1] /\ shown'[2] = shown[2]
                  /\ shown[1] \in Nat /\ shown[2] \in Nat
                  /\ shown'[3] = n /\ Len(shown') = 3 /\ n = tally.cache_misses
                BY <2>2, <2>3, <3>3
            <4>2. shown[1] <= tally.cache_misses + 1 /\ shown[2] <= tally.cache_hits
                BY <3>3 DEF ShownBehind
            <4>3. shown[2] + n <= tally.amplification_ops + 1
                BY <1>2, <1>4, <4>1, <4>2
            <4>q. QED
                BY <1>1, <4>1, <4>2, <4>3 DEF ShownBehind, SnapshotClose
        <3>4. CASE Len(shown) = 3
            <4>1. /\ shown'[1] = shown[1] /\ shown'[2] = shown[2] /\ shown'[3] = shown[3]
                  /\ shown'[4] = n /\ Len(shown') = 4 /\ n = tally.amplification_ops
                BY <2>2, <2>3, <3>4
            <4>2. /\ shown[1] <= tally.cache_misses + 1 /\ shown[2] <= tally.cache_hits
                  /\ shown[1] <= shown[3] + 1
                  /\ shown[2] + shown[3] <= tally.amplification_ops + 1
                BY <3>4 DEF ShownBehind
            <4>q. QED
                BY <1>1, <4>1, <4>2 DEF ShownBehind, SnapshotClose
        <3>q. QED
            BY <2>1, <3>1, <3>2, <3>3, <3>4
    <2>q. QED
        BY <1>3, <2>4, <2>5
<1>q. QED
    BY <1>5, <1>6

LEMMA MsiStep == MsiInv /\ [MsiNext]_msiVars => MsiInv'
<1> SUFFICES ASSUME MsiInv, [MsiNext]_msiVars PROVE MsiInv'
    OBVIOUS
<1>1. CASE \/ UNCHANGED msiVars \/ Interrupt
           \/ \E result \in {"ready", "error"} : Reconstruction(result)
    <2>1. /\ held' = held /\ control' = control /\ access' = access /\ tally' = tally
          /\ shown' = shown
        BY <1>1 DEF msiVars, Reconstruction, Interrupt
    <2>q. QED
        BY <2>1
           DEF MsiInv, MsiTyped, OneInSection, InSection, NothingUnbound, CountersClose,
               Accesses, ShownBehind, SnapshotClose
<1>2. CASE Acquire \/ ProbeFails \/ Publish \/ Unbind
    BY <1>2, BindStep
<1>3. CASE ReadCounter
    BY <1>3, StatusReadStep
<1>4. ASSUME NEW r \in Accessors,
             \/ Enter(r) \/ Poll(r) \/ CountAccess(r) \/ Unlock(r)
             \/ \E inBoundary \in BOOLEAN : Lock(r, inBoundary)
      PROVE  MsiInv'
    BY <1>4, EnterStep, SectionStep
<1>q. QED
    BY <1>1, <1>2, <1>3, <1>4 DEF MsiNext

\* A status that the driver shows is never further from consistent than one access, for
\* any number of accesses, removals and probes in between (msi_get_performance_stats).
THEOREM StatusNearlyConsistent == MsiSpec => []SnapshotClose
<1>1. MsiInv => SnapshotClose
    BY DEF MsiInv
<1>q. QED
    BY MsiInitInv, MsiStep, <1>1, PTL DEF MsiSpec

-----------------------------------------------------------------------------
\* The codec.  Both loops are folds over the offsets of a value; by what they have after
\* k bytes they are shown to produce the closed forms, for every value and ratio.
\*
\* What a sequence becomes by one more element.
LEMMA OneLonger ==
    ASSUME NEW S, NEW m \in Nat, NEW h \in [1..(m + 1) -> S], NEW s, s = [i \in 1..m |-> h[i]]
    PROVE  Append(s, h[m + 1]) = h
<1>1. s \in [1..m -> S]
    OBVIOUS
<1>2. s \in Seq(S) /\ Len(s) = m
    BY <1>1
<1>3. Append(s, h[m + 1]) \in Seq(S) /\ Len(Append(s, h[m + 1])) = m + 1
    BY <1>2
<1>4. h \in Seq(S) /\ Len(h) = m + 1
    OBVIOUS
<1>5. \A i \in 1..(m + 1) : Append(s, h[m + 1])[i] = h[i]
    BY <1>2
<1>q. QED
    BY <1>3, <1>4, <1>5, SeqEqual

\* How many of the offsets 0 to k - 1 are multiples of r.
Strides(k, r) == (k + r - 1) \div r

LEMMA StridesAt ==
    ASSUME NEW r \in Nat \ {0}, NEW k \in Nat \ {0}, NEW q, q = (k - 1) \div r
    PROVE  /\ q \in Nat /\ r * q <= k - 1 /\ k - 1 < r * q + r
           /\ (k - 1) % r = k - 1 - r * q
           /\ Strides(k, r) = q + 1
           /\ Strides(k - 1, r) = IF (k - 1) % r = 0 THEN q ELSE q + 1
<1>1. /\ q \in Nat /\ r * q <= k - 1 /\ k - 1 < r * q + r
      /\ (k - 1) % r = k - 1 - r * q
    BY QuotientRange
<1>a. r * q \in Nat /\ r * (q + 1) = r * q + r
    BY <1>1
<1>2. Strides(k, r) = q + 1
    <2>1. k + r - 1 \in Nat /\ r * (q + 1) <= k + r - 1 /\ k + r - 1 < r * (q + 1) + r
        BY <1>1, <1>a
    <2>q. QED
        BY <1>1, <2>1, QuotientIs DEF Strides
<1>3. CASE (k - 1) % r = 0
    <2>1. k - 1 = r * q
        BY <1>1, <1>3, <1>a
    <2>2. (k - 1) + r - 1 \in Nat /\ r * q <= (k - 1) + r - 1 /\ (k - 1) + r - 1 < r * q + r
        BY <2>1, <1>a, <1>1
    <2>3. Strides(k - 1, r) = q
        BY <1>1, <2>2, QuotientIs DEF Strides
    <2>q. QED
        BY <1>1, <1>2, <1>3, <2>3
<1>4. CASE (k - 1) % r # 0
    <2>1. k - 1 >= r * q + 1
        BY <1>1, <1>4, <1>a
    <2>2. /\ (k - 1) + r - 1 \in Nat /\ r * (q + 1) <= (k - 1) + r - 1
          /\ (k - 1) + r - 1 < r * (q + 1) + r
        BY <2>1, <1>a, <1>1
    <2>3. Strides(k - 1, r) = q + 1
        BY <1>1, <2>2, QuotientIs DEF Strides
    <2>q. QED
        BY <1>1, <1>2, <1>4, <2>3
<1>q. QED
    BY <1>1, <1>2, <1>3, <1>4

LEMMA StridesOfNothing == ASSUME NEW r \in Nat \ {0} PROVE Strides(0, r) = 0
<1>1. 0 + r - 1 \in Nat /\ r * 0 <= 0 + r - 1 /\ 0 + r - 1 < r * 0 + r
    OBVIOUS
<1>q. QED
    BY <1>1, QuotientIs DEF Strides

\* The rates are positive.
LEMMA RatesPositive ==
    ASSUME NEW n \in Nat
    PROVE  /\ target_size(n) \in Nat \ {0}
           /\ sample_rate(n) \in Nat \ {0}
           /\ SampleCount(n) = Strides(n, sample_rate(n))
<1>1. target_size(n) \in Nat \ {0}
    BY RatioAssumption DEF target_size, AtLeast1
<1>2. sample_rate(n) \in Nat \ {0}
    BY <1>1 DEF sample_rate, AtLeast1
<1>q. QED
    BY <1>1, <1>2 DEF SampleCount, Strides

\* What is sampled lies within the value.
LEMMA SampledWithin ==
    ASSUME NEW n \in Nat, NEW r \in Nat \ {0}
    PROVE  /\ Strides(n, r) \in Nat /\ Strides(n, r) <= n
           /\ \A i \in 1..Strides(n, r) : (i - 1) * r + 1 \in 1..n
<1>1. CASE n = 0
    BY <1>1, StridesOfNothing
<1>2. CASE n # 0
    <2> DEFINE q == (n - 1) \div r
    <2>1. q \in Nat /\ r * q <= n - 1 /\ Strides(n, r) = q + 1
        BY <1>2, StridesAt
    <2> HIDE DEF q
    <2>2. q <= r * q
        BY <2>1
    <2>3. ASSUME NEW i \in 1..(q + 1) PROVE (i - 1) * r + 1 \in 1..n
        <3>1. i - 1 \in Nat /\ i - 1 <= q
            BY <2>1
        <3>2. (i - 1) * r <= r * q /\ (i - 1) * r \in Nat
            BY <2>1, <3>1
        <3>q. QED
            BY <2>1, <3>2
    <2>q. QED
        BY <2>1, <2>2, <2>3
<1>q. QED
    BY <1>1, <1>2


\* A value's samples are bytes of it.
LEMMA SamplesOf ==
    ASSUME NEW A, NEW d \in Seq(A)
    PROVE  /\ compress(d) \in Seq(A)
           /\ Len(compress(d)) = Strides(Len(d), sample_rate(Len(d)))
           /\ \A i \in 1..Len(compress(d)) :
                compress(d)[i] = d[(i - 1) * sample_rate(Len(d)) + 1]
<1> DEFINE n == Len(d)
           r == sample_rate(n)
           m == Strides(n, r)
<1>0. n \in Nat
    OBVIOUS
<1>1. r \in Nat \ {0} /\ SampleCount(n) = m
    BY <1>0, RatesPositive
<1>2. m \in Nat /\ \A i \in 1..m : (i - 1) * r + 1 \in 1..n
    BY <1>0, <1>1, SampledWithin
<1>3. compress(d) = [i \in 1..m |-> d[(i - 1) * r + 1]]
    BY <1>1 DEF compress
<1>4. \A j \in 1..n : d[j] \in A
    OBVIOUS
<1> HIDE DEF n, r, m
<1>5. \A i \in 1..m : d[(i - 1) * r + 1] \in A
    BY <1>2, <1>4
<1>6. compress(d) \in [1..m -> A]
    BY <1>3, <1>5
<1>7. compress(d) \in Seq(A) /\ Len(compress(d)) = m
    BY <1>2, <1>6
<1>q. QED
    BY <1>3, <1>7 DEF m, r, n

-----------------------------------------------------------------------------
\* The loop in compress.
CompressFolds(d, g) ==
    g = [s \in SUBSET (DOMAIN Offsets(Len(d))) |->
            IF s = {} THEN <<>> ELSE CompressStep(d, g[s \ {Max(s)}], Offsets(Len(d))[Max(s)])]

LEMMA CompressIsFold ==
    ASSUME NEW d
    PROVE  CompressLoop(d) = (CHOOSE g : CompressFolds(d, g))[DOMAIN Offsets(Len(d))]
BY DEF CompressLoop, CompressFolds, FoldLeft, MapThenFoldSet

\* What it has pushed after the first k bytes.
Pushed(d, k) == [i \in 1..Strides(k, sample_rate(Len(d))) |-> d[(i - 1) * sample_rate(Len(d)) + 1]]

\* It exists.
LEMMA CompressFoldExists ==
    ASSUME NEW A, NEW d \in Seq(A)
    PROVE  \E g : CompressFolds(d, g)
<1> DEFINE n == Len(d)
           V == Seq(A)
           f == [p \in V \X (1..n) |-> CompressStep(d, p[1], p[2] - 1)]
<1>1. n \in Nat /\ <<>> \in V
    OBVIOUS
<1>2. \A v \in V, i \in 1..n : CompressStep(d, v, i - 1) \in V /\ f[<<v, i>>] = CompressStep(d, v, i - 1)
    <2>1. ASSUME NEW v \in V, NEW i \in 1..n PROVE CompressStep(d, v, i - 1) \in V
        <3>1. d[(i - 1) + 1] \in A
            OBVIOUS
        <3>q. QED
            BY <3>1 DEF CompressStep
    <2>q. QED
        BY <2>1
<1>3. f \in [V \X (1..n) -> V]
    BY <1>2
<1> HIDE DEF f, V
<1>4. PICK g : Folding(f, <<>>, 1..n, g) /\ \A s \in SUBSET (1..n) : g[s] \in V
    <2> HIDE DEF n
    <2>q. QED
        BY <1>1, <1>3, FoldPositions
<1>5. DOMAIN Offsets(n) = 1..n /\ \A i \in 1..n : Offsets(n)[i] = i - 1
    BY DEF Offsets
<1>6. \A s \in SUBSET (1..n) : s # {} => Max(s) \in 1..n
    <2>1. IsFiniteSet(1..n) /\ 1..n \in SUBSET Int
        BY <1>1, FS_Interval
    <2>q. QED
        BY <2>1, LastIn
<1> DEFINE h(s) == IF s = {} THEN <<>> ELSE CompressStep(d, g[s \ {Max(s)}], Offsets(n)[Max(s)])
<1>7. ASSUME NEW s \in SUBSET (1..n) PROVE g[s] = h(s)
    <2>1. g[s] = IF s = {} THEN <<>> ELSE f[<<g[s \ {Max(s)}], Max(s)>>]
        BY <1>4, FoldAt
    <2>2. s \ {Max(s)} \in SUBSET (1..n) /\ g[s \ {Max(s)}] \in V
        BY <1>4
    <2>3. ASSUME s # {}
          PROVE  f[<<g[s \ {Max(s)}], Max(s)>>] = CompressStep(d, g[s \ {Max(s)}], Offsets(n)[Max(s)])
        <3>1. Max(s) \in 1..n
            BY <1>6, <2>3
        <3>2. Offsets(n)[Max(s)] = Max(s) - 1
            BY <1>5, <3>1
        <3> HIDE DEF n
        <3>q. QED
            BY <1>2, <2>2, <3>1, <3>2
    <2> HIDE DEF n
    <2>q. QED
        BY <2>1, <2>3
<1>8. g = [s \in SUBSET (1..n) |-> g[s]]
    BY <1>4 DEF Folding
<1> HIDE DEF n, h
<1>9. g = [s \in SUBSET (1..n) |-> h(s)]
    BY <1>7, <1>8
<1>10. g = [s \in SUBSET (DOMAIN Offsets(n)) |-> h(s)]
    BY <1>5, <1>9
<1>q. QED
    BY <1>10 DEF CompressFolds, h, n


\* What the loop has pushed when it is through with k bytes.
LEMMA CompressStretch ==
    ASSUME NEW A, NEW d \in Seq(A), NEW g, CompressFolds(d, g), NEW k \in 1..Len(d),
           g[1..(k - 1)] = Pushed(d, k - 1)
    PROVE  g[1..k] = Pushed(d, k)
<1> DEFINE n == Len(d)
           r == sample_rate(n)
           q == (k - 1) \div r
<1>0. n \in Nat /\ k \in 1..n /\ k \in Nat \ {0}
    OBVIOUS
<1>1. r \in Nat \ {0}
    BY <1>0, RatesPositive
<1>2. /\ q \in Nat /\ r * q <= k - 1 /\ (k - 1) % r = k - 1 - r * q
      /\ Strides(k, r) = q + 1
      /\ Strides(k - 1, r) = IF (k - 1) % r = 0 THEN q ELSE q + 1
    BY <1>0, <1>1, StridesAt
<1>3. DOMAIN Offsets(n) = 1..n /\ Offsets(n)[k] = k - 1
    BY <1>0 DEF Offsets
<1>4. g[1..k] = CompressStep(d, Pushed(d, k - 1), k - 1)
    <2>1. 1..k # {} /\ Max(1..k) = k /\ (1..k) \ {Max(1..k)} = 1..(k - 1)
        BY <1>0, LastOfEach
    <2>2. 1..k \in SUBSET (1..n)
        BY <1>0
    <2>3. g = [s \in SUBSET (1..n) |->
                IF s = {} THEN <<>> ELSE CompressStep(d, g[s \ {Max(s)}], Offsets(n)[Max(s)])]
        BY <1>3 DEF CompressFolds
    <2> HIDE DEF n
    <2>4. g[1..k] = IF 1..k = {} THEN <<>>
                    ELSE CompressStep(d, g[(1..k) \ {Max(1..k)}], Offsets(n)[Max(1..k)])
        BY <2>2, <2>3
    <2>q. QED
        BY <2>1, <2>4, <1>3
<1>5. /\ Pushed(d, k) = [i \in 1..(q + 1) |-> d[(i - 1) * r + 1]]
      /\ Pushed(d, k - 1) = [i \in 1..Strides(k - 1, r) |-> d[(i - 1) * r + 1]]
    BY <1>2 DEF Pushed
<1>6. CompressStep(d, Pushed(d, k - 1), k - 1) =
        IF (k - 1) % r = 0 THEN Append(Pushed(d, k - 1), d[k]) ELSE Pushed(d, k - 1)
    BY <1>0 DEF CompressStep
<1>8. \A j \in 1..n : d[j] \in A
    OBVIOUS
<1> HIDE DEF n, r, q
<1>7. \A i \in 1..(q + 1) : (i - 1) * r + 1 \in 1..n
    <2>2. ASSUME NEW i \in 1..(q + 1) PROVE (i - 1) * r + 1 \in 1..n
        <3>1. i - 1 \in Nat /\ i - 1 <= q
            BY <1>2
        <3>2. (i - 1) * r <= r * q /\ (i - 1) * r \in Nat
            BY <1>1, <1>2, <3>1
        <3>3. r * q \in Nat
            BY <1>1, <1>2
        <3>q. QED
            BY <1>0, <1>2, <3>2, <3>3
    <2>q. QED
        BY <2>2
<1>9. CASE (k - 1) % r = 0
    <2> DEFINE h == [i \in 1..(q + 1) |-> d[(i - 1) * r + 1]]
    <2>1. h \in [1..(q + 1) -> A]
        BY <1>7, <1>8
    <2>a. \A i \in 1..(q + 1) : h[i] = d[(i - 1) * r + 1]
        OBVIOUS
    <2>2. (q + 1 - 1) * r + 1 = k /\ q + 1 \in 1..(q + 1)
        BY <1>0, <1>1, <1>2, <1>9
    <2>5. Pushed(d, k) = h
        BY <1>5
    <2> HIDE DEF h
    <2>3. h[q + 1] = d[k]
        <3>1. \A i \in 1..(q + 1), j \in 1..n : j = (i - 1) * r + 1 => h[i] = d[j]
            BY <2>a
        <3>q. QED
            BY <1>0, <1>1, <1>2, <2>2, <3>1
    <2>b. 1..q \subseteq 1..(q + 1)
        BY <1>2
    <2>c. Pushed(d, k - 1) = [i \in 1..q |-> d[(i - 1) * r + 1]]
        BY <1>2, <1>5, <1>9
    <2>4. Pushed(d, k - 1) = [i \in 1..q |-> h[i]]
        BY <2>a, <2>b, <2>c
    <2>6. Append(Pushed(d, k - 1), h[q + 1]) = h
        BY <1>2, <2>1, <2>4, OneLonger
    <2>q. QED
        BY <1>4, <1>6, <1>9, <2>3, <2>5, <2>6
<1>10. CASE (k - 1) % r # 0
    BY <1>2, <1>4, <1>5, <1>6, <1>10
<1>q. QED
    BY <1>9, <1>10

\* The loop in compress produces the closed form.
LEMMA CompressLoopIs ==
    ASSUME NEW A, NEW d \in Seq(A)
    PROVE  CompressLoop(d) = compress(d)
<1> DEFINE n == Len(d)
           g == CHOOSE g : CompressFolds(d, g)
           P == {k \in 0..n : g[1..k] = Pushed(d, k)}
<1>0. n \in Nat
    OBVIOUS
<1>1. CompressFolds(d, g)
    BY CompressFoldExists
<1>2. DOMAIN Offsets(n) = 1..n
    BY DEF Offsets
<1>3. CompressLoop(d) = g[1..n]
    BY <1>2, CompressIsFold
<1> HIDE DEF g
<1>4. 0 \in P
    <2>1. g[{}] = <<>>
        BY <1>1 DEF CompressFolds
    <2>2. Strides(0, sample_rate(Len(d))) = 0
        BY <1>0, RatesPositive, StridesOfNothing
    <2>3. Pushed(d, 0) = <<>>
        BY <2>2 DEF Pushed
    <2>q. QED
        BY <1>0, <2>1, <2>3
<1>5. \A k \in 1..n : k - 1 \in P => k \in P
    <2>1. ASSUME NEW k \in 1..n, k - 1 \in P PROVE k \in P
        <3>1. g[1..(k - 1)] = Pushed(d, k - 1)
            BY <2>1
        <3>2. g[1..k] = Pushed(d, k)
            BY <1>1, <3>1, CompressStretch
        <3>q. QED
            BY <3>2
    <2>q. QED
        BY <2>1
<1>6. n \in P
    <2> HIDE DEF P, n
    <2>q. QED
        BY <1>0, <1>4, <1>5, PrefixInduction
<1>7. g[1..n] = Pushed(d, n)
    BY <1>6
<1>8. Pushed(d, n) = compress(d)
    BY <1>0, RatesPositive DEF Pushed, compress
<1>q. QED
    BY <1>3, <1>7, <1>8


-----------------------------------------------------------------------------
\* The loop in decompress, for samples x and n bytes.
DecompressFolds(x, n, g) ==
    g = [s \in SUBSET (DOMAIN Offsets(n)) |->
            IF s = {} THEN [result |-> <<>>, sample_idx |-> 0]
            ELSE DecompressStep(x, DecompressRate(x, n), g[s \ {Max(s)}], Offsets(n)[Max(s)])]

LEMMA DecompressIsFold ==
    ASSUME NEW x, NEW n
    PROVE  DecompressLoop(x, n) = (CHOOSE g : DecompressFolds(x, n, g))[DOMAIN Offsets(n)].result
BY DEF DecompressLoop, DecompressFolds, FoldLeft, MapThenFoldSet

LEMMA DecompressRatePositive ==
    ASSUME NEW n \in Nat, NEW x, Len(x) \in Nat
    PROVE  DecompressRate(x, n) \in Nat \ {0}
<1> DEFINE m == AtLeast1(Len(x))
<1>1. m \in Nat \ {0}
    BY DEF AtLeast1
<1>2. DecompressRate(x, n) = AtLeast1(n \div m)
    BY DEF DecompressRate
<1> HIDE DEF m
<1>3. n \div m \in Nat
    BY <1>1, QuotientRange
<1>q. QED
    BY <1>2, <1>3 DEF AtLeast1

\* The byte that stands at position i: a sample, or the last one again.
Restored(x, rate, i) ==
    IF x = <<>> THEN 0
    ELSE x[IF (i - 1) \div rate < Len(x) THEN (i - 1) \div rate + 1 ELSE Len(x)]

\* What the loop has after k bytes.
Spread(x, rate, k) == [i \in 1..k |-> Restored(x, rate, i)]
Taken(x, rate, k) == IF Strides(k, rate) < Len(x) THEN Strides(k, rate) ELSE Len(x)
Reached(x, rate, k) == [result |-> Spread(x, rate, k), sample_idx |-> Taken(x, rate, k)]

LEMMA RestoredIn ==
    ASSUME NEW B, 0 \in B, NEW x \in Seq(B), NEW rate \in Nat \ {0}, NEW i \in Nat \ {0}
    PROVE  Restored(x, rate, i) \in B
<1>1. (i - 1) \div rate \in Nat
    BY QuotientRange
<1>2. x # <<>> => Len(x) \in Nat \ {0}
    BY EmptySeq
<1>3. \A j \in 1..Len(x) : x[j] \in B
    OBVIOUS
<1>q. QED
    BY <1>1, <1>2, <1>3 DEF Restored

LEMMA StepIn ==
    ASSUME NEW B, 0 \in B, NEW x \in Seq(B), NEW rate \in Nat \ {0},
           NEW st \in [result : Seq(B), sample_idx : Nat], NEW i \in Nat
    PROVE  DecompressStep(x, rate, st, i) \in [result : Seq(B), sample_idx : Nat]
<1>1. CASE i % rate = 0 /\ st.sample_idx < Len(x)
    <2>1. st.sample_idx + 1 \in 1..Len(x)
        BY <1>1
    <2>2. x[st.sample_idx + 1] \in B
        BY <2>1
    <2>3. Append(st.result, x[st.sample_idx + 1]) \in Seq(B)
        BY <2>2
    <2>q. QED
        BY <1>1, <2>3 DEF DecompressStep
<1>2. CASE ~ (i % rate = 0 /\ st.sample_idx < Len(x))
    <2> DEFINE b == IF st.result = <<>> THEN 0 ELSE Last(st.result)
    <2>1. b \in B
        <3>1. ASSUME st.result # <<>> PROVE Last(st.result) \in B
            <4>1. Len(st.result) \in Nat \ {0}
                BY <3>1, EmptySeq
            <4>q. QED
                BY <4>1 DEF Last
        <3>q. QED
            BY <3>1
    <2>2. Append(st.result, b) \in Seq(B)
        BY <2>1
    <2>3. DecompressStep(x, rate, st, i) = [st EXCEPT !.result = Append(st.result, b)]
        BY <1>2 DEF DecompressStep
    <2> HIDE DEF b
    <2>q. QED
        BY <2>2, <2>3
<1>q. QED
    BY <1>1, <1>2

\* It exists.
LEMMA DecompressFoldExists ==
    ASSUME NEW B, 0 \in B, NEW x \in Seq(B), NEW n \in Nat
    PROVE  \E g : DecompressFolds(x, n, g)
<1> DEFINE V == [result : Seq(B), sample_idx : Nat]
           rate == DecompressRate(x, n)
           base == [result |-> <<>>, sample_idx |-> 0]
           f == [p \in V \X (1..n) |-> DecompressStep(x, rate, p[1], p[2] - 1)]
<1>0. rate \in Nat \ {0}
    BY DecompressRatePositive
<1>1. base \in V
    OBVIOUS
<1> HIDE DEF rate
<1>2. /\ \A v \in V, i \in 1..n : DecompressStep(x, rate, v, i - 1) \in V
      /\ \A v \in V, i \in 1..n : f[<<v, i>>] = DecompressStep(x, rate, v, i - 1)
    <2>1. ASSUME NEW v \in V, NEW i \in 1..n PROVE DecompressStep(x, rate, v, i - 1) \in V
        <3>1. i - 1 \in Nat
            OBVIOUS
        <3>q. QED
            BY <1>0, <3>1, StepIn
    <2> HIDE DEF V
    <2>q. QED
        BY <2>1
<1> HIDE DEF V, base
<1>3. f \in [V \X (1..n) -> V]
    BY <1>2
<1> HIDE DEF f
<1>4. PICK g : Folding(f, base, 1..n, g) /\ \A s \in SUBSET (1..n) : g[s] \in V
    BY <1>1, <1>3, FoldPositions
<1>5. DOMAIN Offsets(n) = 1..n /\ \A i \in 1..n : Offsets(n)[i] = i - 1
    BY DEF Offsets
<1>6. \A s \in SUBSET (1..n) : s # {} => Max(s) \in 1..n
    <2>1. IsFiniteSet(1..n) /\ 1..n \in SUBSET Int
        BY FS_Interval
    <2>q. QED
        BY <2>1, LastIn
<1> DEFINE h(s) == IF s = {} THEN base
                   ELSE DecompressStep(x, rate, g[s \ {Max(s)}], Offsets(n)[Max(s)])
<1>7. ASSUME NEW s \in SUBSET (1..n) PROVE g[s] = h(s)
    <2>1. g[s] = IF s = {} THEN base ELSE f[<<g[s \ {Max(s)}], Max(s)>>]
        <3> DEFINE S == 1..n
        <3>1. Folding(f, base, S, g) /\ s \in SUBSET S
            BY <1>4
        <3> HIDE DEF S, h
        <3>q. QED
            BY <3>1 DEF Folding
    <2>2. s \ {Max(s)} \in SUBSET (1..n) /\ g[s \ {Max(s)}] \in V
        BY <1>4
    <2>3. ASSUME s # {}
          PROVE  f[<<g[s \ {Max(s)}], Max(s)>>] =
                    DecompressStep(x, rate, g[s \ {Max(s)}], Offsets(n)[Max(s)])
        <3>1. Max(s) \in 1..n
            BY <1>6, <2>3
        <3>2. Offsets(n)[Max(s)] = Max(s) - 1
            BY <1>5, <3>1
        <3> HIDE DEF h
        <3>q. QED
            BY <1>2, <2>2, <3>1, <3>2
    <2>q. QED
        BY <2>1, <2>3
<1>8. g = [s \in SUBSET (1..n) |-> g[s]]
    BY <1>4 DEF Folding
<1> HIDE DEF h
<1>9. g = [s \in SUBSET (1..n) |-> h(s)]
    BY <1>7, <1>8
<1>10. g = [s \in SUBSET (DOMAIN Offsets(n)) |-> h(s)]
    BY <1>5, <1>9
<1>q. QED
    BY <1>10 DEF DecompressFolds, h, rate, base


\* The first byte, and how the place of the sample that is repeated moves on.
LEMMA RestoredNext ==
    ASSUME NEW B, NEW x \in Seq(B), x # <<>>, NEW rate \in Nat \ {0}, NEW k \in Nat \ {0}
    PROVE  /\ (k - 1) % rate = 0 /\ Taken(x, rate, k - 1) < Len(x) =>
                /\ Restored(x, rate, k) = x[Taken(x, rate, k - 1) + 1]
                /\ Taken(x, rate, k) = Taken(x, rate, k - 1) + 1
           /\ ~ ((k - 1) % rate = 0 /\ Taken(x, rate, k - 1) < Len(x)) =>
                /\ k > 1 /\ Restored(x, rate, k) = Restored(x, rate, k - 1)
                /\ Taken(x, rate, k) = Taken(x, rate, k - 1)
<1> DEFINE q == (k - 1) \div rate
           L == Len(x)
<1>1. L \in Nat \ {0}
    BY EmptySeq
<1>2. /\ q \in Nat /\ rate * q <= k - 1 /\ k - 1 < rate * q + rate
      /\ (k - 1) % rate = k - 1 - rate * q
      /\ Strides(k, rate) = q + 1
      /\ Strides(k - 1, rate) = IF (k - 1) % rate = 0 THEN q ELSE q + 1
    BY StridesAt
<1>3. Restored(x, rate, k) = x[IF q < L THEN q + 1 ELSE L]
    BY DEF Restored
<1>4. Restored(x, rate, k - 1) =
        x[IF ((k - 1) - 1) \div rate < L THEN ((k - 1) - 1) \div rate + 1 ELSE L]
    BY DEF Restored
<1>5. /\ Taken(x, rate, k) = IF q + 1 < L THEN q + 1 ELSE L
      /\ Taken(x, rate, k - 1) =
            IF Strides(k - 1, rate) < L THEN Strides(k - 1, rate) ELSE L
    BY <1>2 DEF Taken
<1> HIDE DEF q, L
<1>6. rate * q \in Nat
    BY <1>2
<1>7. CASE (k - 1) % rate = 0
    <2>1. k - 1 = rate * q /\ Strides(k - 1, rate) = q
        BY <1>2, <1>6, <1>7
    <2>2. CASE q < L
        <3>1. Taken(x, rate, k - 1) = q /\ Taken(x, rate, k) = q + 1
            BY <1>1, <1>2, <1>5, <2>1, <2>2
        <3>2. Restored(x, rate, k) = x[q + 1]
            BY <1>3, <2>2
        <3>q. QED
            BY <1>1, <1>2, <1>7, <2>2, <3>1, <3>2 DEF L
    <2>3. CASE ~ (q < L)
        <3>1. Taken(x, rate, k - 1) = L /\ Taken(x, rate, k) = L
            BY <1>1, <1>2, <1>5, <2>1, <2>3
        <3>2. q >= 1 /\ q - 1 >= L - 1 /\ q - 1 \in Nat
            BY <1>1, <1>2, <2>3
        <3>3. rate * (q - 1) = rate * q - rate
            BY <1>2
        <3>4. k > 1
            <4>1. rate * q > 0
                BY <1>2, <3>2, <3>3
            <4>q. QED
                BY <2>1, <4>1
        <3>5. ((k - 1) - 1) \div rate = q - 1
            <4>1. /\ (k - 1) - 1 \in Nat /\ rate * (q - 1) <= (k - 1) - 1
                  /\ (k - 1) - 1 < rate * (q - 1) + rate
                BY <1>6, <2>1, <3>3, <3>4
            <4>q. QED
                BY <4>1, <3>2, QuotientIs
        <3>6. Restored(x, rate, k - 1) = x[L]
            <4>1. (IF q - 1 < L THEN q - 1 + 1 ELSE L) = L
                BY <1>1, <1>2, <2>3, <3>2
            <4>q. QED
                BY <1>4, <3>5, <4>1
        <3>7. Restored(x, rate, k) = x[L]
            BY <1>3, <2>3
        <3>q. QED
            BY <1>1, <3>1, <3>4, <3>6, <3>7 DEF L
    <2>q. QED
        BY <2>2, <2>3
<1>8. CASE (k - 1) % rate # 0
    <2>1. Strides(k - 1, rate) = q + 1 /\ k - 1 >= rate * q + 1
        BY <1>2, <1>6, <1>8
    <2>2. k > 1
        BY <1>6, <2>1
    <2>3. ((k - 1) - 1) \div rate = q
        <3>1. (k - 1) - 1 \in Nat /\ rate * q <= (k - 1) - 1 /\ (k - 1) - 1 < rate * q + rate
            BY <1>2, <1>6, <2>1, <2>2
        <3>q. QED
            BY <3>1, <1>2, QuotientIs
    <2>4. Restored(x, rate, k) = Restored(x, rate, k - 1)
        BY <1>3, <1>4, <2>3
    <2>5. Taken(x, rate, k) = Taken(x, rate, k - 1)
        BY <1>5, <2>1
    <2>q. QED
        BY <1>8, <2>2, <2>4, <2>5
<1>q. QED
    BY <1>7, <1>8


\* What is restored is one byte longer with every step.
LEMMA SpreadNext ==
    ASSUME NEW B, 0 \in B, NEW x \in Seq(B), NEW rate \in Nat \ {0}, NEW k \in Nat \ {0}
    PROVE  /\ Append(Spread(x, rate, k - 1), Restored(x, rate, k)) = Spread(x, rate, k)
           /\ k = 1 => Spread(x, rate, k - 1) = <<>>
           /\ k > 1 => /\ Spread(x, rate, k - 1) # <<>>
                       /\ Last(Spread(x, rate, k - 1)) = Restored(x, rate, k - 1)
<1> DEFINE m == k - 1
           R(i) == Restored(x, rate, i)
           h == [i \in 1..(m + 1) |-> R(i)]
           s == [i \in 1..m |-> R(i)]
<1>1. m \in Nat /\ k = m + 1
    OBVIOUS
<1>2. \A i \in 1..(m + 1) : R(i) \in B
    <2>1. ASSUME NEW i \in 1..(m + 1) PROVE R(i) \in B
        <3>1. i \in Nat \ {0}
            OBVIOUS
        <3>q. QED
            BY <3>1, RestoredIn
    <2>q. QED
        BY <2>1
<1>3. Spread(x, rate, k - 1) = s /\ Spread(x, rate, k) = h
    BY <1>1 DEF Spread
<1> HIDE DEF m, R
<1>4. h \in [1..(m + 1) -> B] /\ h[m + 1] = R(m + 1)
    BY <1>1, <1>2
<1>5. s = [i \in 1..m |-> h[i]]
    <2>1. 1..m \subseteq 1..(m + 1)
        BY <1>1
    <2>q. QED
        BY <2>1
<1>6. s \in Seq(B) /\ Len(s) = m
    <2>1. s \in [1..m -> B]
        BY <1>1, <1>2
    <2>q. QED
        BY <2>1, <1>1
<1>7. m > 0 => s # <<>> /\ Last(s) = R(m)
    <2>1. ASSUME m > 0 PROVE s # <<>> /\ s[m] = R(m)
        BY <1>1, <1>6, <2>1
    <2>q. QED
        BY <1>6, <2>1 DEF Last
<1>8. m = 0 => s = <<>>
    <2>1. ASSUME m = 0 PROVE s = <<>>
        BY <1>6, <2>1, EmptySeq
    <2>q. QED
        BY <2>1
<1> HIDE DEF h, s
<1>9. Append(s, h[m + 1]) = h
    BY <1>1, <1>4, <1>5, OneLonger
<1>a. k - 1 = m /\ (k > 1 => m > 0) /\ (k = 1 => m = 0)
    BY <1>1
<1>b. Append(s, R(k)) = h
    BY <1>1, <1>4, <1>9
<1>c. Restored(x, rate, k) = R(k) /\ Restored(x, rate, k - 1) = R(m)
    BY <1>a DEF R
<1>q. QED
    BY <1>3, <1>7, <1>8, <1>a, <1>b, <1>c

\* A step of the loop takes what is restored of k - 1 bytes to what is restored of k.
LEMMA DecompressStepIs ==
    ASSUME NEW B, 0 \in B, NEW x \in Seq(B), NEW rate \in Nat \ {0}, NEW k \in Nat \ {0}
    PROVE  DecompressStep(x, rate, [result     |-> Spread(x, rate, k - 1),
                                    sample_idx |-> Taken(x, rate, k - 1)], k - 1) =
              [result |-> Spread(x, rate, k), sample_idx |-> Taken(x, rate, k)]
<1> DEFINE before == Spread(x, rate, k - 1)
           taken  == Taken(x, rate, k - 1)
           st     == [result |-> before, sample_idx |-> taken]
           next   == IF before = <<>> THEN 0 ELSE Last(before)
           more   == (k - 1) % rate = 0 /\ taken < Len(x)
<1>1. /\ st.result = before /\ st.sample_idx = taken
      /\ \A b : [st EXCEPT !.result = b] = [result |-> b, sample_idx |-> taken]
    OBVIOUS
<1>2. DecompressStep(x, rate, st, k - 1) =
        IF more THEN [result |-> Append(before, x[taken + 1]), sample_idx |-> taken + 1]
        ELSE [result |-> Append(before, next), sample_idx |-> taken]
    <2>1. DecompressStep(x, rate, st, k - 1) =
            IF (k - 1) % rate = 0 /\ st.sample_idx < Len(x)
            THEN [result     |-> Append(st.result, x[st.sample_idx + 1]),
                  sample_idx |-> st.sample_idx + 1]
            ELSE [st EXCEPT !.result =
                    Append(st.result, IF st.result = <<>> THEN 0 ELSE Last(st.result))]
        <3> HIDE DEF st
        <3>q. QED
            BY DEF DecompressStep
    <2> HIDE DEF before, taken, st
    <2>q. QED
        BY <1>1, <2>1
<1>3. /\ Append(before, Restored(x, rate, k)) = Spread(x, rate, k)
      /\ k = 1 => before = <<>>
      /\ k > 1 => before # <<>> /\ Last(before) = Restored(x, rate, k - 1)
    BY SpreadNext
<1>4. Len(x) \in Nat /\ Strides(k - 1, rate) \in Nat
    <2>1. k - 1 \in Nat
        OBVIOUS
    <2>q. QED
        BY <2>1, SampledWithin
<1>5. CASE x = <<>>
    <2>1. Len(x) = 0
        BY <1>5
    <2>2. taken = 0 /\ Taken(x, rate, k) = 0
        <3>1. Strides(k, rate) \in Nat
            BY SampledWithin
        <3>q. QED
            BY <1>4, <2>1, <3>1 DEF Taken
    <2>3. ~ more
        BY <2>1, <2>2
    <2>4. Restored(x, rate, k) = 0 /\ Restored(x, rate, k - 1) = 0
        BY <1>5 DEF Restored
    <2> HIDE DEF before, taken, st, more
    <2>5. next = 0
        <3>1. k = 1 \/ k > 1
            OBVIOUS
        <3>q. QED
            BY <1>3, <2>4, <3>1
    <2> HIDE DEF next
    <2>q. QED
        BY <1>2, <1>3, <2>2, <2>3, <2>4, <2>5 DEF st, before, taken
<1>6. CASE x # <<>>
    <2>1. /\ more => /\ Restored(x, rate, k) = x[taken + 1]
                     /\ Taken(x, rate, k) = taken + 1
          /\ ~ more => /\ k > 1 /\ Restored(x, rate, k) = Restored(x, rate, k - 1)
                       /\ Taken(x, rate, k) = taken
        BY <1>6, RestoredNext
    <2> HIDE DEF before, taken, more
    <2>2. ~ more => next = Restored(x, rate, k)
        BY <1>3, <2>1
    <2> HIDE DEF next, st
    <2>3. DecompressStep(x, rate, st, k - 1) =
            [result |-> Spread(x, rate, k), sample_idx |-> Taken(x, rate, k)]
        BY <1>2, <1>3, <2>1, <2>2
    <2>q. QED
        BY <2>3 DEF st, before, taken
<1>q. QED
    BY <1>5, <1>6

\* What the loop has when it is through with k bytes.
LEMMA DecompressPrefix ==
    ASSUME NEW B, 0 \in B, NEW x \in Seq(B), NEW n \in Nat, NEW g, DecompressFolds(x, n, g),
           NEW rate, rate = DecompressRate(x, n), NEW k \in 1..n,
           g[1..(k - 1)] = Reached(x, rate, k - 1)
    PROVE  g[1..k] = Reached(x, rate, k)
<1>1. rate \in Nat \ {0}
    BY DecompressRatePositive
<1>2. k \in Nat \ {0}
    OBVIOUS
<1>3. DOMAIN Offsets(n) = 1..n /\ Offsets(n)[k] = k - 1
    BY DEF Offsets
<1>4. g[1..k] = DecompressStep(x, rate, g[1..(k - 1)], k - 1)
    <2>1. 1..k # {} /\ Max(1..k) = k /\ (1..k) \ {Max(1..k)} = 1..(k - 1)
        BY <1>2, LastOfEach
    <2> DEFINE S == 1..n
               T == 1..k
    <2>2. T \in SUBSET S
        BY <1>2
    <2>3. g = [s \in SUBSET S |->
                IF s = {} THEN [result |-> <<>>, sample_idx |-> 0]
                ELSE DecompressStep(x, rate, g[s \ {Max(s)}], Offsets(n)[Max(s)])]
        BY <1>3 DEF DecompressFolds
    <2> HIDE DEF S, T
    <2>4. g[T] = IF T = {} THEN [result |-> <<>>, sample_idx |-> 0]
                 ELSE DecompressStep(x, rate, g[T \ {Max(T)}], Offsets(n)[Max(T)])
        BY <2>2, <2>3
    <2>q. QED
        BY <2>1, <2>4, <1>3 DEF T
<1>q. QED
    BY <1>1, <1>2, <1>4, DecompressStepIs DEF Reached

\* The loop in decompress produces the closed form.
LEMMA DecompressLoopIs ==
    ASSUME NEW B, 0 \in B, NEW x \in Seq(B), NEW n \in Nat
    PROVE  DecompressLoop(x, n) = decompress(x, n)
<1> DEFINE g == CHOOSE g : DecompressFolds(x, n, g)
           rate == DecompressRate(x, n)
           P == {k \in 0..n : g[1..k] = Reached(x, rate, k)}
<1>0. rate \in Nat \ {0}
    BY DecompressRatePositive
<1>1. DecompressFolds(x, n, g)
    BY DecompressFoldExists
<1>2. DOMAIN Offsets(n) = 1..n
    BY DEF Offsets
<1>3. DecompressLoop(x, n) = g[1..n].result
    BY <1>2, DecompressIsFold
<1> HIDE DEF g
<1>4. 0 \in P
    <2>1. g[{}] = [result |-> <<>>, sample_idx |-> 0]
        BY <1>1 DEF DecompressFolds
    <2>2. Taken(x, rate, 0) = 0
        <3>1. Strides(0, rate) = 0 /\ Len(x) \in Nat
            BY <1>0, StridesOfNothing
        <3> HIDE DEF rate
        <3>q. QED
            BY <3>1 DEF Taken
    <2>3. Spread(x, rate, 0) = <<>> /\ 1..0 = {}
        BY DEF Spread
    <2>q. QED
        BY <2>1, <2>2, <2>3 DEF Reached
<1>5. \A k \in 1..n : k - 1 \in P => k \in P
    <2>1. ASSUME NEW k \in 1..n, k - 1 \in P PROVE k \in P
        <3>1. g[1..(k - 1)] = Reached(x, rate, k - 1)
            BY <2>1
        <3>2. g[1..k] = Reached(x, rate, k)
            <4>1. rate = DecompressRate(x, n)
                OBVIOUS
            <4> HIDE DEF rate, P
            <4>q. QED
                BY <1>1, <3>1, <4>1, DecompressPrefix
        <3>q. QED
            BY <3>2
    <2>q. QED
        BY <2>1
<1>6. n \in P
    <2> HIDE DEF P
    <2>q. QED
        BY <1>4, <1>5, PrefixInduction
<1>7. g[1..n].result = Spread(x, rate, n)
    BY <1>6 DEF Reached
<1>8. Spread(x, rate, n) = decompress(x, n)
    BY DEF Spread, Restored, decompress, DecompressRate
<1>q. QED
    BY <1>3, <1>7, <1>8


-----------------------------------------------------------------------------
\* Every value that is stored is a sequence of bytes.
CodecInv == data \in Seq(Alphabet)

LEMMA CodecInitInv == CodecInit => CodecInv
BY DEF CodecInit, CodecInv

LEMMA CodecNextInv == CodecInv /\ [NextByte]_data => CodecInv'
BY DEF CodecInv, NextByte

\* A closed form is what its loop produces.
LEMMA LoopsProduceForms == CodecInv => CodecMatchesLoops
<1> SUFFICES ASSUME CodecInv PROVE CodecMatchesLoops
    OBVIOUS
<1> DEFINE B == Alphabet \cup {0}
           n == Len(data)
           c == compress(data)
<1>1. data \in Seq(Alphabet) /\ n \in Nat
    BY DEF CodecInv
<1>2. c \in Seq(Alphabet)
    BY <1>1, SamplesOf
<1> HIDE DEF c, n
<1>3. c \in Seq(B) /\ 0 \in B
    BY <1>2, SeqMonotonic
<1> HIDE DEF B
<1>4. CompressLoop(data) = compress(data)
    BY <1>1, CompressLoopIs
<1>5. DecompressLoop(c, n) = decompress(c, n)
    BY <1>1, <1>3, DecompressLoopIs
<1>q. QED
    BY <1>4, <1>5 DEF CodecMatchesLoops, c, n

\* Whatever a caller stores, the two loops of compress and decompress produce what
\* the cache model computes with: the samples are the bytes at the multiples of the
\* rate, and a value restored from them has its length and repeats them in order.
THEOREM CodecLoopsAgree == CodecSpec => []CodecMatchesLoops
<1>1. CodecInit => CodecInv
    BY CodecInitInv
<1>2. CodecInv /\ [NextByte]_data => CodecInv'
    BY CodecNextInv
<1>3. CodecInv => CodecMatchesLoops
    BY LoopsProduceForms
<1>q. QED
    BY <1>1, <1>2, <1>3, PTL DEF CodecSpec

\* Where decompress finds the same rate, the byte at the i-th multiple of it is sample i.
LEMMA SampleRestored ==
    ASSUME NEW c, NEW r \in Nat \ {0}, NEW m \in Nat, Len(c) = m, c # <<>>, NEW i \in 1..m
    PROVE  Restored(c, r, (i - 1) * r + 1) = c[i]
<1>1. i - 1 \in Nat /\ (i - 1) * r \in Nat
    OBVIOUS
<1>2. ((i - 1) * r + 1) - 1 = (i - 1) * r
    BY <1>1
<1>3. ((i - 1) * r) \div r = i - 1
    <2> DEFINE a == (i - 1) * r
    <2>1. a \in Nat /\ r * (i - 1) <= a /\ a < r * (i - 1) + r
        BY <1>1
    <2> HIDE DEF a
    <2>2. a \div r = i - 1
        BY <1>1, <2>1, QuotientIs
    <2>q. QED
        BY <2>2 DEF a
<1>4. (((i - 1) * r + 1) - 1) \div r = i - 1
    BY <1>2, <1>3
<1>5. i - 1 < m /\ (i - 1) + 1 = i
    OBVIOUS
<1> DEFINE p == (i - 1) * r + 1
<1>6. (p - 1) \div r = i - 1
    BY <1>4
<1> HIDE DEF p
<1>7. Restored(c, r, p) = c[i]
    BY <1>5, <1>6 DEF Restored
<1>q. QED
    BY <1>7 DEF p

LEMMA StableWhereExact == CodecInv => RecompressStable
<1> SUFFICES ASSUME CodecInv, Len(compress(data)) = target_size(Len(data))
             PROVE  compress(RoundTrip(data)) = compress(data)
    BY DEF RecompressStable
<1> DEFINE B == Alphabet \cup {0}
           n == Len(data)
           r == sample_rate(n)
           m == Strides(n, r)
           c == compress(data)
           b == RoundTrip(data)
<1>1. data \in Seq(Alphabet) /\ n \in Nat
    BY DEF CodecInv
<1>2. c \in Seq(Alphabet) /\ Len(c) = m
    BY <1>1, SamplesOf
<1>3. r \in Nat \ {0} /\ target_size(n) \in Nat \ {0}
    BY <1>1, RatesPositive
<1>4. m \in Nat \ {0} /\ m = target_size(n)
    BY <1>2, <1>3
<1>5. DecompressRate(c, n) = r
    BY <1>2, <1>4 DEF DecompressRate, sample_rate, AtLeast1
<1>6. b = Spread(c, r, n)
    BY <1>5 DEF RoundTrip, decompress, DecompressRate, Spread, Restored
<1>7. m \in Nat /\ \A i \in 1..m : (i - 1) * r + 1 \in 1..n
    BY <1>1, <1>3, SampledWithin
<1> HIDE DEF c, n, m, r, b
<1>8. c \in Seq(B) /\ 0 \in B /\ c # <<>>
    <2>1. c # <<>>
        BY <1>2, <1>4
    <2>q. QED
        BY <1>2, <2>1, SeqMonotonic
<1> HIDE DEF B
<1>9. b \in Seq(B) /\ Len(b) = n /\ \A i \in 1..n : b[i] = Restored(c, r, i)
    <2>1. \A i \in 1..n : Restored(c, r, i) \in B
        <3>1. ASSUME NEW i \in 1..n PROVE Restored(c, r, i) \in B
            <4>1. i \in Nat \ {0}
                BY <1>1
            <4>q. QED
                BY <1>3, <1>8, <4>1, RestoredIn
        <3>q. QED
            BY <3>1
    <2>2. b = [i \in 1..n |-> Restored(c, r, i)]
        BY <1>6 DEF Spread
    <2>3. b \in [1..n -> B]
        BY <2>1, <2>2
    <2>4. b \in Seq(B) /\ Len(b) = n
        BY <1>1, <2>3
    <2>q. QED
        BY <2>2, <2>4
<1>10. compress(b) \in Seq(B) /\ Len(compress(b)) = m
       /\ \A i \in 1..m : compress(b)[i] = b[(i - 1) * r + 1]
    BY <1>9, SamplesOf DEF m, r
<1>11. \A i \in 1..m : compress(b)[i] = c[i]
    <2>1. ASSUME NEW i \in 1..m PROVE compress(b)[i] = c[i]
        <3>1. b[(i - 1) * r + 1] = Restored(c, r, (i - 1) * r + 1)
            BY <1>7, <1>9
        <3>2. Restored(c, r, (i - 1) * r + 1) = c[i]
            BY <1>2, <1>3, <1>7, <1>8, SampleRestored
        <3>q. QED
            BY <1>10, <3>1, <3>2
    <2>q. QED
        BY <2>1
<1>12. compress(b) = c
    BY <1>2, <1>8, <1>10, <1>11, SeqEqual
<1>q. QED
    BY <1>12 DEF b, c

\* Where the rate was not rounded, storing again what was read changes nothing: a value
\* that went through the codec once is kept by it, whatever its length.
THEOREM ExactRatesAreStable == CodecSpec => []RecompressStable
<1>1. CodecInit => CodecInv
    BY CodecInitInv
<1>2. CodecInv /\ [NextByte]_data => CodecInv'
    BY CodecNextInv
<1>3. CodecInv => RecompressStable
    BY StableWhereExact
<1>q. QED
    BY <1>1, <1>2, <1>3, PTL DEF CodecSpec
=============================================================================
