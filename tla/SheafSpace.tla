----------------------------- MODULE SheafSpace -----------------------------
(***************************************************************************)
(* The resource space of crates/symmetrix-sheaf: compute nodes with their  *)
(* capacities, restriction maps between regions, and the cached cohomology *)
(* group that an allocation consults.  Threads share it; every lock is a   *)
(* std RwLock and each field has its own, so what a group was computed     *)
(* from and what it is filed beside are decided by which guards overlap.   *)
(* The linear algebra is abstracted: a group is the matrix it is made of.  *)
(***************************************************************************)
EXTENDS Integers, FiniteSets

CONSTANTS Users,         \* threads that share one SheafSpace
          SpaceNodes,    \* node and region identifiers
          NodeUnits,     \* units of each resource that a node is added with
          MaxSpaceCalls  \* bound on the calls made in a behaviour

VARIABLES space,      \* the stalks (nodes) and the restriction maps
          group,      \* cohomology_cache: the matrix its group is made of, or Nothing
          user,       \* what each thread is doing
          spaceCalls  \* calls made so far

sheafVars == <<space, group, user, spaceCalls>>

Nothing == <<>>     \* a group without maps is never made
Free    == [op |-> "none", at |-> "idle"]

SheafInit ==
    /\ space = [nodes |-> {}, maps |-> {}]
    /\ group = Nothing
    /\ user = [u \in Users |-> Free]
    /\ spaceCalls = 0

-----------------------------------------------------------------------------
\* The guards a call holds between its steps.  An add keeps the write guard of the
\* map it changed until it returns; a computation keeps both read guards until it
\* has filed its group.
Written(u) == IF user[u].at # "clear" THEN {}
              ELSE IF user[u].op = "add_node" THEN {"stalks"} ELSE {"restrictions"}

ReadHeld_Copied(u) == IF user[u].at = "restrictions" THEN {"stalks"} ELSE {}

ReadHeld(u) == IF user[u].at = "restrictions" THEN {"stalks"}
               ELSE IF user[u].at = "file" THEN {"stalks", "restrictions"} ELSE {}

CanRead(u, lock)  == \A v \in Users \ {u} : lock \notin Written(v)
CanWrite(u, lock) == CanRead(u, lock) /\ \A v \in Users \ {u} : lock \notin ReadHeld(v)

Goto(u, step) == user' = [user EXCEPT ![u].at = step]

Call(u, op) ==
    /\ user[u] = Free
    /\ spaceCalls < MaxSpaceCalls
    /\ spaceCalls' = spaceCalls + 1
    /\ user' = [user EXCEPT ![u] = [op |-> op, at |-> "clear"]]

\* add_node and add_restriction: insert under the write guard; a map may name
\* regions that no node has.
AddNode(u, node) ==
    /\ CanWrite(u, "stalks")
    /\ Call(u, "add_node")
    /\ space' = [space EXCEPT !.nodes = @ \cup {node}]
    /\ UNCHANGED group

AddRestriction(u, source, target) ==
    /\ CanWrite(u, "restrictions")
    /\ Call(u, "add_restriction")
    /\ space' = [space EXCEPT !.maps = @ \cup {<<source, target>>}]
    /\ UNCHANGED group

\* ... and, the guard still held, clear the cache and return.
ClearCache(u) ==
    /\ user[u].at = "clear"
    /\ group' = Nothing
    /\ user' = [user EXCEPT ![u] = Free]
    /\ UNCHANGED <<space, spaceCalls>>

-----------------------------------------------------------------------------
\* allocate_resources begins with compute_h2_cohomology, whose first look is at
\* the cache alone: a group younger than a minute is used as it is.
LookInCache(u, young) ==
    /\ user[u] = Free
    /\ spaceCalls < MaxSpaceCalls
    /\ spaceCalls' = spaceCalls + 1
    /\ user' = [user EXCEPT ![u] =
                   [op |-> "allocate",
                    at |-> IF young /\ group # Nothing THEN "grant" ELSE "stalks"]]
    /\ UNCHANGED <<space, group>>

ReadStalks(u) ==
    /\ user[u].at = "stalks" /\ CanRead(u, "stalks")
    /\ Goto(u, "restrictions")
    /\ UNCHANGED <<space, group, spaceCalls>>

\* build_differential_d0, a row for each map and a column for each node: no group
\* depends on capacities or on the transformations, as the second differential is zero.
D0(s) == [m \in s.maps |-> [n \in s.nodes |->
            IF n = m[2] THEN -1 ELSE IF n = m[1] THEN 1 ELSE 0]]

\* Without nodes the call is an error.  Without maps both differentials are empty
\* matrices, whose decomposition panics: either way the guards go and nothing is filed.
ReadRestrictions(u) ==
    /\ user[u].at = "restrictions" /\ CanRead(u, "restrictions")
    /\ IF space.nodes = {} \/ space.maps = {}
       THEN user' = [user EXCEPT ![u] = Free]
       ELSE user' = [user EXCEPT ![u] = [op |-> "allocate", at |-> "file", of |-> D0(space)]]
    /\ UNCHANGED <<space, group, spaceCalls>>

FileGroup(u) ==
    /\ user[u].at = "file"
    /\ group' = user[u].of
    /\ Goto(u, "grant")
    /\ UNCHANGED <<space, spaceCalls>>

\* allocate_for_node: what is asked, up to the capacity that is left.  Nothing ever
\* adds to a stalk's allocated map, so every call is offered the whole capacity.
Granted(asked, allocated) ==
    LET can_allocate == IF allocated <= NodeUnits THEN NodeUnits - allocated ELSE 0
    IN  IF asked <= can_allocate THEN asked ELSE can_allocate

\* The grants of a call, under a read guard taken anew: for a node that was never
\* added the whole call is an error.
Grant(u, node) ==
    /\ user[u].at = "grant" /\ CanRead(u, "stalks")
    /\ user' = [user EXCEPT ![u] =
                   [op |-> "allocate", grant |-> IF node \in space.nodes THEN Granted(NodeUnits + 1, 0) ELSE 0,
                    at |-> "answered"]]
    /\ UNCHANGED <<space, group, spaceCalls>>

Answer(u) ==
    /\ user[u].at = "answered"
    /\ user' = [user EXCEPT ![u] = Free]
    /\ UNCHANGED <<space, group, spaceCalls>>

SheafNext ==
    \E u \in Users :
       \/ \E n \in SpaceNodes : AddNode(u, n)
       \/ \E s, t \in SpaceNodes : AddRestriction(u, s, t)
       \/ ClearCache(u)
       \/ \E young \in BOOLEAN : LookInCache(u, young)
       \/ ReadStalks(u)
       \/ ReadRestrictions(u)
       \/ FileGroup(u)
       \/ \E n \in SpaceNodes : Grant(u, n)
       \/ Answer(u)

-----------------------------------------------------------------------------
\* The cached group describes the space as it is, except while a call that changed
\* the space has yet to clear it (and has not returned): no allocation that starts
\* after an add returned is steered by the group of an older space.
CohomologyFresh ==
    group # Nothing /\ (\A u \in Users : user[u].at # "clear") => group = D0(space)
=============================================================================
