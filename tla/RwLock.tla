------------------------------- MODULE RwLock -------------------------------
(***************************************************************************)
(* Reader-writer locks (std::sync::RwLock, tokio::sync::RwLock), external  *)
(* to the repository.  A grant is a lock together with the mode it is held *)
(* in.  Which grants a task holds follows from where it is in its handler, *)
(* so the modules that use locks keep no lock variables: they give the     *)
(* grant each control point holds and the grant it waits for.              *)
(***************************************************************************)

Read(l)  == [lock |-> l, mode |-> "read"]
Write(l) == [lock |-> l, mode |-> "write"]

\* Two tasks may hold these grants at the same time.
Compatible(a, b) ==
    a.lock = b.lock => (a.mode = "read" /\ b.mode = "read")
=============================================================================
