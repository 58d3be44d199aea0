-------------------------- MODULE RevocationLedger --------------------------
(***************************************************************************)
(* What the certificate service promises, without locks, an index or calls *)
(* in progress: certificates with a fixed expiry, revocations that are     *)
(* never undone and are published in the order of their days, and answers  *)
(* that are true of the ledger at the moment they are given.  A revocation *)
(* that is decided need not be published, nor one that is published be     *)
(* confirmed: its client may have left.                                    *)
(***************************************************************************)
EXTENDS Integers, Sequences

CONSTANTS Serials,
          Names      \* what a client may ask for, serial numbers among it

VARIABLES today,
          expiry,    \* serial -> the last day of each certificate
          revoked,   \* serial -> the day on which it was revoked
          list,      \* the published revocations, oldest first
          stamp,     \* the day of the list
          confirmed, \* the revocations that were confirmed to a client
          answer     \* what the last step told a client, if anything

ledger == <<expiry, revoked, list, stamp, confirmed>>

Silence == [call |-> "none"]
Told(call, name, status) == [call |-> call, name |-> name, status |-> status]
TheList(known, listed, day) ==
    [call |-> "crl", known |-> known, listed |-> listed, this_update |-> day]

Listed(entries) == {entries[i].serial : i \in DOMAIN entries}

Init ==
    /\ today = 0 /\ stamp = 0
    /\ expiry = [s \in {} |-> 0] /\ revoked = [s \in {} |-> 0]
    /\ list = <<>> /\ confirmed = {} /\ answer = Silence

\* Nobody is told anything.
Quiet == answer' = Silence /\ UNCHANGED <<today, ledger>>

Tick == today' = today + 1 /\ answer' = Silence /\ UNCHANGED ledger

\* A new certificate; those that there are keep their expiry.
Issue(s) ==
    /\ s \notin DOMAIN expiry
    /\ DOMAIN expiry' = DOMAIN expiry \cup {s}
    /\ \A x \in DOMAIN expiry : expiry'[x] = expiry[x]
    /\ answer' = Silence
    /\ UNCHANGED <<today, revoked, list, stamp, confirmed>>

\* A revocation is decided: once, for a certificate that was issued, as of today ...
Revoke(s) ==
    /\ s \in DOMAIN expiry \ DOMAIN revoked
    /\ DOMAIN revoked' = DOMAIN revoked \cup {s}
    /\ \A x \in DOMAIN revoked' : revoked'[x] = IF x = s THEN today ELSE revoked[x]
    /\ answer' = Silence
    /\ UNCHANGED <<today, expiry, list, stamp, confirmed>>

\* ... is published, no earlier than those before it ...
Publish(s) ==
    /\ s \in DOMAIN revoked \ Listed(list)
    /\ \A i \in DOMAIN list : list[i].revoked_at <= revoked[s]
    /\ list' = Append(list, [serial |-> s, revoked_at |-> revoked[s]])
    /\ answer' = Silence
    /\ UNCHANGED <<today, expiry, revoked, stamp, confirmed>>

\* ... and is confirmed, once and as the latest of the list, whose day is then its own.
Confirm(s) ==
    /\ s \in DOMAIN revoked \ confirmed
    /\ list # <<>> /\ list[Len(list)].serial = s
    /\ stamp' = revoked[s]
    /\ confirmed' = confirmed \cup {s}
    /\ answer' = Told("revoke", s, "revoked")
    /\ UNCHANGED <<today, expiry, revoked, list>>

Deny(n) ==
    /\ \/ n \notin DOMAIN expiry /\ answer' = Told("revoke", n, "not_found")
       \/ n \in DOMAIN revoked /\ answer' = Told("revoke", n, "already_revoked")
    /\ UNCHANGED <<today, ledger>>

\* The status of a certificate, as it is at this moment.
Status(n) ==
    IF n \notin DOMAIN expiry THEN "unknown"
    ELSE IF n \in DOMAIN revoked THEN "revoked"
    ELSE IF expiry[n] < today THEN "expired" ELSE "valid"

Tell(n) ==
    /\ \E call \in {"status", "ocsp"} : answer' = Told(call, n, Status(n))
    /\ UNCHANGED <<today, ledger>>

\* The first n published revocations, among them all that the client could know of.
\* The day that goes with them is the list's at this moment.
Give(n, known) ==
    /\ known \subseteq Listed(SubSeq(list, 1, n))
    /\ answer' = TheList(known, SubSeq(list, 1, n), stamp)
    /\ UNCHANGED <<today, ledger>>

Next ==
    \/ Quiet \/ Tick
    \/ \E s \in Serials : Issue(s) \/ Revoke(s) \/ Publish(s) \/ Confirm(s)
    \/ \E n \in Names : Deny(n) \/ Tell(n)
    \/ \E n \in 0..Len(list), known \in SUBSET confirmed : Give(n, known)

Spec == Init /\ [][Next]_<<today, ledger, answer>>
=============================================================================
