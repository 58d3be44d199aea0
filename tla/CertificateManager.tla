------------------------- MODULE CertificateManager -------------------------
(***************************************************************************)
(* The certificate store of the control plane (src/grpc/certificate.rs)    *)
(* and the service in front of it (src/grpc/certificate_service.rs): four  *)
(* tokio RwLocks (certificates, fingerprint index, revocation list, time   *)
(* of the list), and the handlers that concurrent calls run.               *)
(*                                                                         *)
(* As in AllocationService a task is `idle' or at an `.await' on a lock,   *)
(* what lies between two awaits is one action, and a client that goes away *)
(* drops the handler at the await it is in.  A certificate is known by its *)
(* serial number; a hash by what was hashed, so that different inputs have *)
(* different hashes.  The X.509 and OCSP encodings are left out.           *)
(***************************************************************************)
EXTENDS Integers, Sequences, FiniteSets, RwLock

CONSTANTS Tasks,      \* calls that may be in progress at once
          Serials,    \* serial numbers; a new one is never reused (UUIDs)
          ApiKeys,    \* hashes of the clients' keys
          Validities, \* validity_days of the requests; the calendar holds all their ends
          MaxTime,    \* bound: how far the clock advances, in days
          MayCancel   \* clients may disconnect during a call

ASSUME CertificateAssumption ==
    /\ Validities \subseteq Nat /\ MaxTime \in Nat
    /\ MayCancel \in BOOLEAN

VARIABLES certificates,       \* serial -> CertificateEntry
          fingerprint_index,  \* fingerprint -> serial
          crl,                \* the revocation list, in order of entry
          crl_last_update,
          used,               \* serial numbers generated so far
          now,                \* Utc::now()
          pc, req,            \* where each task is, its arguments and locals
          reply,              \* the answer that the last step gave, if it gave one
          acked,              \* ghost: serials whose revocation was confirmed
          dropped             \* ghost: serials whose issue or revocation was
                              \* abandoned between two steps

vars == <<certificates, fingerprint_index, crl, crl_last_update, used, now,
          pc, req, reply, acked, dropped>>
store == <<certificates, fingerprint_index, crl, crl_last_update>>

-----------------------------------------------------------------------------
\* The lock each await is for ...
Acquires(point) ==
    IF point \in {"issue_store", "revoke_store"} THEN Write("certificates")
    ELSE IF point = "get"          THEN Read("certificates")
    ELSE IF point = "issue_index"  THEN Write("fingerprint_index")
    ELSE IF point = "find_index"   THEN Read("fingerprint_index")
    ELSE IF point = "revoke_list"  THEN Write("crl")
    ELSE IF point = "list"         THEN Read("crl")
    ELSE IF point = "revoke_stamp" THEN Write("crl_last_update")
    ELSE Read("crl_last_update")

\* ... and the guards held across it: revoke_certificate keeps the certificates
\* until it returns, every other guard is dropped at the end of its statement.
Holds(point) ==
    IF point \in {"revoke_list", "revoke_stamp"} THEN {Write("certificates")} ELSE {}

Points == {"issue_store", "issue_index", "find_index", "get", "revoke_store",
           "revoke_list", "revoke_stamp", "list", "list_stamp"}

At(t, point) ==
    /\ pc[t] = point
    /\ \A u \in Tasks \ {t} :
          \A g \in Holds(pc[u]) : Compatible(g, Acquires(point))

-----------------------------------------------------------------------------
Put(map, k, v) == [x \in DOMAIN map \cup {k} |-> IF x = k THEN v ELSE map[x]]

\* SHA-256 of an encoding of a certificate.
Hash(encoding, serial) == <<encoding, serial>>

NoReq   == [call |-> "none", name |-> "none", key |-> "none", days |-> 0,
            until |-> 0, revoked_at |-> 0, known |-> {}, listed |-> <<>>]
NoReply == [call |-> "none", status |-> "none", name |-> "none",
            known |-> {}, listed |-> <<>>, this_update |-> 0]

Init ==
    /\ certificates = [s \in {} |-> NoReq]
    /\ fingerprint_index = [f \in {} |-> "none"]
    /\ crl = <<>>
    /\ crl_last_update = 0
    /\ used = {}
    /\ now = 0
    /\ pc = [t \in Tasks |-> "idle"]
    /\ req = [t \in Tasks |-> NoReq]
    /\ reply = NoReply
    /\ acked = {}
    /\ dropped = {}

\* The handler goes on to its next await.
Goto(t, point) == pc' = [pc EXCEPT ![t] = point] /\ reply' = NoReply

\* The handler returns r; its locals are gone.
Answer(t, r) ==
    /\ pc' = [pc EXCEPT ![t] = "idle"]
    /\ req' = [req EXCEPT ![t] = NoReq]
    /\ reply' = r

\* A client calls a handler, which runs up to its first await.
Begin(t, point, r) ==
    /\ pc[t] = "idle"
    /\ Goto(t, point)
    /\ req' = [req EXCEPT ![t] = r]
    /\ UNCHANGED <<store, now, acked, dropped>>

-----------------------------------------------------------------------------
\* request_certificate, and renew_certificate without an old certificate: the
\* serial number, the validity and the certificate are made before the first await.
BeginIssue(t) ==
    \E s \in Serials \ used, k \in ApiKeys, days \in Validities :
        /\ Begin(t, "issue_store",
                 [NoReq EXCEPT !.call = "issue", !.name = s, !.key = k,
                               !.until = now + days])
        /\ used' = used \cup {s}

\* A certificate that cannot be generated: the caller is told, and its serial number is
\* forgotten.  (A validity that ends after the calendar does aborts the process instead.)
IssueFails(t) ==
    /\ pc[t] = "idle"
    /\ reply' = [NoReply EXCEPT !.call = "issue", !.status = "failed"]
    /\ UNCHANGED <<store, used, now, pc, req, acked, dropped>>

\* renew_certificate: the old certificate is looked up by the hash of its PEM.
BeginRenew(t) ==
    \E s \in used, k \in ApiKeys, days \in Validities :
        /\ Begin(t, "find_index",
                 [NoReq EXCEPT !.call = "renew", !.name = Hash("PEM", s),
                               !.key = k, !.days = days])
        /\ UNCHANGED used

\* get_certificate_status takes a serial number, or a fingerprint that it then
\* uses as one; check_certificate_ocsp takes a serial number.
BeginLookup(t) ==
    /\ \/ \E s \in Serials, call \in {"status", "ocsp"} :
             Begin(t, "get", [NoReq EXCEPT !.call = call, !.name = s])
       \/ \E s \in used :
             Begin(t, "get", [NoReq EXCEPT !.call = "status", !.name = Hash("DER", s)])
    /\ UNCHANGED used

BeginRevoke(t) ==
    /\ \E s \in Serials :
          Begin(t, "revoke_store", [NoReq EXCEPT !.call = "revoke", !.name = s])
    /\ UNCHANGED used

BeginCrl(t) ==
    /\ Begin(t, "list", [NoReq EXCEPT !.call = "crl", !.known = acked])
    /\ UNCHANGED used

-----------------------------------------------------------------------------
\* issue_certificate: the certificate first ...
IssueStore(t) ==
    LET r == req[t]
    IN  /\ At(t, "issue_store")
        /\ certificates' = Put(certificates, r.name,
               [key |-> r.key, expires_at |-> r.until,
                status |-> "Valid", revoked_at |-> 0])
        /\ Goto(t, "issue_index")
        /\ UNCHANGED <<fingerprint_index, crl, crl_last_update, used, now, req,
                       acked, dropped>>

\* Slip: the certificate is indexed under the hash of its PEM.
IssueIndex_Pem(t) ==
    LET s == req[t].name
    IN  /\ At(t, "issue_index")
        /\ fingerprint_index' = Put(fingerprint_index, Hash("PEM", s), s)
        /\ Answer(t, [NoReply EXCEPT !.call = "issue", !.status = "valid", !.name = s])
        /\ UNCHANGED <<certificates, crl, crl_last_update, used, now, acked, dropped>>

\* ... then its fingerprint, the hash of its DER.
IssueIndex(t) ==
    LET s == req[t].name
    IN  /\ At(t, "issue_index")
        /\ fingerprint_index' = Put(fingerprint_index, Hash("DER", s), s)
        /\ Answer(t, [NoReply EXCEPT !.call = "issue", !.status = "valid", !.name = s])
        /\ UNCHANGED <<certificates, crl, crl_last_update, used, now, acked, dropped>>

\* get_certificate_by_fingerprint: the index, then (get) the certificate.
FindIndex(t) ==
    /\ At(t, "find_index")
    /\ IF req[t].name \in DOMAIN fingerprint_index
       THEN /\ req' = [req EXCEPT ![t].name = fingerprint_index[req[t].name]]
            /\ Goto(t, "get")
       ELSE Answer(t, [NoReply EXCEPT !.call = "renew", !.status = "not_found",
                                      !.name = req[t].name])
    /\ UNCHANGED <<store, used, now, acked, dropped>>

\* Slip: expiry is looked at before revocation.
status_of_ExpiryFirst(entry) ==
    IF entry.expires_at < now THEN "expired"
    ELSE IF entry.status = "Revoked" THEN "revoked"
    ELSE "valid"

\* The three statuses that the service derives from an entry.
status_of(entry) ==
    IF entry.status = "Revoked" THEN "revoked"
    ELSE IF entry.expires_at < now THEN "expired"
    ELSE "valid"

\* renew_certificate, its old certificate found: refused, or issued anew, which may fail.
RenewChecked(t, entry) ==
    LET r == req[t]
        Refuse(why) == /\ Answer(t, [NoReply EXCEPT !.call = "renew", !.status = why,
                                                    !.name = r.name])
                       /\ UNCHANGED used
    IN  \/ entry.key # r.key /\ Refuse("mismatch")
        \/ entry.key = r.key /\ entry.status = "Revoked" /\ Refuse("revoked")
        \/ entry.key = r.key /\ entry.status # "Revoked" /\ Refuse("failed")
        \/ /\ entry.key = r.key /\ entry.status # "Revoked"
           /\ \E s \in Serials \ used :
                 /\ req' = [req EXCEPT ![t].name = s, ![t].until = now + r.days]
                 /\ used' = used \cup {s}
           /\ Goto(t, "issue_store")

\* get_certificate and what its callers make of the entry.
Get(t) ==
    LET r == req[t]
        Say(status) == /\ Answer(t, [NoReply EXCEPT !.call = r.call, !.status = status,
                                                    !.name = r.name])
                       /\ UNCHANGED used
    IN  /\ At(t, "get")
        /\ \/ r.name \notin DOMAIN certificates /\ Say("unknown")
           \/ /\ r.name \in DOMAIN certificates /\ r.call # "renew"
              /\ Say(status_of(certificates[r.name]))
           \/ /\ r.name \in DOMAIN certificates /\ r.call = "renew"
              /\ RenewChecked(t, certificates[r.name])
        /\ UNCHANGED <<store, now, acked, dropped>>

-----------------------------------------------------------------------------
Refused(t, why) == Answer(t, [NoReply EXCEPT !.call = "revoke", !.status = why,
                                             !.name = req[t].name])

\* Slip: a certificate may be revoked again.
RevokeStore_Again(t) ==
    LET s == req[t].name
    IN  /\ At(t, "revoke_store")
        /\ \/ /\ s \notin DOMAIN certificates /\ Refused(t, "not_found")
              /\ UNCHANGED certificates
           \/ /\ s \in DOMAIN certificates
              /\ certificates' = [certificates EXCEPT ![s].status = "Revoked",
                                                      ![s].revoked_at = now]
              /\ req' = [req EXCEPT ![t].revoked_at = now]
              /\ Goto(t, "revoke_list")
        /\ UNCHANGED <<fingerprint_index, crl, crl_last_update, used, now, acked, dropped>>

\* revoke_certificate: the entry, under a guard that is kept ...
RevokeStore(t) ==
    LET s == req[t].name
    IN  /\ At(t, "revoke_store")
        /\ \/ /\ s \notin DOMAIN certificates /\ Refused(t, "not_found")
              /\ UNCHANGED certificates
           \/ /\ s \in DOMAIN certificates /\ certificates[s].status = "Revoked"
              /\ Refused(t, "already_revoked")
              /\ UNCHANGED certificates
           \/ /\ s \in DOMAIN certificates /\ certificates[s].status # "Revoked"
              /\ certificates' = [certificates EXCEPT ![s].status = "Revoked",
                                                      ![s].revoked_at = now]
              /\ req' = [req EXCEPT ![t].revoked_at = now]
              /\ Goto(t, "revoke_list")
        /\ UNCHANGED <<fingerprint_index, crl, crl_last_update, used, now, acked, dropped>>

\* ... the revocation list ...
RevokeList(t) ==
    LET r == req[t]
    IN  /\ At(t, "revoke_list")
        /\ crl' = Append(crl, [serial |-> r.name, revoked_at |-> r.revoked_at])
        /\ Goto(t, "revoke_stamp")
        /\ UNCHANGED <<certificates, fingerprint_index, crl_last_update, used, now,
                       req, acked, dropped>>

\* Slip: the time of the list is not moved.
RevokeStamp_Forgotten(t) ==
    LET r == req[t]
    IN  /\ At(t, "revoke_stamp")
        /\ acked' = acked \cup {r.name}
        /\ Answer(t, [NoReply EXCEPT !.call = "revoke", !.status = "revoked",
                                     !.name = r.name])
        /\ UNCHANGED <<store, used, now, dropped>>

\* ... and its time.
RevokeStamp(t) ==
    LET r == req[t]
    IN  /\ At(t, "revoke_stamp")
        /\ crl_last_update' = r.revoked_at
        /\ acked' = acked \cup {r.name}
        /\ Answer(t, [NoReply EXCEPT !.call = "revoke", !.status = "revoked",
                                     !.name = r.name])
        /\ UNCHANGED <<certificates, fingerprint_index, crl, used, now, dropped>>

\* get_crl: the list under one lock, then its time under another.
ReadList(t) ==
    /\ At(t, "list")
    /\ req' = [req EXCEPT ![t].listed = crl]
    /\ Goto(t, "list_stamp")
    /\ UNCHANGED <<store, used, now, acked, dropped>>

\* Slip: only the entries older than the time of the list are given.
ReadStamp_Older(t) ==
    LET r == req[t]
    IN  /\ At(t, "list_stamp")
        /\ Answer(t, [NoReply EXCEPT !.call = "crl", !.known = r.known,
                         !.listed = SelectSeq(r.listed,
                                       LAMBDA e : e.revoked_at < crl_last_update),
                         !.this_update = crl_last_update])
        /\ UNCHANGED <<store, used, now, acked, dropped>>

ReadStamp(t) ==
    LET r == req[t]
    IN  /\ At(t, "list_stamp")
        /\ Answer(t, [NoReply EXCEPT !.call = "crl", !.known = r.known,
                                     !.listed = r.listed,
                                     !.this_update = crl_last_update])
        /\ UNCHANGED <<store, used, now, acked, dropped>>

-----------------------------------------------------------------------------
\* The client disconnects: the future is dropped at its await.
Cancel(t) ==
    /\ MayCancel
    /\ pc[t] # "idle"
    /\ Answer(t, NoReply)
    /\ dropped' = IF pc[t] \in {"issue_index", "revoke_list", "revoke_stamp"}
                  THEN dropped \cup {req[t].name} ELSE dropped
    /\ UNCHANGED <<store, used, now, acked>>

Tick ==
    /\ now < MaxTime
    /\ now' = now + 1
    /\ reply' = NoReply
    /\ UNCHANGED <<store, used, pc, req, acked, dropped>>

Start(t) ==
    \/ BeginIssue(t) \/ BeginRenew(t) \/ BeginLookup(t)
    \/ BeginRevoke(t) \/ BeginCrl(t)

Proceed(t) ==
    \/ IssueStore(t) \/ IssueIndex(t)
    \/ FindIndex(t) \/ Get(t)
    \/ RevokeStore(t) \/ RevokeList(t) \/ RevokeStamp(t)
    \/ ReadList(t) \/ ReadStamp(t)

Next == (\E t \in Tasks : Start(t) \/ IssueFails(t) \/ Proceed(t) \/ Cancel(t)) \/ Tick

Spec == Init /\ [][Next]_vars

-----------------------------------------------------------------------------
Calls == {"issue", "renew", "status", "ocsp", "revoke", "crl"}
Asked == Serials \cup ({"DER", "PEM"} \X Serials)
Name  == Asked \cup {"none"}
Entry == [key : ApiKeys, expires_at : Nat, status : {"Valid", "Revoked"},
          revoked_at : Nat]
Lists == Seq([serial : Serials, revoked_at : Nat])

\* The types of the manager's four maps and of the handlers' locals.
TypeOK ==
    /\ used \subseteq Serials
    /\ DOMAIN certificates \subseteq used
    /\ certificates \in [DOMAIN certificates -> Entry]
    /\ DOMAIN fingerprint_index \subseteq {"DER"} \X Serials
    /\ fingerprint_index \in [DOMAIN fingerprint_index -> Serials]
    /\ crl \in Lists
    /\ crl_last_update \in Nat /\ now \in Nat
    /\ pc \in [Tasks -> Points \cup {"idle"}]
    /\ req \in [Tasks -> [call : Calls \cup {"none"}, name : Name,
                         key : ApiKeys \cup {"none"}, days : Nat, until : Nat,
                         revoked_at : Nat, known : SUBSET Serials, listed : Lists]]
    /\ acked \subseteq Serials /\ dropped \subseteq Serials

ListedIn(list) == {list[i].serial : i \in DOMAIN list}
InProgress(point) == {req[t].name : t \in {u \in Tasks : pc[u] = point}}

\* The revocation list and the store agree, whatever calls run or are abandoned: an
\* entry names a revoked certificate and its time, and a revoked certificate is on
\* the list unless its revocation is on the way or was dropped on the way.
CrlMatchesStore ==
    /\ \A i \in DOMAIN crl :
          /\ crl[i].serial \in DOMAIN certificates
          /\ certificates[crl[i].serial].status = "Revoked"
          /\ certificates[crl[i].serial].revoked_at = crl[i].revoked_at
    /\ \A s \in DOMAIN certificates : certificates[s].status = "Revoked" =>
          s \in ListedIn(crl) \cup InProgress("revoke_list") \cup dropped

\* Concurrent revocations enter the list once each and in the order of their times.
CrlInOrder ==
    \A i, j \in DOMAIN crl : i < j =>
        /\ crl[i].serial # crl[j].serial
        /\ crl[i].revoked_at <= crl[j].revoked_at

\* The time of the list is never before a revocation that was confirmed.
CrlFresh ==
    \A i \in DOMAIN crl : crl[i].serial \in acked => crl[i].revoked_at <= crl_last_update

\* A client is given every revocation that was confirmed before it asked, although
\* the list and its time are read under different locks.
CrlAnswerComplete ==
    reply.call = "crl" => reply.known \subseteq ListedIn(reply.listed)

\* What a client has been told of a certificate is never taken back: a valid one may
\* expire, either may be revoked, and a revoked one stays so.
StatusRank(s) == IF status_of(certificates[s]) = "valid" THEN 0
                 ELSE IF status_of(certificates[s]) = "expired" THEN 1 ELSE 2
StatusForward ==
    [][\A s \in DOMAIN certificates :
          s \in DOMAIN certificates' /\ StatusRank(s) <= StatusRank(s)']_vars

\* The store and its index are written under different locks; no certificate that
\* was handed out is missing from the index, and the index names no other.
IssuedIndexed ==
    /\ \A f \in DOMAIN fingerprint_index :
          f = Hash("DER", fingerprint_index[f]) /\ fingerprint_index[f] \in DOMAIN certificates
    /\ \A s \in DOMAIN certificates :
          \/ Hash("DER", s) \in DOMAIN fingerprint_index
          \/ s \in InProgress("issue_index") \cup dropped

\* "Renew an existing certificate": a client that presents a certificate which the
\* index knows is not told that there is none.
RenewalFindsCertificate ==
    reply.call = "renew" /\ reply.status = "not_found" =>
        Hash("DER", reply.name[2]) \notin DOMAIN fingerprint_index

\* Seen through its certificates, its list and its answers to questions about them,
\* the service is a revocation ledger: however calls interleave or are abandoned, a
\* certificate is revoked once and published in order, a confirmation moves the time
\* of the list to that revocation, and every answer is true when it is given.
expiry  == [s \in DOMAIN certificates |-> certificates[s].expires_at]
revoked == [s \in {x \in DOMAIN certificates : certificates[x].status = "Revoked"} |->
               certificates[s].revoked_at]
told == IF reply.call = "crl"
        THEN [call |-> "crl", known |-> reply.known, listed |-> reply.listed,
              this_update |-> reply.this_update]
        ELSE IF reply.call \in {"status", "ocsp", "revoke"}
        THEN [call |-> reply.call, name |-> reply.name, status |-> reply.status]
        ELSE [call |-> "none"]

Ledger == INSTANCE RevocationLedger WITH
              Names <- Asked, today <- now, list <- crl, stamp <- crl_last_update,
              confirmed <- acked, answer <- told
RefinesRevocations == Ledger!Spec
=============================================================================
