------------------------- MODULE CertificateProofs --------------------------
(***************************************************************************)
(* Proofs about the certificate store, for any number of calls, serial     *)
(* numbers and days, with clients that disconnect at any await.            *)
(*                                                                         *)
(* The list and the store agree because the guard on the certificates is   *)
(* kept until a revocation is over (OneRevoking): what a revocation decided *)
(* under it (RevocationInv) still holds when the list and its time are     *)
(* written.  The last section proves that the service implements           *)
(* RevocationLedger.                                                       *)
(***************************************************************************)
EXTENDS CertificateManager, TLAPS

Requests == [call : Calls \cup {"none"}, name : Name,
             key : ApiKeys \cup {"none"}, days : Nat, until : Nat, revoked_at : Nat,
             known : SUBSET Serials, listed : Lists]

Revoking == {"revoke_list", "revoke_stamp"}

\* The certificates' guard admits one revocation at a time.
OneRevoking ==
    \A u, v \in Tasks : pc[u] \in Revoking /\ pc[v] \in Revoking => u = v

\* Two certificates that are being issued have different serial numbers.
IssuesDistinct ==
    \A u, v \in Tasks :
       pc[u] = "issue_store" /\ pc[v] = "issue_store" /\ req[u].name = req[v].name => u = v

\* A certificate that is being issued is new, and in the store before its index.
IssueInv(p, r) ==
    /\ p = "issue_store" => /\ r.name \in used /\ r.name \notin DOMAIN certificates
                            /\ r.key \in ApiKeys
    /\ p = "issue_index" => r.name \in DOMAIN certificates

\* A revocation has marked its certificate with its time, which nothing on the list
\* comes after, and has put it on the list when it writes the list's time.
RevocationInv(p, r) ==
    p \in Revoking =>
        /\ r.name \in DOMAIN certificates
        /\ certificates[r.name].status = "Revoked"
        /\ certificates[r.name].revoked_at = r.revoked_at
        /\ r.revoked_at <= now
        /\ \A i \in DOMAIN crl : crl[i].revoked_at <= r.revoked_at
        /\ r.name \in ListedIn(crl) <=> p = "revoke_stamp"

\* A client's question about the list covers what was confirmed when it was asked.
QuestionInv(p, r) ==
    /\ p \in {"find_index", "get"} => r.call # "crl"
    /\ p = "list" => r.known \subseteq acked
    /\ p = "list_stamp" => r.known \subseteq ListedIn(r.listed)

TaskInv(p, r) == IssueInv(p, r) /\ RevocationInv(p, r) /\ QuestionInv(p, r)

\* What was confirmed is on the list, and nothing on it is from the future.
ListInv ==
    /\ acked \subseteq ListedIn(crl)
    /\ \A i \in DOMAIN crl : crl[i].revoked_at <= now

IInv ==
    /\ TypeOK
    /\ OneRevoking /\ IssuesDistinct
    /\ \A u \in Tasks : TaskInv(pc[u], req[u])
    /\ ListInv
    /\ CrlMatchesStore /\ CrlInOrder /\ CrlFresh
    /\ IssuedIndexed /\ CrlAnswerComplete

-----------------------------------------------------------------------------
\* The empty request is well typed.
LEMMA NoReqType == NoReq \in Requests
  <1>1. \A c \in Calls \cup {"none"}, n \in Name, k \in ApiKeys \cup {"none"}, d, u, v \in Nat,
           kn \in SUBSET Serials, l \in Lists :
           [call |-> c, name |-> n, key |-> k, days |-> d, until |-> u,
            revoked_at |-> v, known |-> kn, listed |-> l] \in Requests
    BY DEF Requests
  <1>2. {} \in SUBSET Serials
    OBVIOUS
  <1>3. "none" \in Name /\ "none" \in ApiKeys \cup {"none"} /\ "none" \in Calls \cup {"none"}
    BY Zenon DEF Name
  <1>4. <<>> \in Lists
    BY DEF Lists
  <1> QED
    BY <1>1, <1>2, <1>3, <1>4 DEF NoReq

\* At the start there are no certificates and no calls.
LEMMA InitInv == Init => IInv
  <1> SUFFICES ASSUME Init PROVE IInv
    OBVIOUS
  <1>1. TypeOK
    BY NoReqType DEF Init, TypeOK, Requests, Lists
  <1>2. OneRevoking /\ IssuesDistinct
    BY DEF Init, OneRevoking, IssuesDistinct, Revoking
  <1>3. \A u \in Tasks : TaskInv(pc[u], req[u])
    BY DEF Init, TaskInv, IssueInv, RevocationInv, QuestionInv, Revoking
  <1>4. ListInv /\ CrlMatchesStore /\ CrlInOrder /\ CrlFresh /\ IssuedIndexed
    BY DEF Init, ListInv, ListedIn, CrlMatchesStore, CrlInOrder, CrlFresh, IssuedIndexed
  <1>5. CrlAnswerComplete
    BY DEF Init, NoReply, CrlAnswerComplete
  <1> QED
    BY <1>1, <1>2, <1>3, <1>4, <1>5 DEF IInv

\* Every call but t stays where it is.
OthersStay(t) == \A u \in Tasks \ {t} : pc'[u] = pc[u] /\ req'[u] = req[u]

\* A certificate that was on its way stays so unless its own call moved.
LEMMA OthersInProgress ==
    ASSUME NEW t \in Tasks, OthersStay(t), NEW point, NEW s \in InProgress(point),
           pc[t] # point \/ req[t].name # s
    PROVE  s \in InProgress(point)'
  <1>1. PICK u \in Tasks : pc[u] = point /\ req[u].name = s
    BY DEF InProgress
  <1>2. pc'[u] = point /\ req'[u].name = s
    BY <1>1 DEF OthersStay
  <1> QED
    BY <1>1, <1>2 DEF InProgress

\* The revocation list has serial numbers and times at its positions.
LEMMA ListType ==
    ASSUME TypeOK
    PROVE  /\ Len(crl) \in Nat /\ DOMAIN crl = 1..Len(crl)
           /\ \A i \in DOMAIN crl : crl[i].serial \in Serials /\ crl[i].revoked_at \in Nat
  <1> DEFINE Items == [serial : Serials, revoked_at : Nat]
  <1>1. \A e \in Items : e.serial \in Serials /\ e.revoked_at \in Nat
    OBVIOUS
  <1>2. crl \in Seq(Items)
    BY DEF TypeOK, Lists
  <1> HIDE DEF Items
  <1>3. Len(crl) \in Nat /\ DOMAIN crl = 1..Len(crl) /\ \A i \in DOMAIN crl : crl[i] \in Items
    BY <1>2
  <1> QED
    BY <1>1, <1>3

-----------------------------------------------------------------------------
\* A step that reads the store, or only the arguments of a call: it keeps the
\* invariant if what it takes along to its next await is sound, and if it does
\* not silently give up an issue or a revocation.
LEMMA QuietStep ==
    ASSUME IInv, NEW t \in Tasks,
           NEW p \in {"idle", "find_index", "get", "revoke_store", "list",
                      "list_stamp", "issue_store"},
           NEW r \in Requests,
           pc' = [pc EXCEPT ![t] = p], req' = [req EXCEPT ![t] = r],
           UNCHANGED <<store, now, acked>>,
           used \subseteq used', used' \subseteq Serials,
           dropped \subseteq dropped', dropped' \subseteq Serials,
           pc[t] \in {"issue_index", "revoke_list"} => req[t].name \in dropped',
           p = "issue_store" => r.name \in used' \ used /\ r.key \in ApiKeys,
           QuestionInv(p, r),
           reply'.call = "crl" => reply'.known \subseteq ListedIn(reply'.listed)
    PROVE  IInv'
  <1>0. /\ certificates' = certificates /\ fingerprint_index' = fingerprint_index
        /\ crl' = crl /\ crl_last_update' = crl_last_update
        /\ now' = now /\ acked' = acked
        /\ pc \in [Tasks -> Points \cup {"idle"}] /\ req \in [Tasks -> Requests]
        /\ DOMAIN certificates \subseteq used
        /\ TypeOK
    BY DEF store, IInv, TypeOK, Requests
  <1>a. /\ pc'[t] = p /\ req'[t] = r
        /\ \A u \in Tasks \ {t} : pc'[u] = pc[u] /\ req'[u] = req[u]
    BY <1>0
  <1>b. OthersStay(t)
    BY <1>a DEF OthersStay
  <1>1. TypeOK'
    <2>1. p \in Points \cup {"idle"}
      BY DEF Points
    <2>2. pc' \in [Tasks -> Points \cup {"idle"}] /\ req' \in [Tasks -> Requests]
      BY <1>0, <2>1
    <2> QED
      BY <1>0, <2>2 DEF TypeOK, Requests
  <1>2. OneRevoking'
    BY <1>a DEF IInv, OneRevoking, Revoking
  <1>3. IssuesDistinct'
    <2> SUFFICES ASSUME NEW u \in Tasks, NEW v \in Tasks, pc'[u] = "issue_store",
                        pc'[v] = "issue_store", req'[u].name = req'[v].name, u # v
                 PROVE  FALSE
      BY DEF IssuesDistinct
    <2>1. \A w \in Tasks : pc[w] = "issue_store" => req[w].name \in used
      BY DEF IInv, TaskInv, IssueInv
    <2>2. CASE u # t /\ v # t
      BY <1>a, <2>2 DEF IInv, IssuesDistinct
    <2>3. CASE u = t
      BY <1>a, <2>1, <2>3
    <2>4. CASE v = t
      BY <1>a, <2>1, <2>4
    <2> QED
      BY <2>2, <2>3, <2>4
  <1>4. ASSUME NEW u \in Tasks PROVE TaskInv(pc[u], req[u])'
    <2>1. CASE u # t
      BY <1>0, <1>a, <2>1 DEF IInv, TaskInv, IssueInv, RevocationInv, QuestionInv
    <2>2. CASE u = t
      <3>1. IssueInv(pc[u], req[u])'
        BY <1>0, <1>a, <2>2 DEF IssueInv
      <3>2. RevocationInv(pc[u], req[u])'
        BY <1>a, <2>2 DEF RevocationInv, Revoking
      <3>3. QuestionInv(pc[u], req[u])'
        BY <1>0, <1>a, <2>2 DEF QuestionInv
      <3> QED
        BY <3>1, <3>2, <3>3 DEF TaskInv
    <2> QED
      BY <2>1, <2>2
  <1>5. ListInv' /\ CrlInOrder' /\ CrlFresh'
    BY <1>0 DEF IInv, ListInv, CrlInOrder, CrlFresh
  <1>6. CrlMatchesStore'
    <2>1. ASSUME NEW s \in InProgress("revoke_list")
          PROVE  s \in InProgress("revoke_list")' \cup dropped'
      BY <1>b, <2>1, OthersInProgress
    <2> QED
      BY <1>0, <2>1 DEF IInv, CrlMatchesStore
  <1>7. IssuedIndexed'
    <2>1. ASSUME NEW s \in InProgress("issue_index")
          PROVE  s \in InProgress("issue_index")' \cup dropped'
      BY <1>b, <2>1, OthersInProgress
    <2> QED
      BY <1>0, <2>1 DEF IInv, IssuedIndexed
  <1>8. CrlAnswerComplete'
    BY DEF CrlAnswerComplete
  <1> QED
    BY <1>1, <1>2, <1>3, <1>4, <1>5, <1>6, <1>7, <1>8 DEF IInv

\* An answer that is not a list, given with the store untouched.
LEMMA AnswerStep ==
    ASSUME IInv, NEW t \in Tasks, NEW a, Answer(t, a), a.call # "crl",
           pc[t] \notin {"issue_index", "revoke_list"},
           UNCHANGED <<store, used, now, acked, dropped>>
    PROVE  IInv'
  <1>1. /\ pc' = [pc EXCEPT ![t] = "idle"] /\ req' = [req EXCEPT ![t] = NoReq]
        /\ reply' = a
    BY DEF Answer
  <1>2. QuestionInv("idle", NoReq)
    BY DEF QuestionInv
  <1>3. used \subseteq Serials /\ dropped \subseteq Serials
    BY DEF IInv, TypeOK
  <1> QED
    BY <1>1, <1>2, <1>3, NoReqType, QuietStep

-----------------------------------------------------------------------------
\* A call begins: nothing but its arguments.
LEMMA BeginStep ==
    ASSUME IInv, NEW t \in Tasks, NEW p \in {"find_index", "get", "revoke_store", "list",
                                             "issue_store"},
           NEW r \in Requests, Begin(t, p, r),
           used \subseteq used', used' \subseteq Serials,
           p = "issue_store" => r.name \in used' \ used /\ r.key \in ApiKeys,
           QuestionInv(p, r)
    PROVE  IInv'
  <1>1. /\ pc' = [pc EXCEPT ![t] = p] /\ req' = [req EXCEPT ![t] = r]
        /\ reply' = NoReply /\ pc[t] = "idle"
        /\ UNCHANGED <<store, now, acked, dropped>>
    BY DEF Begin, Goto
  <1>2. NoReply.call # "crl"
    BY DEF NoReply
  <1>3. dropped \subseteq Serials
    BY DEF IInv, TypeOK
  <1> QED
    BY <1>1, <1>2, <1>3, QuietStep

\* Serial numbers, and the hashes that clients may present, are names.
LEMMA NameType ==
    \A s \in Serials : s \in Name /\ Hash("PEM", s) \in Name /\ Hash("DER", s) \in Name
  <1> SUFFICES ASSUME NEW s \in Serials
               PROVE  s \in Name /\ Hash("PEM", s) \in Name /\ Hash("DER", s) \in Name
    OBVIOUS
  <1>1. s \in Name
    BY Zenon DEF Name, Asked
  <1>2. Hash("PEM", s) \in {"DER", "PEM"} \X Serials
    BY DEF Hash
  <1>3. Hash("DER", s) \in {"DER", "PEM"} \X Serials
    BY DEF Hash
  <1> QED
    BY <1>1, <1>2, <1>3, Zenon DEF Name, Asked

\* What a call asks for is typed by its name, its call and its numbers.
LEMMA RequestTypes ==
    ASSUME NEW c \in Calls, NEW n \in Name
    PROVE  /\ [NoReq EXCEPT !.call = c, !.name = n] \in Requests
           /\ \A k \in ApiKeys, d \in Nat :
                 /\ [NoReq EXCEPT !.call = c, !.name = n, !.key = k, !.until = d] \in Requests
                 /\ [NoReq EXCEPT !.call = c, !.name = n, !.key = k, !.days = d] \in Requests
           /\ \A known \in SUBSET Serials :
                 [NoReq EXCEPT !.call = c, !.known = known] \in Requests
  BY NoReqType DEF Requests

\* The five ways a call begins.
LEMMA StartStep == ASSUME IInv, NEW t \in Tasks, Start(t) PROVE IInv'
  <1>0. /\ used \subseteq Serials /\ acked \subseteq Serials /\ now \in Nat
        /\ \A d \in Validities : d \in Nat
    BY CertificateAssumption DEF IInv, TypeOK
  <1>1. ASSUME BeginIssue(t) PROVE IInv'
    <2>1. PICK s \in Serials \ used, k \in ApiKeys, u \in Nat :
             /\ Begin(t, "issue_store",
                      [NoReq EXCEPT !.call = "issue", !.name = s, !.key = k, !.until = u])
             /\ used' = used \cup {s}
      <3>1. PICK s \in Serials \ used, k \in ApiKeys, d \in Validities :
               /\ Begin(t, "issue_store",
                        [NoReq EXCEPT !.call = "issue", !.name = s, !.key = k,
                                      !.until = now + d])
               /\ used' = used \cup {s}
        BY <1>1 DEF BeginIssue
      <3>2. now + d \in Nat
        BY <1>0
      <3> QED
        BY <3>1, <3>2
    <2> DEFINE r == [NoReq EXCEPT !.call = "issue", !.name = s, !.key = k, !.until = u]
    <2>2. r \in Requests
      BY NameType, RequestTypes DEF Calls
    <2>3. r.name = s /\ r.key = k
      BY DEF NoReq
    <2>4. QuestionInv("issue_store", r)
      BY DEF QuestionInv
    <2> HIDE DEF r
    <2>5. Begin(t, "issue_store", r)
      BY <2>1 DEF r
    <2> QED
      BY <1>0, <2>1, <2>2, <2>3, <2>4, <2>5, BeginStep
  <1>2. ASSUME BeginRenew(t) PROVE IInv'
    <2>1. PICK s \in used, k \in ApiKeys, d \in Validities :
             /\ Begin(t, "find_index", [NoReq EXCEPT !.call = "renew",
                          !.name = Hash("PEM", s), !.key = k, !.days = d])
             /\ UNCHANGED used
      BY <1>2 DEF BeginRenew
    <2> DEFINE r == [NoReq EXCEPT !.call = "renew", !.name = Hash("PEM", s),
                                  !.key = k, !.days = d]
    <2>2. r \in Requests
      BY <1>0, NameType, RequestTypes DEF Calls
    <2>3. r.call = "renew"
      BY DEF NoReq
    <2> HIDE DEF r
    <2>4. QuestionInv("find_index", r)
      BY <2>3 DEF QuestionInv
    <2>5. Begin(t, "find_index", r)
      BY <2>1 DEF r
    <2> QED
      BY <1>0, <2>1, <2>2, <2>4, <2>5, BeginStep
  <1>3. ASSUME BeginLookup(t) PROVE IInv'
    <2>1. PICK n \in Name, call \in {"status", "ocsp"} :
             Begin(t, "get", [NoReq EXCEPT !.call = call, !.name = n])
      BY <1>0, <1>3, NameType DEF BeginLookup
    <2> DEFINE r == [NoReq EXCEPT !.call = call, !.name = n]
    <2>2. r \in Requests /\ r.call = call
      BY RequestTypes DEF Calls, NoReq
    <2> HIDE DEF r
    <2>3. QuestionInv("get", r)
      BY <2>2 DEF QuestionInv
    <2>4. Begin(t, "get", r) /\ UNCHANGED used
      BY <1>3, <2>1 DEF BeginLookup, r
    <2> QED
      BY <1>0, <2>2, <2>3, <2>4, BeginStep
  <1>4. ASSUME BeginRevoke(t) PROVE IInv'
    <2>1. PICK s \in Serials :
             Begin(t, "revoke_store", [NoReq EXCEPT !.call = "revoke", !.name = s])
      BY <1>4 DEF BeginRevoke
    <2> DEFINE r == [NoReq EXCEPT !.call = "revoke", !.name = s]
    <2>2. r \in Requests
      BY NameType, RequestTypes DEF Calls
    <2>3. QuestionInv("revoke_store", r)
      BY DEF QuestionInv
    <2> HIDE DEF r
    <2>4. Begin(t, "revoke_store", r) /\ UNCHANGED used
      BY <1>4, <2>1 DEF BeginRevoke, r
    <2> QED
      BY <1>0, <2>2, <2>3, <2>4, BeginStep
  <1>5. ASSUME BeginCrl(t) PROVE IInv'
    <2>1. PICK known \in SUBSET Serials : known = acked
      BY <1>0
    <2> DEFINE r == [NoReq EXCEPT !.call = "crl", !.known = known]
    <2>2. r \in Requests
      BY NoReqType, <2>1 DEF Calls, Requests
    <2>3. r.known = acked
      BY <2>1 DEF NoReq
    <2> HIDE DEF r
    <2>4. QuestionInv("list", r)
      BY <2>3 DEF QuestionInv
    <2>5. Begin(t, "list", r) /\ UNCHANGED used
      BY <1>5, <2>1 DEF BeginCrl, r
    <2> QED
      BY <1>0, <2>2, <2>4, <2>5, BeginStep
  <1> QED
    BY <1>1, <1>2, <1>3, <1>4, <1>5 DEF Start

-----------------------------------------------------------------------------
\* The index is asked; what it names is a serial number.
LEMMA FindIndexStep == ASSUME IInv, NEW t \in Tasks, FindIndex(t) PROVE IInv'
  <1>0. /\ req[t] \in Requests /\ pc[t] = "find_index"
        /\ used \subseteq Serials /\ dropped \subseteq Serials
        /\ QuestionInv("find_index", req[t])
    BY DEF IInv, TypeOK, Requests, TaskInv, FindIndex, At
  <1>1. CASE req[t].name \in DOMAIN fingerprint_index
    <2>1. PICK s \in Name : s = fingerprint_index[req[t].name]
      BY <1>1, NameType DEF IInv, TypeOK
    <2> DEFINE r == [req[t] EXCEPT !.name = s]
    <2>2. r \in Requests /\ r.call = req[t].call
      BY <1>0 DEF Requests
    <2>3. /\ pc' = [pc EXCEPT ![t] = "get"] /\ req' = [req EXCEPT ![t] = r]
          /\ reply' = NoReply /\ UNCHANGED <<store, used, now, acked, dropped>>
      BY <1>1, <2>1 DEF FindIndex, Goto
    <2> HIDE DEF r
    <2>4. QuestionInv("get", r)
      BY <1>0, <2>2 DEF QuestionInv
    <2>5. NoReply.call # "crl"
      BY DEF NoReply
    <2> QED
      BY <1>0, <2>2, <2>3, <2>4, <2>5, QuietStep
  <1>2. CASE req[t].name \notin DOMAIN fingerprint_index
    <2> DEFINE a == [NoReply EXCEPT !.call = "renew", !.status = "not_found",
                                    !.name = req[t].name]
    <2>1. Answer(t, a) /\ UNCHANGED <<store, used, now, acked, dropped>>
      BY <1>2 DEF FindIndex
    <2>2. a.call # "crl"
      BY DEF NoReply
    <2> HIDE DEF a
    <2> QED
      BY <1>0, <2>1, <2>2, AnswerStep
  <1> QED
    BY <1>1, <1>2

\* A lookup is answered, or a renewal goes on to issue a certificate of its own.
LEMMA GetStep == ASSUME IInv, NEW t \in Tasks, Get(t) PROVE IInv'
  <1>0. /\ req[t] \in Requests /\ pc[t] = "get"
        /\ used \subseteq Serials /\ dropped \subseteq Serials /\ now \in Nat
        /\ QuestionInv("get", req[t])
        /\ UNCHANGED <<store, now, acked, dropped>>
    BY DEF IInv, TypeOK, Requests, TaskInv, Get, At
  <1>a. ASSUME NEW c, c # "crl", NEW status, UNCHANGED used,
               Answer(t, [NoReply EXCEPT !.call = c, !.status = status, !.name = req[t].name])
        PROVE  IInv'
    <2> DEFINE a == [NoReply EXCEPT !.call = c, !.status = status, !.name = req[t].name]
    <2>1. a.call # "crl"
      BY <1>a DEF NoReply
    <2>2. Answer(t, a)
      BY <1>a
    <2> HIDE DEF a
    <2> QED
      BY <1>0, <1>a, <2>1, <2>2, AnswerStep
  <1>1. ASSUME NEW status, UNCHANGED used,
               Answer(t, [NoReply EXCEPT !.call = req[t].call, !.status = status,
                                         !.name = req[t].name])
        PROVE  IInv'
    <2>1. req[t].call # "crl"
      BY <1>0 DEF QuestionInv
    <2> QED
      BY <1>1, <1>a, <2>1
  <1>2. ASSUME req[t].name \in DOMAIN certificates,
               RenewChecked(t, certificates[req[t].name])
        PROVE  IInv'
    <2> DEFINE entry == certificates[req[t].name]
    <2>0. entry.key \in ApiKeys
      BY <1>2 DEF IInv, TypeOK, Entry
    <2>1. CASE \E why : Answer(t, [NoReply EXCEPT !.call = "renew", !.status = why,
                                                  !.name = req[t].name])
                        /\ UNCHANGED used
      BY <2>1, <1>a
    <2>2. CASE /\ entry.key = req[t].key /\ entry.status # "Revoked"
               /\ \E s \in Serials \ used :
                    /\ req' = [req EXCEPT ![t].name = s, ![t].until = now + req[t].days]
                    /\ used' = used \cup {s}
               /\ Goto(t, "issue_store")
      <3>1. PICK s \in Serials \ used, u \in Nat :
               /\ req' = [req EXCEPT ![t].name = s, ![t].until = u]
               /\ used' = used \cup {s} /\ Goto(t, "issue_store")
        <4>1. now + req[t].days \in Nat
          BY <1>0 DEF Requests
        <4> QED
          BY <2>2, <4>1
      <3> DEFINE r == [req[t] EXCEPT !.name = s, !.until = u]
      <3>2. r \in Requests /\ r.name = s /\ r.key = req[t].key
        BY <1>0, NameType DEF Requests
      <3>3. req' = [req EXCEPT ![t] = r]
        BY <3>1 DEF IInv, TypeOK
      <3> HIDE DEF r
      <3>4. QuestionInv("issue_store", r) /\ NoReply.call # "crl"
        BY DEF QuestionInv, NoReply
      <3>5. pc' = [pc EXCEPT ![t] = "issue_store"] /\ reply' = NoReply
        BY <3>1 DEF Goto
      <3>6. /\ used \subseteq used' /\ used' \subseteq Serials
            /\ r.name \in used' \ used /\ r.key \in ApiKeys
        BY <1>0, <2>0, <2>2, <3>1, <3>2
      <3>7. pc[t] \notin {"issue_index", "revoke_list"} /\ reply'.call # "crl"
        BY <1>0, <3>4, <3>5
      <3> HIDE DEF entry
      <3> QED
        BY <1>0, <3>2, <3>3, <3>4, <3>5, <3>6, <3>7, QuietStep
    <2> QED
      BY <1>2, <2>1, <2>2 DEF RenewChecked
  <1> QED
    BY <1>1, <1>2 DEF Get

\* The two halves of get_crl: the list has what was confirmed when it was asked for.
LEMMA ReadCrlStep == ASSUME IInv, NEW t \in Tasks, ReadList(t) \/ ReadStamp(t) PROVE IInv'
  <1>0. /\ req[t] \in Requests
        /\ used \subseteq Serials /\ dropped \subseteq Serials /\ crl \in Lists
        /\ QuestionInv(pc[t], req[t])
        /\ acked \subseteq ListedIn(crl)
        /\ UNCHANGED <<store, used, now, acked, dropped>>
    BY DEF IInv, TypeOK, Requests, TaskInv, ListInv, ReadList, ReadStamp
  <1>1. CASE ReadList(t)
    <2>1. PICK l \in Lists : l = crl
      BY <1>0
    <2> DEFINE r == [req[t] EXCEPT !.listed = l]
    <2>2. r \in Requests /\ r.known = req[t].known /\ r.listed = l
      BY <1>0 DEF Requests
    <2>3. req' = [req EXCEPT ![t] = r]
      BY <1>1, <2>1 DEF ReadList, IInv, TypeOK
    <2> HIDE DEF r
    <2>4. pc[t] = "list" /\ pc' = [pc EXCEPT ![t] = "list_stamp"] /\ reply' = NoReply
      BY <1>1 DEF ReadList, At, Goto
    <2>5. QuestionInv("list_stamp", r)
      BY <1>0, <2>1, <2>2, <2>4 DEF QuestionInv
    <2>6. NoReply.call # "crl"
      BY DEF NoReply
    <2> QED
      BY <1>0, <2>2, <2>3, <2>4, <2>5, <2>6, QuietStep
  <1>2. CASE ReadStamp(t)
    <2>1. /\ pc[t] = "list_stamp" /\ pc' = [pc EXCEPT ![t] = "idle"]
          /\ req' = [req EXCEPT ![t] = NoReq]
          /\ reply'.known = req[t].known /\ reply'.listed = req[t].listed
      BY <1>2 DEF ReadStamp, At, Answer, NoReply
    <2>2. reply'.known \subseteq ListedIn(reply'.listed)
      BY <1>0, <2>1 DEF QuestionInv, ListedIn
    <2>3. QuestionInv("idle", NoReq)
      BY DEF QuestionInv
    <2> QED
      BY <1>0, <2>1, <2>2, <2>3, NoReqType, QuietStep
  <1> QED
    BY <1>1, <1>2

\* A disconnect gives up an issue or a revocation, but never silently.
LEMMA CancelStep == ASSUME IInv, NEW t \in Tasks, Cancel(t) PROVE IInv'
  <1>1. /\ pc' = [pc EXCEPT ![t] = "idle"] /\ req' = [req EXCEPT ![t] = NoReq]
        /\ reply'.call # "crl" /\ UNCHANGED <<store, used, now, acked>>
    BY DEF Cancel, Answer, NoReply
  <1>2. pc[t] \in {"issue_index", "revoke_list", "revoke_stamp"} => req[t].name \in Serials
    BY DEF IInv, TypeOK, TaskInv, IssueInv, RevocationInv, Revoking
  <1>3. /\ dropped \subseteq dropped' /\ dropped' \subseteq Serials
        /\ pc[t] \in {"issue_index", "revoke_list"} => req[t].name \in dropped'
    BY <1>2 DEF Cancel, IInv, TypeOK
  <1>4. used \subseteq Serials /\ QuestionInv("idle", NoReq)
    BY DEF IInv, TypeOK, QuestionInv
  <1> QED
    BY <1>1, <1>3, <1>4, NoReqType, QuietStep

\* A certificate that could not be generated leaves nothing behind but the answer.
LEMMA FailureStep == ASSUME IInv, NEW t \in Tasks, IssueFails(t) PROVE IInv'
  <1>1. /\ certificates' = certificates /\ fingerprint_index' = fingerprint_index
        /\ crl' = crl /\ crl_last_update' = crl_last_update /\ reply'.call # "crl"
        /\ UNCHANGED <<used, now, pc, req, acked, dropped>>
    BY DEF IssueFails, store, NoReply
  <1>2. TypeOK' /\ OneRevoking' /\ IssuesDistinct'
    BY <1>1 DEF IInv, TypeOK, OneRevoking, IssuesDistinct
  <1>3. \A u \in Tasks : TaskInv(pc[u], req[u])'
    BY <1>1 DEF IInv, TaskInv, IssueInv, RevocationInv, QuestionInv
  <1>4. ListInv' /\ CrlMatchesStore' /\ CrlInOrder' /\ CrlFresh'
    BY <1>1 DEF IInv, ListInv, CrlMatchesStore, CrlInOrder, CrlFresh, InProgress
  <1>5. IssuedIndexed' /\ CrlAnswerComplete'
    BY <1>1 DEF IInv, IssuedIndexed, CrlAnswerComplete, InProgress
  <1> QED
    BY <1>2, <1>3, <1>4, <1>5 DEF IInv

\* The clock only moves forward.
LEMMA TickStep == ASSUME IInv, Tick PROVE IInv'
  <1>1. /\ now' = now + 1 /\ now \in Nat /\ reply' = NoReply
        /\ certificates' = certificates /\ fingerprint_index' = fingerprint_index
        /\ crl' = crl /\ crl_last_update' = crl_last_update
        /\ UNCHANGED <<used, pc, req, acked, dropped>>
    BY DEF Tick, store, IInv, TypeOK
  <1>2. TypeOK'
    BY <1>1 DEF IInv, TypeOK
  <1>3. OneRevoking' /\ IssuesDistinct'
    BY <1>1 DEF IInv, OneRevoking, IssuesDistinct
  <1>4. ASSUME NEW u \in Tasks PROVE TaskInv(pc[u], req[u])'
    <2>1. req[u].revoked_at \in Nat
      BY DEF IInv, TypeOK
    <2>2. IssueInv(pc[u], req[u])' /\ QuestionInv(pc[u], req[u])'
      BY <1>1 DEF IInv, TaskInv, IssueInv, QuestionInv
    <2>3. RevocationInv(pc[u], req[u])'
      BY <1>1, <2>1 DEF IInv, TaskInv, RevocationInv
    <2> QED
      BY <2>2, <2>3 DEF TaskInv
  <1>5. ListInv'
    <2>1. \A i \in DOMAIN crl : crl[i].revoked_at \in Nat
      BY ListType DEF IInv
    <2> QED
      BY <1>1, <2>1 DEF IInv, ListInv
  <1>6. CrlMatchesStore' /\ CrlInOrder' /\ CrlFresh' /\ IssuedIndexed'
    BY <1>1 DEF IInv, CrlMatchesStore, CrlInOrder, CrlFresh, IssuedIndexed, InProgress
  <1>7. CrlAnswerComplete'
    BY <1>1 DEF CrlAnswerComplete, NoReply
  <1> QED
    BY <1>2, <1>3, <1>4, <1>5, <1>6, <1>7 DEF IInv

-----------------------------------------------------------------------------
\* A new certificate changes no other.
LEMMA IssueStoreStep == ASSUME IInv, NEW t \in Tasks, IssueStore(t) PROVE IInv'
  <1> DEFINE s == req[t].name
  <1>0. /\ pc[t] = "issue_store" /\ req[t] \in Requests
        /\ s \in used /\ s \notin DOMAIN certificates /\ req[t].key \in ApiKeys
        /\ pc' = [pc EXCEPT ![t] = "issue_index"] /\ reply' = NoReply
        /\ UNCHANGED <<fingerprint_index, crl, crl_last_update, used, now, req,
                       acked, dropped>>
    BY DEF IssueStore, At, Goto, IInv, TypeOK, Requests, TaskInv, IssueInv
  <1>1. /\ DOMAIN certificates' = DOMAIN certificates \cup {s}
        /\ certificates' = [x \in DOMAIN certificates' |-> certificates'[x]]
        /\ \A x \in DOMAIN certificates : certificates'[x] = certificates[x]
        /\ certificates'[s] = [key |-> req[t].key, expires_at |-> req[t].until,
                               status |-> "Valid", revoked_at |-> 0]
    BY <1>0 DEF IssueStore, Put
  <1>2. /\ pc'[t] = "issue_index"
        /\ \A u \in Tasks \ {t} : pc'[u] = pc[u]
        /\ OthersStay(t)
    BY <1>0 DEF IInv, TypeOK, OthersStay
  <1>3. TypeOK'
    <2>1. certificates'[s] \in Entry
      BY <1>0, <1>1 DEF Entry, Requests
    <2>2. \A x \in DOMAIN certificates' : certificates'[x] \in Entry
      BY <1>1, <2>1 DEF IInv, TypeOK
    <2>3. certificates' \in [DOMAIN certificates' -> Entry]
      BY <1>1, <2>2
    <2>4. DOMAIN certificates' \subseteq used
      BY <1>0, <1>1 DEF IInv, TypeOK
    <2>5. pc' \in [Tasks -> Points \cup {"idle"}]
      BY <1>0 DEF IInv, TypeOK, Points
    <2> QED
      BY <1>0, <2>3, <2>4, <2>5 DEF IInv, TypeOK
  <1>4. OneRevoking' /\ IssuesDistinct'
    BY <1>0, <1>2 DEF IInv, OneRevoking, IssuesDistinct, Revoking
  <1>5. ASSUME NEW u \in Tasks PROVE TaskInv(pc[u], req[u])'
    <2>0. TaskInv(pc[u], req[u])
      BY DEF IInv
    <2>1. IssueInv(pc[u], req[u])'
      <3>1. CASE u = t
        BY <1>0, <1>1, <1>2, <3>1 DEF IssueInv
      <3>2. CASE u # t /\ pc[u] = "issue_store"
        <4>1. req[u].name # s
          BY <1>0, <3>2 DEF IInv, IssuesDistinct
        <4> QED
          BY <1>0, <1>1, <1>2, <2>0, <3>2, <4>1 DEF TaskInv, IssueInv
      <3>3. CASE u # t /\ pc[u] # "issue_store"
        BY <1>0, <1>1, <1>2, <2>0, <3>3 DEF TaskInv, IssueInv
      <3> QED
        BY <3>1, <3>2, <3>3
    <2>2. RevocationInv(pc[u], req[u])'
      BY <1>0, <1>1, <1>2, <2>0 DEF TaskInv, RevocationInv, Revoking
    <2>3. QuestionInv(pc[u], req[u])'
      BY <1>0, <1>2, <2>0 DEF TaskInv, QuestionInv
    <2> QED
      BY <2>1, <2>2, <2>3 DEF TaskInv
  <1>6. ListInv' /\ CrlInOrder' /\ CrlFresh'
    BY <1>0 DEF IInv, ListInv, CrlInOrder, CrlFresh
  <1>7. CrlMatchesStore'
    <2>1. \A i \in DOMAIN crl : crl[i].serial \in DOMAIN certificates
      BY DEF IInv, CrlMatchesStore
    <2>2. ASSUME NEW x \in DOMAIN certificates', certificates'[x].status = "Revoked"
          PROVE  x \in ListedIn(crl) \cup InProgress("revoke_list")' \cup dropped
      <3>1. x \in DOMAIN certificates
        BY <1>1, <2>2
      <3>2. x \in ListedIn(crl) \cup InProgress("revoke_list") \cup dropped
        BY <1>1, <2>2, <3>1 DEF IInv, CrlMatchesStore
      <3> QED
        BY <1>0, <1>2, <3>2, OthersInProgress
    <2> QED
      BY <1>0, <1>1, <2>1, <2>2 DEF IInv, CrlMatchesStore
  <1>8. IssuedIndexed'
    <2>1. s \in InProgress("issue_index")'
      BY <1>0, <1>2 DEF InProgress
    <2>2. ASSUME NEW x \in DOMAIN certificates
          PROVE  \/ Hash("DER", x) \in DOMAIN fingerprint_index
                 \/ x \in InProgress("issue_index")' \cup dropped
      <3>1. \/ Hash("DER", x) \in DOMAIN fingerprint_index
            \/ x \in InProgress("issue_index") \cup dropped
        BY DEF IInv, IssuedIndexed
      <3> QED
        BY <1>0, <1>2, <3>1, OthersInProgress
    <2> QED
      BY <1>0, <1>1, <2>1, <2>2 DEF IInv, IssuedIndexed
  <1>9. CrlAnswerComplete'
    BY <1>0 DEF CrlAnswerComplete, NoReply
  <1> QED
    BY <1>3, <1>4, <1>5, <1>6, <1>7, <1>8, <1>9 DEF IInv

\* Its fingerprint enters the index, and the call is over.
LEMMA IssueIndexStep == ASSUME IInv, NEW t \in Tasks, IssueIndex(t) PROVE IInv'
  <1> DEFINE s == req[t].name
             f == Hash("DER", s)
  <1>0. /\ pc[t] = "issue_index" /\ s \in DOMAIN certificates /\ s \in Serials
        /\ pc' = [pc EXCEPT ![t] = "idle"] /\ req' = [req EXCEPT ![t] = NoReq]
        /\ reply'.call # "crl"
        /\ UNCHANGED <<certificates, crl, crl_last_update, used, now, acked, dropped>>
    BY DEF IssueIndex, At, Answer, NoReply, IInv, TypeOK, TaskInv, IssueInv
  <1>1. /\ DOMAIN fingerprint_index' = DOMAIN fingerprint_index \cup {f}
        /\ fingerprint_index' = [x \in DOMAIN fingerprint_index' |-> fingerprint_index'[x]]
        /\ \A x \in DOMAIN fingerprint_index :
              x # f => fingerprint_index'[x] = fingerprint_index[x]
        /\ fingerprint_index'[f] = s
    BY DEF IssueIndex, Put
  <1>2. pc'[t] = "idle" /\ OthersStay(t)
    BY <1>0 DEF IInv, TypeOK, OthersStay
  <1>3. TypeOK'
    <2>1. f \in {"DER"} \X Serials
      BY <1>0 DEF Hash
    <2> HIDE DEF f
    <2>2. DOMAIN fingerprint_index' \subseteq {"DER"} \X Serials
      BY <1>1, <2>1 DEF IInv, TypeOK
    <2>3. fingerprint_index' \in [DOMAIN fingerprint_index' -> Serials]
      BY <1>0, <1>1 DEF IInv, TypeOK
    <2>4. pc' \in [Tasks -> Points \cup {"idle"}] /\ req' \in [Tasks -> Requests]
      BY <1>0, NoReqType DEF IInv, TypeOK, Requests
    <2> QED
      BY <1>0, <2>2, <2>3, <2>4 DEF IInv, TypeOK, Requests
  <1>4. OneRevoking' /\ IssuesDistinct'
    BY <1>2 DEF IInv, OneRevoking, IssuesDistinct, Revoking, OthersStay
  <1>5. ASSUME NEW u \in Tasks PROVE TaskInv(pc[u], req[u])'
    <2>1. CASE u = t
      BY <1>2, <2>1 DEF TaskInv, IssueInv, RevocationInv, QuestionInv, Revoking
    <2>2. CASE u # t
      BY <1>0, <1>2, <2>2
         DEF IInv, TaskInv, IssueInv, RevocationInv, QuestionInv, OthersStay
    <2> QED
      BY <2>1, <2>2
  <1>6. ListInv' /\ CrlInOrder' /\ CrlFresh'
    BY <1>0 DEF IInv, ListInv, CrlInOrder, CrlFresh
  <1>7. CrlMatchesStore'
    <2>1. ASSUME NEW x \in InProgress("revoke_list") PROVE x \in InProgress("revoke_list")'
      BY <1>0, <1>2, OthersInProgress
    <2> QED
      BY <1>0, <2>1 DEF IInv, CrlMatchesStore
  <1>8. IssuedIndexed'
    <2>1. ASSUME NEW x \in DOMAIN certificates
          PROVE  \/ Hash("DER", x) \in DOMAIN fingerprint_index'
                 \/ x \in InProgress("issue_index")' \cup dropped
      <3>1. \/ Hash("DER", x) \in DOMAIN fingerprint_index
            \/ x \in InProgress("issue_index") \cup dropped
        BY DEF IInv, IssuedIndexed
      <3>2. CASE x = s
        BY <1>1, <3>2
      <3>3. CASE x # s
        BY <1>1, <1>2, <3>1, <3>3, OthersInProgress
      <3> QED
        BY <3>2, <3>3
    <2>2. ASSUME NEW x \in DOMAIN fingerprint_index'
          PROVE  /\ x = Hash("DER", fingerprint_index'[x])
                 /\ fingerprint_index'[x] \in DOMAIN certificates
      BY <1>0, <1>1 DEF IInv, IssuedIndexed
    <2> QED
      BY <1>0, <2>1, <2>2 DEF IssuedIndexed
  <1>9. CrlAnswerComplete'
    BY <1>0 DEF CrlAnswerComplete
  <1> QED
    BY <1>3, <1>4, <1>5, <1>6, <1>7, <1>8, <1>9 DEF IInv

-----------------------------------------------------------------------------
\* The certificate is marked; nobody else is at a revocation, and it is not listed.
LEMMA RevokeStoreStep == ASSUME IInv, NEW t \in Tasks, RevokeStore(t) PROVE IInv'
  <1> DEFINE s == req[t].name
  <1>0. /\ pc[t] = "revoke_store" /\ req[t] \in Requests /\ now \in Nat
        /\ UNCHANGED <<fingerprint_index, crl, crl_last_update, used, now, acked, dropped>>
    BY DEF RevokeStore, At, IInv, TypeOK, Requests
  <1>1. CASE s \notin DOMAIN certificates \/ certificates[s].status = "Revoked"
    <2>1. /\ UNCHANGED certificates
          /\ Refused(t, "not_found") \/ Refused(t, "already_revoked")
      BY <1>1 DEF RevokeStore
    <2>2. ASSUME NEW why, Refused(t, why) PROVE IInv'
      <3> DEFINE a == [NoReply EXCEPT !.call = "revoke", !.status = why, !.name = s]
      <3>1. Answer(t, a) /\ a.call # "crl"
        BY <2>2 DEF Refused, NoReply
      <3> HIDE DEF a
      <3> QED
        BY <1>0, <2>1, <3>1, AnswerStep DEF store
    <2> QED
      BY <2>1, <2>2
  <1>2. CASE s \in DOMAIN certificates /\ certificates[s].status # "Revoked"
    <2>0. /\ certificates' = [certificates EXCEPT ![s].status = "Revoked",
                                                  ![s].revoked_at = now]
          /\ req' = [req EXCEPT ![t].revoked_at = now]
          /\ pc' = [pc EXCEPT ![t] = "revoke_list"] /\ reply' = NoReply
      BY <1>2 DEF RevokeStore, Goto
    <2>1. /\ pc'[t] = "revoke_list" /\ req'[t] \in Requests
          /\ req'[t].name = s /\ req'[t].revoked_at = now
          /\ OthersStay(t)
      BY <1>0, <2>0 DEF IInv, TypeOK, Requests, OthersStay
    <2>2. /\ DOMAIN certificates' = DOMAIN certificates
          /\ certificates' \in [DOMAIN certificates -> Entry]
          /\ certificates'[s].status = "Revoked" /\ certificates'[s].revoked_at = now
          /\ \A x \in DOMAIN certificates : x # s => certificates'[x] = certificates[x]
      <3>1. certificates \in [DOMAIN certificates -> Entry] /\ certificates[s] \in Entry
        BY <1>2 DEF IInv, TypeOK
      <3> DEFINE x == [certificates[s] EXCEPT !.status = "Revoked", !.revoked_at = now]
      <3>2. x \in Entry /\ x.status = "Revoked" /\ x.revoked_at = now
        BY <1>0, <3>1 DEF Entry
      <3>3. certificates' = [certificates EXCEPT ![s] = x]
        BY <1>2, <2>0, <3>1
      <3> HIDE DEF x
      <3> QED
        BY <1>2, <3>1, <3>2, <3>3
    <2>3. \A u \in Tasks \ {t} : pc[u] \notin Revoking
      BY DEF RevokeStore, At, Holds, Acquires, Compatible, Write, Revoking
    <2>4. s \notin ListedIn(crl)
      BY <1>2 DEF IInv, CrlMatchesStore, ListedIn
    <2>5. \A i \in DOMAIN crl : crl[i].revoked_at <= now
      BY DEF IInv, ListInv
    <2>6. TypeOK'
      <3>1. pc' \in [Tasks -> Points \cup {"idle"}] /\ req' \in [Tasks -> Requests]
        BY <2>0, <2>1 DEF IInv, TypeOK, Points, OthersStay, Requests
      <3> QED
        BY <1>0, <2>2, <3>1 DEF IInv, TypeOK, Requests
    <2>7. OneRevoking'
      BY <2>1, <2>3 DEF OneRevoking, OthersStay
    <2>8. IssuesDistinct'
      BY <2>1 DEF IInv, IssuesDistinct, OthersStay
    <2>9. ASSUME NEW u \in Tasks PROVE TaskInv(pc[u], req[u])'
      <3>1. CASE u = t
        <4>1. RevocationInv(pc[u], req[u])'
          BY <1>0, <1>2, <2>1, <2>2, <2>4, <2>5, <3>1 DEF RevocationInv, ListedIn
        <4> QED
          BY <2>1, <3>1, <4>1 DEF TaskInv, IssueInv, QuestionInv
      <3>2. CASE u # t
        <4>1. TaskInv(pc[u], req[u]) /\ pc'[u] = pc[u] /\ req'[u] = req[u]
          BY <2>1, <3>2 DEF IInv, OthersStay
        <4>2. RevocationInv(pc[u], req[u])'
          BY <2>3, <3>2, <4>1 DEF RevocationInv
        <4>3. IssueInv(pc[u], req[u])' /\ QuestionInv(pc[u], req[u])'
          BY <1>0, <2>2, <4>1 DEF TaskInv, IssueInv, QuestionInv
        <4> QED
          BY <4>2, <4>3 DEF TaskInv
      <3> QED
        BY <3>1, <3>2
    <2>10. ListInv' /\ CrlInOrder' /\ CrlFresh'
      BY <1>0 DEF IInv, ListInv, CrlInOrder, CrlFresh
    <2>11. CrlMatchesStore'
      <3>1. \A i \in DOMAIN crl : crl[i].serial # s
        BY <2>4 DEF ListedIn
      <3>2. s \in InProgress("revoke_list")'
        BY <2>1 DEF InProgress
      <3>3. ASSUME NEW x \in InProgress("revoke_list") PROVE x \in InProgress("revoke_list")'
        BY <1>0, <2>1, OthersInProgress
      <3> QED
        BY <1>0, <2>2, <3>1, <3>2, <3>3 DEF IInv, CrlMatchesStore
    <2>12. IssuedIndexed'
      <3>1. ASSUME NEW x \in InProgress("issue_index") PROVE x \in InProgress("issue_index")'
        BY <1>0, <2>1, OthersInProgress
      <3> QED
        BY <1>0, <2>2, <3>1 DEF IInv, IssuedIndexed
    <2>13. CrlAnswerComplete'
      BY <2>0 DEF CrlAnswerComplete, NoReply
    <2> QED
      BY <2>6, <2>7, <2>8, <2>9, <2>10, <2>11, <2>12, <2>13 DEF IInv
  <1> QED
    BY <1>1, <1>2

\* The certificate enters the list, last and for the first time.
LEMMA RevokeListStep == ASSUME IInv, NEW t \in Tasks, RevokeList(t) PROVE IInv'
  <1> DEFINE s == req[t].name
             e == [serial |-> s, revoked_at |-> req[t].revoked_at]
             n == Len(crl)
  <1>0. /\ pc[t] = "revoke_list" /\ req[t].revoked_at \in Nat
        /\ RevocationInv("revoke_list", req[t])
        /\ pc' = [pc EXCEPT ![t] = "revoke_stamp"] /\ reply' = NoReply
        /\ UNCHANGED <<certificates, fingerprint_index, crl_last_update, used, now,
                       req, acked, dropped>>
    BY DEF RevokeList, At, Goto, IInv, TypeOK, TaskInv
  <1>1. /\ s \in DOMAIN certificates /\ s \in Serials
        /\ certificates[s].status = "Revoked"
        /\ certificates[s].revoked_at = req[t].revoked_at
        /\ req[t].revoked_at <= now
        /\ \A i \in DOMAIN crl : crl[i].revoked_at <= req[t].revoked_at
        /\ s \notin ListedIn(crl)
    BY <1>0 DEF RevocationInv, Revoking, IInv, TypeOK
  <1>2. n \in Nat /\ DOMAIN crl = 1..n
    BY ListType DEF IInv
  <1>3. /\ crl' \in Lists /\ DOMAIN crl' = 1..(n + 1)
        /\ \A i \in 1..n : crl'[i] = crl[i]
        /\ crl'[n + 1] = e
    <2> DEFINE Items == [serial : Serials, revoked_at : Nat]
    <2>1. e \in Items
      BY <1>0, <1>1
    <2>2. crl \in Seq(Items) /\ crl' = Append(crl, e)
      BY DEF RevokeList, IInv, TypeOK, Lists
    <2> HIDE DEF Items, e
    <2>3. /\ crl' \in Seq(Items) /\ DOMAIN crl' = 1..(n + 1)
          /\ \A i \in 1..n : crl'[i] = crl[i]
          /\ crl'[n + 1] = e
      BY <1>2, <2>1, <2>2
    <2> QED
      BY <2>3 DEF Lists, Items
  <1>a. e.serial = s /\ e.revoked_at = req[t].revoked_at
    OBVIOUS
  <1> HIDE DEF e, n
  <1>4. ListedIn(crl)' = ListedIn(crl) \cup {s}
    BY <1>2, <1>3, <1>a DEF ListedIn
  <1>5. /\ pc'[t] = "revoke_stamp" /\ \A u \in Tasks \ {t} : pc'[u] = pc[u]
        /\ OthersStay(t)
    BY <1>0 DEF IInv, TypeOK, OthersStay
  <1>b. \A u \in Tasks \ {t} : pc[u] \notin Revoking
    BY <1>0 DEF IInv, OneRevoking, Revoking
  <1>6. TypeOK'
    <2>1. pc' \in [Tasks -> Points \cup {"idle"}]
      BY <1>0 DEF IInv, TypeOK, Points
    <2> QED
      BY <1>0, <1>3, <2>1 DEF IInv, TypeOK
  <1>7. OneRevoking' /\ IssuesDistinct'
    BY <1>0, <1>5, <1>b DEF IInv, OneRevoking, IssuesDistinct
  <1>8. ASSUME NEW u \in Tasks PROVE TaskInv(pc[u], req[u])'
    <2>1. CASE u = t
      <3>1. RevocationInv(pc[u], req[u])'
        <4>1. \A i \in DOMAIN crl' : crl'[i].revoked_at <= req[t].revoked_at
          <5>1. ASSUME NEW i \in 1..(n + 1), i # n + 1 PROVE i \in 1..n
            BY <1>2, <5>1
          <5> QED
            BY <1>0, <1>1, <1>2, <1>3, <1>a, <5>1
        <4> QED
          BY <1>0, <1>1, <1>4, <1>5, <2>1, <4>1 DEF RevocationInv
      <3> QED
        BY <1>5, <2>1, <3>1 DEF TaskInv, IssueInv, QuestionInv
    <2>2. CASE u # t
      <3>1. TaskInv(pc[u], req[u]) /\ pc'[u] = pc[u] /\ pc[u] \notin Revoking
        BY <1>5, <1>b, <2>2 DEF IInv
      <3>2. RevocationInv(pc[u], req[u])'
        BY <3>1 DEF RevocationInv
      <3>3. IssueInv(pc[u], req[u])' /\ QuestionInv(pc[u], req[u])'
        BY <1>0, <3>1 DEF TaskInv, IssueInv, QuestionInv
      <3> QED
        BY <3>2, <3>3 DEF TaskInv
    <2> QED
      BY <2>1, <2>2
  <1>c. \A i \in DOMAIN crl' : i \in DOMAIN crl \/ i = n + 1
    BY <1>2, <1>3
  <1>9. ListInv'
    BY <1>0, <1>1, <1>2, <1>3, <1>4, <1>a, <1>c DEF IInv, ListInv
  <1>10. CrlInOrder'
    <2> SUFFICES ASSUME NEW i \in DOMAIN crl', NEW j \in DOMAIN crl', i < j
                 PROVE  /\ crl'[i].serial # crl'[j].serial
                        /\ crl'[i].revoked_at <= crl'[j].revoked_at
      BY DEF CrlInOrder
    <2>1. i \in DOMAIN crl
      BY <1>2, <1>3
    <2>2. CASE j \in DOMAIN crl
      BY <1>2, <1>3, <2>1, <2>2 DEF IInv, CrlInOrder
    <2>3. CASE j = n + 1
      BY <1>1, <1>2, <1>3, <1>a, <2>1, <2>3 DEF ListedIn
    <2> QED
      BY <1>c, <2>2, <2>3
  <1>11. CrlFresh'
    <2>1. s \notin acked
      BY <1>1 DEF IInv, ListInv
    <2> QED
      BY <1>0, <1>2, <1>3, <1>a, <1>c, <2>1 DEF IInv, CrlFresh
  <1>12. CrlMatchesStore'
    <2>1. ASSUME NEW x \in ListedIn(crl) \cup InProgress("revoke_list") \cup dropped
          PROVE  x \in ListedIn(crl)' \cup InProgress("revoke_list")' \cup dropped
      <3>1. CASE x = s
        BY <1>4, <3>1
      <3>2. CASE x # s
        BY <1>4, <1>5, <2>1, <3>2, OthersInProgress
      <3> QED
        BY <3>1, <3>2
    <2>2. ASSUME NEW i \in DOMAIN crl'
          PROVE  /\ crl'[i].serial \in DOMAIN certificates
                 /\ certificates[crl'[i].serial].status = "Revoked"
                 /\ certificates[crl'[i].serial].revoked_at = crl'[i].revoked_at
      <3>1. CASE i \in DOMAIN crl
        BY <1>2, <1>3, <3>1 DEF IInv, CrlMatchesStore
      <3>2. CASE i = n + 1
        BY <1>1, <1>3, <1>a, <3>2
      <3> QED
        BY <1>c, <3>1, <3>2
    <2> QED
      BY <1>0, <2>1, <2>2 DEF IInv, CrlMatchesStore
  <1>13. IssuedIndexed'
    <2>1. ASSUME NEW x \in InProgress("issue_index") PROVE x \in InProgress("issue_index")'
      BY <1>0, <1>5, OthersInProgress
    <2> QED
      BY <1>0, <2>1 DEF IInv, IssuedIndexed
  <1>14. CrlAnswerComplete'
    BY <1>0 DEF CrlAnswerComplete, NoReply
  <1> QED
    BY <1>6, <1>7, <1>8, <1>9, <1>10, <1>11, <1>12, <1>13, <1>14 DEF IInv

\* The time of the list catches up with everything on it, and the call is over.
LEMMA RevokeStampStep == ASSUME IInv, NEW t \in Tasks, RevokeStamp(t) PROVE IInv'
  <1> DEFINE s == req[t].name
  <1>0. /\ pc[t] = "revoke_stamp" /\ req[t].revoked_at \in Nat
        /\ RevocationInv("revoke_stamp", req[t])
        /\ crl_last_update' = req[t].revoked_at
        /\ acked' = acked \cup {s}
        /\ pc' = [pc EXCEPT ![t] = "idle"] /\ req' = [req EXCEPT ![t] = NoReq]
        /\ reply'.call # "crl"
        /\ UNCHANGED <<certificates, fingerprint_index, crl, used, now, dropped>>
    BY DEF RevokeStamp, At, Answer, NoReply, IInv, TypeOK, TaskInv
  <1>1. /\ s \in DOMAIN certificates /\ s \in Serials
        /\ \A i \in DOMAIN crl : crl[i].revoked_at <= req[t].revoked_at
        /\ s \in ListedIn(crl)
    BY <1>0 DEF RevocationInv, Revoking, IInv, TypeOK
  <1>2. pc'[t] = "idle" /\ OthersStay(t)
    BY <1>0 DEF IInv, TypeOK, OthersStay
  <1>3. TypeOK'
    <2>1. pc' \in [Tasks -> Points \cup {"idle"}] /\ req' \in [Tasks -> Requests]
      BY <1>0, NoReqType DEF IInv, TypeOK, Requests
    <2>2. acked' \subseteq Serials
      BY <1>0, <1>1 DEF IInv, TypeOK
    <2> QED
      BY <1>0, <2>1, <2>2 DEF IInv, TypeOK, Requests
  <1>4. OneRevoking' /\ IssuesDistinct'
    BY <1>2 DEF IInv, OneRevoking, IssuesDistinct, Revoking, OthersStay
  <1>5. ASSUME NEW u \in Tasks PROVE TaskInv(pc[u], req[u])'
    <2>1. CASE u = t
      BY <1>2, <2>1 DEF TaskInv, IssueInv, RevocationInv, QuestionInv, Revoking
    <2>2. CASE u # t
      BY <1>0, <1>2, <2>2
         DEF IInv, TaskInv, IssueInv, RevocationInv, QuestionInv, OthersStay
    <2> QED
      BY <2>1, <2>2
  <1>6. ListInv' /\ CrlInOrder'
    BY <1>0, <1>1 DEF IInv, ListInv, CrlInOrder
  <1>7. CrlFresh'
    BY <1>0, <1>1 DEF CrlFresh
  <1>8. CrlMatchesStore'
    <2>1. ASSUME NEW x \in InProgress("revoke_list") PROVE x \in InProgress("revoke_list")'
      BY <1>0, <1>2, OthersInProgress
    <2> QED
      BY <1>0, <2>1 DEF IInv, CrlMatchesStore
  <1>9. IssuedIndexed'
    <2>1. ASSUME NEW x \in InProgress("issue_index") PROVE x \in InProgress("issue_index")'
      BY <1>0, <1>2, OthersInProgress
    <2> QED
      BY <1>0, <2>1 DEF IInv, IssuedIndexed
  <1>10. CrlAnswerComplete'
    BY <1>0 DEF CrlAnswerComplete
  <1> QED
    BY <1>3, <1>4, <1>5, <1>6, <1>7, <1>8, <1>9, <1>10 DEF IInv

-----------------------------------------------------------------------------
\* Every step, and every stutter, keeps the invariant.
LEMMA StepInv == IInv /\ [Next]_vars => IInv'
  <1> SUFFICES ASSUME IInv, [Next]_vars PROVE IInv'
    OBVIOUS
  <1>1. ASSUME NEW t \in Tasks, Start(t) PROVE IInv'
    BY <1>1, StartStep
  <1>2. ASSUME NEW t \in Tasks, Proceed(t) PROVE IInv'
    BY <1>2, IssueStoreStep, IssueIndexStep, FindIndexStep, GetStep, RevokeStoreStep,
       RevokeListStep, RevokeStampStep, ReadCrlStep DEF Proceed
  <1>3. ASSUME NEW t \in Tasks, Cancel(t) PROVE IInv'
    BY <1>3, CancelStep
  <1>4. CASE Tick
    BY <1>4, TickStep
  <1>6. ASSUME NEW t \in Tasks, IssueFails(t) PROVE IInv'
    BY <1>6, FailureStep
  <1>5. CASE UNCHANGED vars
    <2>1. TypeOK' /\ OneRevoking' /\ IssuesDistinct'
      BY <1>5 DEF vars, IInv, TypeOK, OneRevoking, IssuesDistinct
    <2>2. \A u \in Tasks : TaskInv(pc[u], req[u])'
      BY <1>5 DEF vars, IInv, TaskInv, IssueInv, RevocationInv, QuestionInv
    <2>3. ListInv' /\ CrlMatchesStore' /\ CrlInOrder' /\ CrlFresh'
      BY <1>5 DEF vars, IInv, ListInv, CrlMatchesStore, CrlInOrder, CrlFresh, InProgress
    <2>4. IssuedIndexed' /\ CrlAnswerComplete'
      BY <1>5 DEF vars, IInv, IssuedIndexed, CrlAnswerComplete, InProgress
    <2> QED
      BY <2>1, <2>2, <2>3, <2>4 DEF IInv
  <1> QED
    BY <1>1, <1>2, <1>3, <1>4, <1>5, <1>6 DEF Next

\* The inductive invariant holds in every reachable state.
LEMMA Invariance == Spec => []IInv
  BY InitInv, StepInv, PTL DEF Spec

\* A certificate stays in the store, keeps its expiry and is never revived, while the
\* clock moves forward.
LEMMA CertificateKept ==
    ASSUME IInv, Next, NEW s \in DOMAIN certificates
    PROVE  /\ s \in DOMAIN certificates'
           /\ certificates'[s].expires_at = certificates[s].expires_at
           /\ certificates[s].status = "Revoked" => certificates'[s].status = "Revoked"
           /\ now' \in {now, now + 1}
  <1>1. CASE UNCHANGED certificates /\ now' \in {now, now + 1}
    BY <1>1
  <1>2. ASSUME NEW t \in Tasks, Start(t) \/ IssueFails(t) \/ Cancel(t)
        PROVE  UNCHANGED <<certificates, now>>
    BY <1>2 DEF Start, IssueFails, BeginIssue, BeginRenew, BeginLookup, BeginRevoke, BeginCrl, Begin,
                Cancel, store
  <1>3. CASE Tick
    BY <1>1, <1>3 DEF Tick, store
  <1>4. ASSUME NEW t \in Tasks, IssueStore(t) PROVE now' = now
    BY <1>4 DEF IssueStore
  <1>5. ASSUME NEW t \in Tasks, IssueStore(t)
        PROVE  s \in DOMAIN certificates' /\ certificates'[s] = certificates[s]
    <2>1. req[t].name \notin DOMAIN certificates
      BY <1>5 DEF IssueStore, At, IInv, TaskInv, IssueInv
    <2> QED
      BY <1>5, <2>1 DEF IssueStore, Put
  <1>6. ASSUME NEW t \in Tasks, RevokeStore(t)
        PROVE  /\ s \in DOMAIN certificates' /\ now' = now
               /\ certificates'[s].expires_at = certificates[s].expires_at
               /\ certificates[s].status = "Revoked" => certificates'[s].status = "Revoked"
    <2>0. now' = now
      BY <1>6 DEF RevokeStore
    <2>1. CASE UNCHANGED certificates
      BY <2>0, <2>1
    <2>2. CASE certificates' = [certificates EXCEPT ![req[t].name].status = "Revoked",
                                                    ![req[t].name].revoked_at = now]
      <3>1. certificates \in [DOMAIN certificates -> Entry]
        BY DEF IInv, TypeOK
      <3>2. certificates[s] \in Entry
        BY <3>1
      <3>3. CASE s # req[t].name
        BY <2>0, <2>2, <3>1, <3>3
      <3>4. CASE s = req[t].name
        <4>1. certificates'[s] = [certificates[s] EXCEPT !.status = "Revoked",
                                                         !.revoked_at = now]
          BY <2>2, <3>1, <3>4
        <4> QED
          BY <2>0, <2>2, <3>1, <3>2, <4>1 DEF Entry
      <3> QED
        BY <3>3, <3>4
    <2> QED
      BY <1>6, <2>1, <2>2 DEF RevokeStore
  <1>7. ASSUME NEW t \in Tasks, RevokeList(t) \/ RevokeStamp(t) \/ IssueIndex(t)
        PROVE  UNCHANGED <<certificates, now>>
    BY <1>7 DEF RevokeList, RevokeStamp, IssueIndex
  <1>8. ASSUME NEW t \in Tasks, FindIndex(t) \/ Get(t) \/ ReadList(t) \/ ReadStamp(t)
        PROVE  UNCHANGED <<certificates, now>>
    BY <1>8 DEF FindIndex, Get, ReadList, ReadStamp, store
  <1> QED
    BY <1>1, <1>2, <1>3, <1>4, <1>5, <1>6, <1>7, <1>8 DEF Next, Proceed

-----------------------------------------------------------------------------
\* The store, the index, the list and the handlers' locals keep their types.
THEOREM TypeCorrect == Spec => []TypeOK
  BY Invariance, PTL DEF IInv

\* The list and the store agree, but for a revocation that is under way or dropped.
THEOREM ListMatchesStore == Spec => []CrlMatchesStore
  BY Invariance, PTL DEF IInv

\* Revocations enter the list once each and in the order of their times.
THEOREM ListInOrder == Spec => []CrlInOrder
  BY Invariance, PTL DEF IInv

\* The time of the list covers every revocation that was confirmed.
THEOREM ListFresh == Spec => []CrlFresh
  BY Invariance, PTL DEF IInv

\* A client that asks for the list is given every revocation confirmed before.
THEOREM ListComplete == Spec => []CrlAnswerComplete
  BY Invariance, PTL DEF IInv

\* The index has every certificate that was handed out, and no other.
THEOREM IndexComplete == Spec => []IssuedIndexed
  BY Invariance, PTL DEF IInv

\* What a client was told of a certificate is never taken back.
THEOREM StatusesMoveForward == Spec => StatusForward
  <1> DEFINE Forward == \A s \in DOMAIN certificates :
                s \in DOMAIN certificates' /\ StatusRank(s) <= StatusRank(s)'
  <1>1. ASSUME IInv, [Next]_vars PROVE [Forward]_vars
    <2> SUFFICES ASSUME Next, NEW s \in DOMAIN certificates
                 PROVE  s \in DOMAIN certificates' /\ StatusRank(s) <= StatusRank(s)'
      BY <1>1
    <2>1. /\ s \in DOMAIN certificates'
          /\ certificates'[s].expires_at = certificates[s].expires_at
          /\ certificates[s].status = "Revoked" => certificates'[s].status = "Revoked"
          /\ now' \in {now, now + 1}
      BY <1>1, CertificateKept
    <2>2. certificates[s].expires_at \in Nat /\ now \in Nat
      BY <1>1 DEF IInv, TypeOK, Entry
    <2> QED
      BY <2>1, <2>2 DEF StatusRank, status_of
  <1> QED
    BY <1>1, Invariance, PTL DEF Spec, StatusForward

-----------------------------------------------------------------------------
(* The service implements the revocation ledger.  Beyond IInv the steps need to know *)
(* that a revocation which writes the list's time is still the last of the list, and *)
(* that what get_crl holds between its two locks is the beginning of the list.       *)
LedgerTask(p, r) ==
    /\ p \in {"get", "revoke_store"} => r.name \in Asked
    /\ p = "find_index" => r.call = "renew"
    /\ p = "get" => r.call \in {"renew", "status", "ocsp"}
    /\ p = "revoke_stamp" =>
          /\ crl # <<>>
          /\ crl[Len(crl)].serial = r.name
          /\ r.name \notin acked
    /\ p = "list_stamp" =>
          /\ r.known \subseteq acked
          /\ Len(r.listed) \in 0..Len(crl)
          /\ r.listed = SubSeq(crl, 1, Len(r.listed))

LedgerInv == \A u \in Tasks : LedgerTask(pc[u], req[u])

\* A list stays what it begins with when an entry is appended, and begins with itself.
LEMMA Beginnings ==
    ASSUME NEW S, NEW l \in Seq(S), NEW e \in S
    PROVE  /\ l = SubSeq(l, 1, Len(l)) /\ Len(l) \in 0..Len(l)
           /\ \A n \in 0..Len(l) : SubSeq(Append(l, e), 1, n) = SubSeq(l, 1, n)
           /\ Len(Append(l, e)) = Len(l) + 1 /\ Append(l, e)[Len(l) + 1] = e
  OBVIOUS

\* A step that leaves the list and the confirmations alone keeps LedgerInv if its own
\* call does.
LEMMA LedgerKept ==
    ASSUME NEW t \in Tasks, OthersStay(t), LedgerInv, UNCHANGED <<crl, acked>>,
           LedgerTask(pc[t], req[t])'
    PROVE  LedgerInv'
  <1> SUFFICES ASSUME NEW u \in Tasks PROVE LedgerTask(pc[u], req[u])'
    BY DEF LedgerInv
  <1>1. CASE u # t
    BY <1>1 DEF OthersStay, LedgerInv, LedgerTask
  <1> QED
    BY <1>1

\* A step that sends one call to p with r leaves the others where they are.
LEMMA GoesTo ==
    ASSUME TypeOK, NEW t \in Tasks, NEW p, NEW r,
           pc' = [pc EXCEPT ![t] = p], req' = [req EXCEPT ![t] = r]
    PROVE  OthersStay(t) /\ pc'[t] = p /\ req'[t] = r
  BY DEF TypeOK, OthersStay

\* The five ways a call begins: a question is about a serial number or a hash.
LEMMA LedgerStart ==
    ASSUME IInv, LedgerInv, NEW t \in Tasks, Start(t) PROVE LedgerInv'
  <1>0. TypeOK /\ UNCHANGED <<crl, acked>>
    BY DEF IInv, Start, BeginIssue, BeginRenew, BeginLookup, BeginRevoke, BeginCrl, Begin, store
  <1>1. ASSUME NEW p \in {"issue_store", "find_index", "list", "get", "revoke_store"},
               NEW r, Begin(t, p, r), p \in {"get", "revoke_store"} => r.name \in Asked,
               p = "find_index" => r.call = "renew",
               p = "get" => r.call \in {"renew", "status", "ocsp"}
        PROVE  LedgerInv'
    <2>1. pc' = [pc EXCEPT ![t] = p] /\ req' = [req EXCEPT ![t] = r]
      BY <1>1 DEF Begin, Goto
    <2>2. OthersStay(t) /\ pc'[t] = p /\ req'[t] = r
      BY <1>0, <2>1, GoesTo
    <2>3. LedgerTask(pc[t], req[t])'
      BY <1>1, <2>2 DEF LedgerTask
    <2> QED
      BY <1>0, <2>2, <2>3, LedgerKept
  <1>2. CASE BeginIssue(t)
    <2>1. PICK r : Begin(t, "issue_store", r)
      BY <1>2 DEF BeginIssue
    <2> QED
      BY <1>1, <2>1
  <1>3. CASE BeginRenew(t)
    <2>1. \A n, k, d : [NoReq EXCEPT !.call = "renew", !.name = n, !.key = k,
                                     !.days = d].call = "renew"
      BY DEF NoReq
    <2>2. PICK n, k, d : Begin(t, "find_index", [NoReq EXCEPT !.call = "renew", !.name = n,
                                                              !.key = k, !.days = d])
      BY <1>3 DEF BeginRenew
    <2> QED
      BY <1>1, <2>1, <2>2
  <1>4. CASE BeginCrl(t)
    <2>1. PICK r : Begin(t, "list", r)
      BY <1>4 DEF BeginCrl
    <2> QED
      BY <1>1, <2>1
  <1>a. ASSUME NEW n \in Asked, NEW c
        PROVE  /\ [NoReq EXCEPT !.call = c, !.name = n].name \in Asked
               /\ [NoReq EXCEPT !.call = c, !.name = n].call = c
    BY DEF NoReq
  <1>5. CASE BeginRevoke(t)
    <2>1. PICK s \in Serials :
             Begin(t, "revoke_store", [NoReq EXCEPT !.call = "revoke", !.name = s])
      BY <1>5 DEF BeginRevoke
    <2>2. s \in Asked
      BY Zenon DEF Asked
    <2> QED
      BY <1>1, <1>a, <2>1, <2>2
  <1>6. CASE BeginLookup(t)
    <2>1. \A s \in Serials : s \in Asked /\ Hash("DER", s) \in Asked
      <3>1. \A s \in Serials : Hash("DER", s) \in {"DER", "PEM"} \X Serials
        BY DEF Hash
      <3> QED
        BY <3>1, Zenon DEF Asked
    <2>2. used \subseteq Serials
      BY DEF IInv, TypeOK
    <2>3. PICK n \in Asked, c \in {"status", "ocsp"} :
             Begin(t, "get", [NoReq EXCEPT !.call = c, !.name = n])
      <3>1. ASSUME NEW s \in Serials, NEW c \in {"status", "ocsp"},
                   Begin(t, "get", [NoReq EXCEPT !.call = c, !.name = s])
            PROVE  \E n \in Asked, d \in {"status", "ocsp"} :
                      Begin(t, "get", [NoReq EXCEPT !.call = d, !.name = n])
        BY <2>1, <3>1
      <3>2. ASSUME NEW s \in used,
                   Begin(t, "get", [NoReq EXCEPT !.call = "status", !.name = Hash("DER", s)])
            PROVE  \E n \in Asked, d \in {"status", "ocsp"} :
                      Begin(t, "get", [NoReq EXCEPT !.call = d, !.name = n])
        BY <2>1, <2>2, <3>2
      <3> QED
        BY <1>6, <3>1, <3>2 DEF BeginLookup
    <2> DEFINE r == [NoReq EXCEPT !.call = c, !.name = n]
    <2>4. r.name \in Asked /\ r.call \in {"renew", "status", "ocsp"}
      BY <1>a
    <2>5. Begin(t, "get", r)
      BY <2>3
    <2> HIDE DEF r
    <2> QED
      BY <1>1, <2>4, <2>5
  <1> QED
    BY <1>2, <1>3, <1>4, <1>5, <1>6 DEF Start

\* Issues, lookups, disconnects and the decision of a revocation say nothing of the list.
LEMMA LedgerAside ==
    ASSUME IInv, LedgerInv, NEW t \in Tasks,
           \/ IssueStore(t) \/ IssueIndex(t) \/ FindIndex(t) \/ Get(t)
           \/ RevokeStore(t) \/ ReadStamp(t) \/ Cancel(t)
    PROVE  LedgerInv'
  <1>0. TypeOK /\ UNCHANGED <<crl, acked>>
    BY DEF IInv, IssueStore, IssueIndex, FindIndex, Get, RevokeStore, ReadStamp, Cancel, store
  <1>1. ASSUME NEW p \in {"idle", "issue_store", "issue_index", "revoke_list"}, NEW r,
               pc' = [pc EXCEPT ![t] = p], req' = [req EXCEPT ![t] = r]
        PROVE  LedgerInv'
    <2>1. OthersStay(t) /\ pc'[t] = p /\ req'[t] = r
      BY <1>0, <1>1, GoesTo
    <2>2. LedgerTask(pc[t], req[t])'
      BY <2>1 DEF LedgerTask
    <2> QED
      BY <1>0, <2>1, <2>2, LedgerKept
  <1>2. ASSUME NEW a, Answer(t, a) PROVE LedgerInv'
    BY <1>1, <1>2 DEF Answer
  <1>3. req' = req => req' = [req EXCEPT ![t] = req[t]]
    BY <1>0 DEF TypeOK
  <1>4. CASE IssueStore(t)
    BY <1>1, <1>3, <1>4 DEF IssueStore, Goto
  <1>5. CASE IssueIndex(t) \/ ReadStamp(t) \/ Cancel(t)
    BY <1>2, <1>5 DEF IssueIndex, ReadStamp, Cancel
  <1>6. CASE FindIndex(t)
    <2>1. CASE req[t].name \notin DOMAIN fingerprint_index
      BY <1>2, <1>6, <2>1 DEF FindIndex
    <2>2. CASE req[t].name \in DOMAIN fingerprint_index
      <3> DEFINE s == fingerprint_index[req[t].name]
      <3>1. s \in Serials
        BY <1>0, <2>2 DEF TypeOK
      <3>2. s \in Asked
        BY <3>1, Zenon DEF Asked
      <3>3. pc' = [pc EXCEPT ![t] = "get"] /\ req' = [req EXCEPT ![t].name = s]
        BY <1>6, <2>2 DEF FindIndex, Goto
      <3>0. req \in [Tasks -> Requests] /\ req[t].call = "renew"
        BY <1>6 DEF FindIndex, At, IInv, TypeOK, Requests, LedgerInv, LedgerTask
      <3>4. OthersStay(t) /\ pc'[t] = "get" /\ req'[t].name = s /\ req'[t].call = "renew"
        BY <1>0, <3>0, <3>3 DEF TypeOK, OthersStay, Requests
      <3>5. LedgerTask(pc[t], req[t])'
        BY <3>2, <3>4 DEF LedgerTask
      <3> QED
        BY <1>0, <3>4, <3>5, LedgerKept
    <2> QED
      BY <2>1, <2>2
  <1>7. CASE Get(t)
    <2>1. \/ \E a : Answer(t, a)
          \/ \E s, d : /\ pc' = [pc EXCEPT ![t] = "issue_store"]
                       /\ req' = [req EXCEPT ![t].name = s, ![t].until = d]
      BY <1>7 DEF Get, RenewChecked, Goto
    <2>2. ASSUME NEW s, NEW d, pc' = [pc EXCEPT ![t] = "issue_store"],
                 req' = [req EXCEPT ![t].name = s, ![t].until = d]
          PROVE  \E r : req' = [req EXCEPT ![t] = r]
      BY <1>0, <2>2 DEF TypeOK
    <2> QED
      BY <1>1, <1>2, <2>1, <2>2
  <1>8. CASE RevokeStore(t)
    <2>1. \/ \E a : Answer(t, a)
          \/ /\ pc' = [pc EXCEPT ![t] = "revoke_list"]
             /\ req' = [req EXCEPT ![t].revoked_at = now]
      BY <1>8 DEF RevokeStore, Refused, Goto
    <2>2. req' = [req EXCEPT ![t].revoked_at = now] => \E r : req' = [req EXCEPT ![t] = r]
      BY <1>0 DEF TypeOK
    <2> QED
      BY <1>1, <1>2, <2>1, <2>2
  <1> QED
    BY <1>4, <1>5, <1>6, <1>7, <1>8

\* What get_crl takes along from the list's lock is the list itself.
LEMMA LedgerRead == ASSUME IInv, LedgerInv, NEW t \in Tasks, ReadList(t) PROVE LedgerInv'
  <1>0. /\ TypeOK /\ UNCHANGED <<crl, acked>> /\ pc[t] = "list" /\ req \in [Tasks -> Requests]
        /\ req[t].known \subseteq acked
    BY DEF IInv, TaskInv, QuestionInv, TypeOK, Requests, ReadList, At, store
  <1>1. /\ pc' = [pc EXCEPT ![t] = "list_stamp"] /\ req' = [req EXCEPT ![t].listed = crl]
    BY DEF ReadList, Goto
  <1>2. /\ OthersStay(t) /\ pc'[t] = "list_stamp"
        /\ req'[t].known = req[t].known /\ req'[t].listed = crl
    BY <1>0, <1>1 DEF TypeOK, OthersStay, Requests
  <1>3. crl = SubSeq(crl, 1, Len(crl)) /\ Len(crl) \in 0..Len(crl)
    BY <1>0 DEF TypeOK, Lists
  <1>4. LedgerTask(pc[t], req[t])'
    BY <1>0, <1>2, <1>3 DEF LedgerTask
  <1> QED
    BY <1>0, <1>2, <1>4, LedgerKept

\* A revocation enters the list, as its last; no other is about to write its time.
LEMMA LedgerPublish == ASSUME IInv, LedgerInv, NEW t \in Tasks, RevokeList(t) PROVE LedgerInv'
  <1> DEFINE Items == [serial : Serials, revoked_at : Nat]
             e == [serial |-> req[t].name, revoked_at |-> req[t].revoked_at]
  <1>0. /\ TypeOK /\ UNCHANGED acked /\ pc[t] = "revoke_list"
        /\ RevocationInv(pc[t], req[t])
        /\ acked \subseteq ListedIn(crl)
        /\ \A u \in Tasks \ {t} : pc[u] # "revoke_stamp"
    BY DEF IInv, TaskInv, ListInv, OneRevoking, Revoking, RevokeList, At
  <1>1. /\ pc' = [pc EXCEPT ![t] = "revoke_stamp"] /\ req' = req /\ crl' = Append(crl, e)
    BY DEF RevokeList, Goto
  <1>2. OthersStay(t) /\ pc'[t] = "revoke_stamp" /\ req'[t] = req[t]
    BY <1>0, <1>1 DEF TypeOK, OthersStay
  <1>3. req[t].name \in Serials /\ req[t].revoked_at \in Nat
    BY <1>0 DEF TypeOK, RevocationInv, Revoking
  <1>4. e \in Items /\ e.serial = req[t].name
    BY <1>3
  <1>5. crl \in Seq(Items)
    BY <1>0 DEF TypeOK, Lists
  <1> HIDE DEF Items, e
  <1>6. /\ Len(crl) \in Nat
        /\ \A n \in 0..Len(crl) : SubSeq(crl', 1, n) = SubSeq(crl, 1, n)
        /\ Len(crl') = Len(crl) + 1 /\ crl'[Len(crl) + 1] = e /\ crl' # <<>>
    BY <1>1, <1>4, <1>5, Beginnings
  <1> SUFFICES ASSUME NEW u \in Tasks PROVE LedgerTask(pc[u], req[u])'
    BY DEF LedgerInv
  <1>7. CASE u = t
    <2>1. req[t].name \notin acked
      BY <1>0 DEF RevocationInv, Revoking
    <2> QED
      BY <1>0, <1>2, <1>4, <1>6, <1>7, <2>1 DEF LedgerTask
  <1>8. CASE u # t
    <2>1. LedgerTask(pc[u], req[u]) /\ pc'[u] = pc[u] /\ req'[u] = req[u]
      BY <1>2, <1>8 DEF LedgerInv, OthersStay
    <2> QED
      BY <1>0, <1>6, <1>8, <2>1 DEF LedgerTask
  <1> QED
    BY <1>7, <1>8

\* A revocation is confirmed; no other is about to be.
LEMMA LedgerConfirm == ASSUME IInv, LedgerInv, NEW t \in Tasks, RevokeStamp(t) PROVE LedgerInv'
  <1>0. /\ TypeOK /\ UNCHANGED crl /\ acked \subseteq acked'
        /\ \A u \in Tasks \ {t} : pc[u] # "revoke_stamp"
    BY DEF IInv, OneRevoking, Revoking, RevokeStamp, At
  <1>1. /\ pc' = [pc EXCEPT ![t] = "idle"] /\ req' = [req EXCEPT ![t] = NoReq]
    BY DEF RevokeStamp, Answer
  <1>2. OthersStay(t) /\ pc'[t] = "idle"
    BY <1>0, <1>1, GoesTo
  <1> SUFFICES ASSUME NEW u \in Tasks PROVE LedgerTask(pc[u], req[u])'
    BY DEF LedgerInv
  <1>3. CASE u = t
    BY <1>2, <1>3 DEF LedgerTask
  <1>4. CASE u # t
    <2>1. LedgerTask(pc[u], req[u]) /\ pc'[u] = pc[u] /\ req'[u] = req[u] /\ pc[u] # "revoke_stamp"
      BY <1>0, <1>2, <1>4 DEF LedgerInv, OthersStay
    <2> QED
      BY <1>0, <2>1 DEF LedgerTask
  <1> QED
    BY <1>3, <1>4

LEMMA LedgerInvariance == Spec => []LedgerInv
  <1>1. Init => LedgerInv
    BY DEF Init, LedgerInv, LedgerTask
  <1>2. ASSUME IInv, LedgerInv, [Next]_vars PROVE LedgerInv'
    <2>1. CASE Tick \/ UNCHANGED vars
      BY <1>2, <2>1 DEF Tick, vars, store, LedgerInv, LedgerTask
    <2>2. ASSUME NEW t \in Tasks, IssueFails(t) PROVE LedgerInv'
      BY <1>2, <2>2 DEF IssueFails, store, LedgerInv, LedgerTask
    <2> QED
      BY <1>2, <2>1, <2>2, LedgerStart, LedgerAside, LedgerRead, LedgerPublish, LedgerConfirm
         DEF Next, Proceed
  <1> QED
    BY <1>1, <1>2, Invariance, PTL DEF Spec

-----------------------------------------------------------------------------
\* Only the certificates decide what is issued and what is revoked, and when.
LEMMA SameCertificates ==
    ASSUME UNCHANGED certificates PROVE UNCHANGED <<expiry, revoked>>
  BY DEF expiry, revoked

\* The ledger's view of one certificate.
LEMMA LedgerView ==
    /\ DOMAIN expiry = DOMAIN certificates
    /\ \A s \in DOMAIN expiry : expiry[s] = certificates[s].expires_at
    /\ \A s : s \in DOMAIN revoked <=>
          s \in DOMAIN certificates /\ certificates[s].status = "Revoked"
    /\ \A s \in DOMAIN revoked : revoked[s] = certificates[s].revoked_at
  BY DEF expiry, revoked

\* What the three kinds of reply tell a client.
LEMMA Replies ==
    /\ reply.call \notin {"crl", "status", "ocsp", "revoke"} => told = Ledger!Silence
    /\ reply.call \in {"status", "ocsp", "revoke"} =>
          told = Ledger!Told(reply.call, reply.name, reply.status)
    /\ reply.call = "crl" =>
          told = Ledger!TheList(reply.known, reply.listed, reply.this_update)
  BY DEF told, Ledger!Silence, Ledger!Told, Ledger!TheList

\* A step that leaves the store alone and says nothing of a certificate.
LEMMA QuietLedger ==
    ASSUME UNCHANGED <<store, now, acked>>,
           reply'.call \notin {"crl", "status", "ocsp", "revoke"}
    PROVE  Ledger!Next
  <1>1. told' = Ledger!Silence
    BY Replies DEF Ledger!Silence, told
  <1>2. UNCHANGED <<expiry, revoked>>
    BY SameCertificates DEF store
  <1> QED
    BY <1>1, <1>2 DEF Ledger!Next, Ledger!Quiet, Ledger!ledger, store

\* Calls that begin, that look for a certificate to renew, that are dropped, that take
\* the list along, or that enter a new certificate in the index.
LEMMA AsideQuiet ==
    ASSUME NEW t \in Tasks,
           Start(t) \/ IssueFails(t) \/ FindIndex(t) \/ IssueIndex(t) \/ ReadList(t) \/ Cancel(t)
    PROVE  Ledger!Next
  <1>0. /\ NoReply.call = "none"
        /\ \A why, n : [NoReply EXCEPT !.call = "renew", !.status = why, !.name = n].call = "renew"
    BY DEF NoReply
  <1>4. CASE IssueFails(t)
    <2>1. UNCHANGED <<store, now, acked>> /\ reply'.call = "issue"
      BY <1>4 DEF IssueFails, NoReply
    <2> QED
      BY <2>1, QuietLedger
  <1>1. CASE Start(t)
    <2>1. UNCHANGED <<store, now, acked>> /\ reply' = NoReply
      BY <1>1 DEF Start, BeginIssue, BeginRenew, BeginLookup, BeginRevoke, BeginCrl, Begin, Goto
    <2> QED
      BY <1>0, <2>1, QuietLedger
  <1>2. CASE FindIndex(t) \/ ReadList(t) \/ Cancel(t)
    <2>1. /\ UNCHANGED <<store, now, acked>>
          /\ \/ reply' = NoReply
             \/ \E why, n : reply' = [NoReply EXCEPT !.call = "renew", !.status = why, !.name = n]
      BY <1>2 DEF FindIndex, ReadList, Cancel, Answer, Goto
    <2>2. CASE reply' = NoReply
      <3>1. reply'.call = "none"
        BY <1>0, <2>2
      <3> QED
        BY <2>1, <3>1, QuietLedger
    <2>3. CASE reply' # NoReply
      <3>1. PICK why, n : reply' = [NoReply EXCEPT !.call = "renew", !.status = why, !.name = n]
        BY <2>1, <2>3
      <3>2. reply'.call = "renew"
        BY <1>0, <3>1
      <3> QED
        BY <2>1, <3>2, QuietLedger
    <2> QED
      BY <2>2, <2>3
  <1>3. CASE IssueIndex(t)
    <2>1. reply'.call = "issue" /\ UNCHANGED <<certificates, crl, crl_last_update, now, acked>>
      BY <1>3 DEF IssueIndex, Answer, NoReply
    <2>2. told' = Ledger!Silence
      BY <2>1 DEF Ledger!Silence, told
    <2>3. UNCHANGED <<expiry, revoked>>
      BY <2>1, SameCertificates
    <2> QED
      BY <2>1, <2>2, <2>3 DEF Ledger!Next, Ledger!Quiet, Ledger!ledger
  <1> QED
    BY <1>1, <1>2, <1>3, <1>4

\* A certificate that enters the store is issued.
LEMMA StoreIssues == ASSUME IInv, NEW t \in Tasks, IssueStore(t) PROVE Ledger!Next
  <1> DEFINE s == req[t].name
             e == [key |-> req[t].key, expires_at |-> req[t].until,
                   status |-> "Valid", revoked_at |-> 0]
  <1>1. /\ certificates' = Put(certificates, s, e) /\ s \in used /\ s \notin DOMAIN certificates
        /\ UNCHANGED <<crl, crl_last_update, now, acked>> /\ reply' = NoReply
        /\ used \subseteq Serials
    BY DEF IssueStore, At, Goto, IInv, TypeOK, TaskInv, IssueInv
  <1>2. e.status = "Valid"
    OBVIOUS
  <1> HIDE DEF s, e
  <1>3. /\ DOMAIN certificates' = DOMAIN certificates \cup {s}
        /\ certificates'[s] = e
        /\ \A x \in DOMAIN certificates : certificates'[x] = certificates[x]
    BY <1>1 DEF Put
  <1>4. /\ DOMAIN expiry' = DOMAIN expiry \cup {s}
        /\ \A x \in DOMAIN expiry : expiry'[x] = expiry[x]
    BY <1>3, <1>1 DEF expiry
  <1>5. revoked' = revoked
    BY <1>1, <1>2, <1>3 DEF revoked
  <1>6. told' = Ledger!Silence
    BY <1>1 DEF told, NoReply, Ledger!Silence
  <1>7. s \notin DOMAIN expiry
    BY <1>1, LedgerView
  <1>8. Ledger!Issue(s)
    BY <1>1, <1>4, <1>5, <1>6, <1>7 DEF Ledger!Issue
  <1> QED
    BY <1>1, <1>8 DEF Ledger!Next

\* A certificate that is marked joins the revoked ones, with the time it was marked at.
LEMMA MarkedRevoked ==
    ASSUME NEW s \in DOMAIN certificates, DOMAIN certificates' = DOMAIN certificates,
           \A x \in DOMAIN certificates : x # s => certificates'[x] = certificates[x],
           certificates'[s].status = "Revoked", certificates'[s].revoked_at = now
    PROVE  /\ DOMAIN revoked' = DOMAIN revoked \cup {s}
           /\ \A x \in DOMAIN revoked' : revoked'[x] = IF x = s THEN now ELSE revoked[x]
  <1> DEFINE R == {x \in DOMAIN certificates : certificates[x].status = "Revoked"}
  <1>1. R' = R \cup {s}
    OBVIOUS
  <1>2. /\ DOMAIN revoked = R /\ DOMAIN revoked' = R'
        /\ \A x \in R : revoked[x] = certificates[x].revoked_at
        /\ \A x \in R' : revoked'[x] = certificates'[x].revoked_at
    BY DEF revoked
  <1>3. \A x \in R' : certificates'[x].revoked_at = IF x = s THEN now ELSE certificates[x].revoked_at
    OBVIOUS
  <1>4. \A x \in R' : x # s => x \in R
    BY <1>1
  <1> HIDE DEF R
  <1> QED
    BY <1>1, <1>2, <1>3, <1>4

\* A certificate that is marked is revoked as of now; a refusal says why.
LEMMA StoreRevokes ==
    ASSUME IInv, LedgerInv, NEW t \in Tasks, RevokeStore(t) PROVE Ledger!Next
  <1> DEFINE s == req[t].name
  <1>1. /\ UNCHANGED <<crl, crl_last_update, now, acked>> /\ s \in Asked
        /\ DOMAIN certificates \subseteq Serials
        /\ certificates \in [DOMAIN certificates -> Entry]
    BY DEF RevokeStore, At, IInv, TypeOK, LedgerInv, LedgerTask
  <1>2. ASSUME NEW why, Refused(t, why), UNCHANGED certificates,
               \/ why = "not_found" /\ s \notin DOMAIN expiry
               \/ why = "already_revoked" /\ s \in DOMAIN revoked
        PROVE  Ledger!Next
    <2>1. reply'.call = "revoke" /\ reply'.name = s /\ reply'.status = why
      BY <1>2 DEF Refused, Answer, NoReply
    <2>2. told' = Ledger!Told("revoke", s, why)
      BY <2>1 DEF told, Ledger!Told
    <2>3. UNCHANGED <<expiry, revoked>>
      BY <1>2, SameCertificates
    <2>4. Ledger!Deny(s)
      BY <1>1, <1>2, <2>2, <2>3 DEF Ledger!Deny, Ledger!ledger
    <2> QED
      BY <1>1, <2>4 DEF Ledger!Next
  <1>3. CASE s \notin DOMAIN certificates
    BY <1>2, <1>3, LedgerView DEF RevokeStore
  <1>4. CASE s \in DOMAIN certificates /\ certificates[s].status = "Revoked"
    BY <1>2, <1>4, LedgerView DEF RevokeStore
  <1>5. CASE s \in DOMAIN certificates /\ certificates[s].status # "Revoked"
    <2>1. /\ certificates' = [certificates EXCEPT ![s].status = "Revoked",
                                                  ![s].revoked_at = now]
          /\ reply' = NoReply
      BY <1>5 DEF RevokeStore, Goto
    <2> HIDE DEF s
    <2>2. /\ DOMAIN certificates' = DOMAIN certificates
          /\ \A x \in DOMAIN certificates : x # s => certificates'[x] = certificates[x]
          /\ certificates'[s] = [certificates[s] EXCEPT !.status = "Revoked",
                                                        !.revoked_at = now]
      BY <1>1, <1>5, <2>1
    <2>3. certificates[s] \in Entry
      BY <1>1, <1>5
    <2>4. /\ certificates'[s].expires_at = certificates[s].expires_at
          /\ certificates'[s].status = "Revoked" /\ certificates'[s].revoked_at = now
      BY <2>2, <2>3 DEF Entry
    <2>5. expiry' = expiry
      BY <2>2, <2>4 DEF expiry
    <2>6. /\ DOMAIN revoked' = DOMAIN revoked \cup {s}
          /\ \A x \in DOMAIN revoked' : revoked'[x] = IF x = s THEN now ELSE revoked[x]
      BY <1>5, <2>2, <2>4, MarkedRevoked
    <2>7. s \in DOMAIN expiry \ DOMAIN revoked
      BY <1>5, LedgerView
    <2>8. told' = Ledger!Silence
      BY <2>1 DEF told, NoReply, Ledger!Silence
    <2>9. Ledger!Revoke(s)
      BY <1>1, <2>5, <2>6, <2>7, <2>8 DEF Ledger!Revoke
    <2> QED
      BY <1>1, <1>5, <2>9 DEF Ledger!Next
  <1> QED
    BY <1>3, <1>4, <1>5

\* A revocation that enters the list is published.
LEMMA ListPublishes == ASSUME IInv, NEW t \in Tasks, RevokeList(t) PROVE Ledger!Next
  <1> DEFINE s == req[t].name
  <1>1. /\ UNCHANGED <<certificates, crl_last_update, now, acked>> /\ reply' = NoReply
        /\ crl' = Append(crl, [serial |-> s, revoked_at |-> req[t].revoked_at])
    BY DEF RevokeList, Goto
  <1>2. /\ s \in DOMAIN certificates /\ certificates[s].status = "Revoked"
        /\ certificates[s].revoked_at = req[t].revoked_at
        /\ \A i \in DOMAIN crl : crl[i].revoked_at <= req[t].revoked_at
        /\ s \notin ListedIn(crl)
        /\ s \in Serials
    BY DEF RevokeList, At, IInv, TaskInv, RevocationInv, Revoking, TypeOK
  <1> HIDE DEF s
  <1>3. s \in DOMAIN revoked /\ revoked[s] = req[t].revoked_at
    BY <1>2, LedgerView
  <1>4. told' = Ledger!Silence
    BY <1>1 DEF told, NoReply, Ledger!Silence
  <1>5. UNCHANGED <<expiry, revoked>>
    BY <1>1, SameCertificates
  <1>6. Ledger!Publish(s)
    BY <1>1, <1>2, <1>3, <1>4, <1>5 DEF Ledger!Publish, Ledger!Listed, ListedIn
  <1> QED
    BY <1>2, <1>6 DEF Ledger!Next

\* A revocation that writes the list's time is confirmed.
LEMMA StampConfirms ==
    ASSUME IInv, LedgerInv, NEW t \in Tasks, RevokeStamp(t) PROVE Ledger!Next
  <1> DEFINE s == req[t].name
  <1>1. /\ UNCHANGED <<certificates, crl, now>> /\ pc[t] = "revoke_stamp"
        /\ crl_last_update' = req[t].revoked_at /\ acked' = acked \cup {s}
        /\ reply'.call = "revoke" /\ reply'.name = s /\ reply'.status = "revoked"
    BY DEF RevokeStamp, At, Answer, NoReply
  <1>2. /\ s \in DOMAIN certificates /\ certificates[s].status = "Revoked"
        /\ certificates[s].revoked_at = req[t].revoked_at
        /\ s \in Serials
    BY <1>1 DEF IInv, TaskInv, RevocationInv, Revoking, TypeOK
  <1>3. crl # <<>> /\ crl[Len(crl)].serial = s /\ s \notin acked
    BY <1>1 DEF LedgerInv, LedgerTask
  <1> HIDE DEF s
  <1>4. s \in DOMAIN revoked /\ revoked[s] = req[t].revoked_at
    BY <1>2, LedgerView
  <1>5. told' = Ledger!Told("revoke", s, "revoked")
    BY <1>1 DEF told, Ledger!Told
  <1>6. UNCHANGED <<expiry, revoked>>
    BY <1>1, SameCertificates
  <1>7. Ledger!Confirm(s)
    BY <1>1, <1>3, <1>4, <1>5, <1>6 DEF Ledger!Confirm
  <1> QED
    BY <1>2, <1>7 DEF Ledger!Next

\* What get_crl answers is the beginning of the list, with all that its client knew of.
LEMMA StampGives == ASSUME IInv, LedgerInv, NEW t \in Tasks, ReadStamp(t) PROVE Ledger!Next
  <1> DEFINE known == req[t].known
             n == Len(req[t].listed)
  <1>1. /\ UNCHANGED <<store, now, acked>> /\ pc[t] = "list_stamp"
        /\ reply'.call = "crl" /\ reply'.known = known /\ reply'.listed = req[t].listed
        /\ reply'.this_update = crl_last_update
    BY DEF ReadStamp, At, Answer, NoReply
  <1>2. /\ known \in SUBSET acked /\ n \in 0..Len(crl)
        /\ req[t].listed = SubSeq(crl, 1, n)
        /\ known \subseteq ListedIn(req[t].listed)
    BY <1>1 DEF IInv, TaskInv, QuestionInv, LedgerInv, LedgerTask
  <1>3. told' = Ledger!TheList(known, req[t].listed, crl_last_update)
    BY <1>1 DEF told, Ledger!TheList
  <1>4. UNCHANGED <<expiry, revoked>>
    BY <1>1, SameCertificates DEF store
  <1> HIDE DEF known, n
  <1>5. Ledger!Give(n, known)
    BY <1>1, <1>2, <1>3, <1>4 DEF Ledger!Give, Ledger!Listed, ListedIn, Ledger!ledger, store
  <1> QED
    BY <1>2, <1>5 DEF Ledger!Next

\* A status is the ledger's at that moment; a renewal that is checked says nothing.
LEMMA GetTells == ASSUME IInv, LedgerInv, NEW t \in Tasks, Get(t) PROVE Ledger!Next
  <1> DEFINE n == req[t].name
  <1>1. /\ UNCHANGED <<store, now, acked>> /\ pc[t] = "get" /\ n \in Asked
        /\ req[t].call \in {"renew", "status", "ocsp"}
    BY DEF Get, At, LedgerInv, LedgerTask
  <1>2. UNCHANGED <<expiry, revoked>>
    BY <1>1, SameCertificates DEF store
  <1>3. \/ reply'.call = "renew" \/ reply' = NoReply
        \/ /\ reply'.call = req[t].call /\ reply'.name = n
           /\ \/ n \notin DOMAIN certificates /\ reply'.status = "unknown"
              \/ n \in DOMAIN certificates /\ reply'.status = status_of(certificates[n])
    BY DEF Get, RenewChecked, Answer, Goto, NoReply
  <1> HIDE DEF n
  <1>4. \/ n \notin DOMAIN certificates /\ Ledger!Status(n) = "unknown"
        \/ n \in DOMAIN certificates /\ Ledger!Status(n) = status_of(certificates[n])
    BY LedgerView DEF Ledger!Status, status_of
  <1>5. CASE reply'.call \in {"status", "ocsp"} /\ reply'.name = n
             /\ reply'.status = Ledger!Status(n)
    <2>1. told' = Ledger!Told(reply'.call, n, Ledger!Status(n))
      BY <1>5 DEF told, Ledger!Told
    <2>2. Ledger!Tell(n)
      BY <1>1, <1>2, <1>5, <2>1 DEF Ledger!Tell, Ledger!ledger, store
    <2> QED
      BY <1>1, <2>2 DEF Ledger!Next
  <1>6. CASE reply'.call \notin {"status", "ocsp", "revoke", "crl"}
    BY <1>1, <1>6, QuietLedger
  <1> QED
    BY <1>1, <1>3, <1>4, <1>5, <1>6 DEF NoReply

\* Every step of the service is a step of the ledger.
LEMMA LedgerStep ==
    ASSUME IInv, LedgerInv, [Next]_vars
    PROVE  [Ledger!Next]_<<now, Ledger!ledger, told>>
  <1>1. CASE Tick
    <2>1. told' = Ledger!Silence
      BY <1>1 DEF Tick, told, NoReply, Ledger!Silence
    <2>2. UNCHANGED <<expiry, revoked>>
      BY <1>1, SameCertificates DEF Tick, store
    <2> QED
      BY <1>1, <2>1, <2>2 DEF Tick, store, Ledger!Next, Ledger!Tick, Ledger!ledger
  <1>2. CASE UNCHANGED vars
    <2>1. UNCHANGED <<expiry, revoked>>
      BY <1>2, SameCertificates DEF vars
    <2> QED
      BY <1>2, <2>1 DEF vars, told, Ledger!ledger
  <1> QED
    BY <1>1, <1>2, AsideQuiet, StoreIssues, StoreRevokes, ListPublishes, StampConfirms,
       StampGives, GetTells DEF Next, Proceed

\* The certificate service implements the revocation ledger: whatever calls run at once
\* or are dropped, a certificate is revoked once and published in order, confirmations
\* move the list's time, and every answer is true at the moment it is given.
THEOREM RevocationsRefined == Spec => RefinesRevocations
  <1>1. Init => Ledger!Init
    <2> SUFFICES ASSUME Init PROVE Ledger!Init
      OBVIOUS
    <2>1. told = Ledger!Silence
      BY DEF Init, told, NoReply, Ledger!Silence
    <2>2. DOMAIN expiry = {} /\ DOMAIN revoked = {}
      BY DEF Init, expiry, revoked
    <2>3. expiry = [s \in {} |-> 0] /\ revoked = [s \in {} |-> 0]
      BY <2>2 DEF expiry, revoked
    <2> QED
      BY <2>1, <2>3 DEF Init, Ledger!Init
  <1>2. IInv /\ LedgerInv /\ [Next]_vars => [Ledger!Next]_<<now, Ledger!ledger, told>>
    BY LedgerStep
  <1> QED
    BY <1>1, <1>2, Invariance, LedgerInvariance, PTL
    DEF Spec, RefinesRevocations, Ledger!Spec
=============================================================================
