-------------------------- MODULE ConnectionsProofs --------------------------
(***************************************************************************)
(* Proofs about Connections, for any set of workers, users and requests.   *)
(***************************************************************************)
EXTENDS Connections, TLAPS

-----------------------------------------------------------------------------
(* Type correctness *)

LEMMA InitTypeOK ==
  ASSUME Init PROVE TypeOK
  BY ConnectionsAssumption DEF Init, TypeOK, Job, ConnectionRequest, Idle, LinkSteps

(* Every value a handler computes for a row is a status.                   *)
LEMMA StatusTypes ==
  /\ \A t \in Principal : InitialStatus(t) \in ConnectionStatus
  /\ \A side \in UserRole, s \in ConnectionStatus :
       Advance(side, s) \in ConnectionStatus
  BY DEF InitialStatus, Advance, ConnectionStatus

(* A job is of the kind its step names.                                    *)
LEMMA JobKinds ==
  ASSUME NEW j \in Job
  PROVE  /\ j.step = "idle" => j = Idle
         /\ j.step \in CreateSteps => j \in CreateJob
         /\ j.step \in LinkSteps \cup {"saveStatus"} => j \in ProcessJob
         /\ j.step = "saveProfile" => j \in ProfileJob
  BY DEF Job, Idle, CreateJob, ProcessJob, ProfileJob, CreateSteps, LinkSteps

LEMMA NextTypeOK ==
  ASSUME TypeOK, [Next]_vars PROVE TypeOK'
<1> USE DEF users
<1>1. ASSUME NEW w \in Workers, CreateRequest(w) PROVE TypeOK'
  <2>1. PICK t \in Tokens, p \in Users, c \in Users :
          job' = [job EXCEPT ![w] = [step |-> "readChild", by |-> t,
                                     parent |-> p, child |-> c]]
    BY <1>1 DEF CreateRequest
  <2>2. job' \in [Workers -> Job]
    BY <2>1 DEF TypeOK, Tokens, Job, CreateJob, CreateSteps
  <2>3. QED BY <1>1, <2>1, <2>2 DEF CreateRequest, TypeOK, LinkSteps
<1>2. ASSUME NEW w \in Workers, ReadChild(w) \/ FindExisting(w) PROVE TypeOK'
  <2>1. job[w] \in CreateJob
    BY <1>2, JobKinds DEF TypeOK, ReadChild, FindExisting, CreateSteps
  <2>2. job' \in [Workers -> Job]
    BY <1>2, <2>1 DEF TypeOK, ReadChild, FindExisting, Go, Finish, Job, CreateJob, CreateSteps
  <2>3. job'[w].step \in {"idle", "findExisting", "insert"}
        /\ \A v \in Workers \ {w} : job'[v] = job[v]
    BY <1>2, <2>1 DEF TypeOK, ReadChild, FindExisting, Go, Finish, Idle, CreateJob
  <2>4. QED BY <1>2, <2>2, <2>3 DEF TypeOK, ReadChild, FindExisting, LinkSteps
<1>3. ASSUME NEW w \in Workers, InsertRequest(w) PROVE TypeOK'
  <2>1. job[w] \in CreateJob
    BY <1>3, JobKinds DEF TypeOK, InsertRequest, CreateSteps
  <2>2. PICK i \in FreeIds :
          /\ requests' = [requests EXCEPT ![i] =
                            [parent |-> job[w].parent, child |-> job[w].child,
                             status |-> InitialStatus(job[w].by)]]
          /\ endorsed' = [endorsed EXCEPT ![i] = {job[w].by}]
    BY <1>3 DEF InsertRequest
  <2>3. i \in RequestIds BY DEF FreeIds
  <2>4. /\ requests' \in [RequestIds -> ConnectionRequest \cup {NoRequest}]
        /\ \A k \in RequestIds : requests[k] # NoRequest => requests'[k] # NoRequest
    <3> DEFINE r == [parent |-> job[w].parent, child |-> job[w].child,
                     status |-> InitialStatus(job[w].by)]
    <3>1. r \in ConnectionRequest
      BY <2>1, StatusTypes DEF CreateJob, ConnectionRequest
    <3>2. requests[i] = NoRequest BY DEF FreeIds
    <3>3. QED BY <2>2, <2>3, <3>1, <3>2 DEF TypeOK
  <2>5. endorsed' \in [RequestIds -> SUBSET Principal]
    BY <2>1, <2>2, <2>3 DEF TypeOK, CreateJob
  <2>6. QED
    BY <1>3, <2>2, <2>3, <2>4, <2>5, JobKinds
    DEF InsertRequest, TypeOK, Finish, Job, Idle, LinkSteps, ProcessJob
<1>4. ASSUME NEW w \in Workers, NoIdLeft(w) PROVE TypeOK'
  BY <1>4 DEF NoIdLeft, TypeOK, Finish, Job, Idle, LinkSteps
<1>5. ASSUME NEW w \in Workers, Reject(w) PROVE TypeOK'
  <2>1. PICK i \in RequestIds :
          requests[i] # NoRequest /\ ProcessAs(w, "saveStatus", i, "REJECTED")
    BY <1>5 DEF Reject
  <2>2. requests[i] \in ConnectionRequest BY <2>1 DEF TypeOK
  <2>3. job' \in [Workers -> Job]
    BY <2>1, <2>2
    DEF TypeOK, ProcessAs, Job, ProcessJob, ConnectionRequest, ConnectionStatus
  <2>4. QED BY <1>5, <2>1, <2>3 DEF Reject, TypeOK, ProcessAs
<1>6. ASSUME NEW w \in Workers, Approve(w) PROVE TypeOK'
  <2>1. PICK t \in Tokens, i \in RequestIds : ApproveAs(w, t, i)
    BY <1>6 DEF Approve
  <2>2. t \in Principal /\ t.role \in UserRole BY DEF Tokens, Principal
  <2>3. requests[i] \in ConnectionRequest BY <2>1 DEF TypeOK, ApproveAs
  <2>4. Advance(t.role, requests[i].status) \in ConnectionStatus
    BY <2>2, <2>3, StatusTypes DEF ConnectionRequest
  <2>5. job' \in [Workers -> Job]
    BY <2>1, <2>3, <2>4
    DEF TypeOK, ApproveAs, ProcessAs, Job, ProcessJob, ConnectionRequest, LinkSteps
  <2>6. endorsed' \in [RequestIds -> SUBSET Principal]
    BY <2>1, <2>2 DEF TypeOK, ApproveAs
  <2>7. QED BY <2>1, <2>5, <2>6 DEF ApproveAs, ProcessAs, TypeOK
<1>7. ASSUME NEW w \in Workers, ReadParentLinks(w) \/ ReadChildLinks(w)
      PROVE  TypeOK'
  <2>1. job[w] \in ProcessJob
    BY <1>7, JobKinds DEF TypeOK, ReadParentLinks, ReadChildLinks, LinkSteps
  <2>2. job' \in [Workers -> Job]
    BY <1>7, <2>1
    DEF TypeOK, ReadParentLinks, ReadChildLinks, Go, Job, ProcessJob, LinkSteps
  <2>3. /\ job'[w].id = job[w].id
        /\ \A v \in Workers \ {w} : job'[v] = job[v]
    BY <1>7, <2>1 DEF TypeOK, ReadParentLinks, ReadChildLinks, Go, ProcessJob
  <2>4. requests[job[w].id] # NoRequest
    BY <1>7 DEF TypeOK, ReadParentLinks, ReadChildLinks, LinkSteps
  <2>5. QED BY <1>7, <2>2, <2>3, <2>4 DEF TypeOK, ReadParentLinks, ReadChildLinks
<1>8. ASSUME NEW w \in Workers, SaveParentLinks(w) \/ SaveChildLinks(w)
      PROVE  TypeOK'
  <2>1. job[w] \in ProcessJob
    BY <1>8, JobKinds DEF TypeOK, SaveParentLinks, SaveChildLinks, LinkSteps
  <2>2. job' \in [Workers -> Job]
    BY <1>8, <2>1
    DEF TypeOK, SaveParentLinks, SaveChildLinks, Job, ProcessJob, LinkSteps
  <2>3. /\ job'[w].id = job[w].id
        /\ \A v \in Workers \ {w} : job'[v] = job[v]
    BY <1>8, <2>1 DEF TypeOK, SaveParentLinks, SaveChildLinks, ProcessJob
  <2>4. requests[job[w].id] # NoRequest
    BY <1>8 DEF TypeOK, SaveParentLinks, SaveChildLinks, LinkSteps
  <2>5. /\ childPlayerIds' \in [Users -> SUBSET Users]
        /\ parentIds' \in [Users -> SUBSET Users]
    BY <1>8, <2>1 DEF TypeOK, SaveParentLinks, SaveChildLinks, ProcessJob
  <2>6. QED
    BY <1>8, <2>2, <2>3, <2>4, <2>5 DEF TypeOK, SaveParentLinks, SaveChildLinks
<1>9. ASSUME NEW w \in Workers, SaveStatus(w) PROVE TypeOK'
  <2>1. job[w] \in ProcessJob /\ requests[job[w].id] # NoRequest
    BY <1>9, JobKinds DEF TypeOK, SaveStatus
  <2>2. /\ requests[job[w].id] \in ConnectionRequest
        /\ job[w].status \in ConnectionStatus
        /\ job[w].id \in RequestIds
    BY <2>1 DEF TypeOK, ProcessJob
  <2>3. [requests[job[w].id] EXCEPT !.status = job[w].status] \in ConnectionRequest
    BY <2>2 DEF ConnectionRequest
  <2>4. /\ requests' = [requests EXCEPT ![job[w].id] =
                          [requests[job[w].id] EXCEPT !.status = job[w].status]]
        /\ job' = [job EXCEPT ![w] = Idle]
    BY <1>9, <2>2 DEF SaveStatus, Finish, TypeOK
  <2>5. \A r \in ConnectionRequest : r # NoRequest
    BY DEF ConnectionRequest, NoRequest
  <2>6. QED
    BY <1>9, <2>2, <2>3, <2>4, <2>5 DEF SaveStatus, TypeOK, Job, Idle, LinkSteps
<1>10. ASSUME NEW w \in Workers, ReadProfile(w) PROVE TypeOK'
  BY <1>10 DEF ReadProfile, TypeOK, Job, ProfileJob, LinkSteps
<1>11. ASSUME NEW w \in Workers, SaveProfile(w) PROVE TypeOK'
  <2>1. job[w] \in ProfileJob
    BY <1>11, JobKinds DEF TypeOK, SaveProfile
  <2>2. QED
    BY <1>11, <2>1 DEF SaveProfile, TypeOK, Finish, Job, ProfileJob, Idle, LinkSteps
<1>12. ASSUME NEW w \in Workers, Kill(w) \/ RefuseProfile(w) PROVE TypeOK'
  BY <1>12 DEF Kill, RefuseProfile, TypeOK, Finish, Job, Idle, LinkSteps
<1>13. ASSUME NEW u \in Users, NEW r \in AssignedRoles, UpdateRole(u, r)
       PROVE  TypeOK'
  BY <1>13, ConnectionsAssumption DEF UpdateRole, TypeOK
<1>14. CASE UNCHANGED vars
  BY <1>14 DEF TypeOK, vars
<1>15. QED
  BY <1>1, <1>2, <1>3, <1>4, <1>5, <1>6, <1>7, <1>8, <1>9, <1>10, <1>11,
     <1>12, <1>13, <1>14 DEF Next, Begin, Step

(* No handler ever stores a value outside the columns' types.              *)
THEOREM TypeCorrect == Spec => []TypeOK
  BY InitTypeOK, NextTypeOK, PTL DEF Spec

-----------------------------------------------------------------------------
(* Consent is never withdrawn: requests keep their parties, and those who  *)
(* endorsed a request stay on record.                                      *)

Grows ==
  /\ \A i \in RequestIds :
       requests[i] # NoRequest =>
         /\ requests'[i] # NoRequest
         /\ requests'[i].parent = requests[i].parent
         /\ requests'[i].child = requests[i].child
  /\ \A i \in RequestIds : endorsed[i] \subseteq endorsed'[i]

LEMMA NextGrows ==
  ASSUME Inductive, [Next]_vars PROVE Grows
<1> USE DEF users
<1>1. ASSUME NEW w \in Workers, InsertRequest(w) PROVE Grows
  <2>1. PICK i \in FreeIds :
          /\ requests' = [requests EXCEPT ![i] =
                            [parent |-> job[w].parent, child |-> job[w].child,
                             status |-> InitialStatus(job[w].by)]]
          /\ endorsed' = [endorsed EXCEPT ![i] = {job[w].by}]
    BY <1>1 DEF InsertRequest
  <2>2. i \in RequestIds /\ requests[i] = NoRequest BY DEF FreeIds
  <2>3. endorsed[i] = {}
    BY <2>2 DEF Inductive, RequestsBacked
  <2>4. QED
    BY <2>1, <2>2, <2>3 DEF Grows, Inductive, TypeOK
<1>2. ASSUME NEW w \in Workers, Approve(w) PROVE Grows
  BY <1>2 DEF Approve, ApproveAs, Grows, Inductive, TypeOK
<1>3. ASSUME NEW w \in Workers, SaveStatus(w) PROVE Grows
  <2>1. job[w] \in ProcessJob /\ requests[job[w].id] # NoRequest
    BY <1>3, JobKinds DEF Inductive, TypeOK, SaveStatus
  <2>2. requests[job[w].id] \in ConnectionRequest /\ job[w].id \in RequestIds
    BY <2>1 DEF Inductive, TypeOK, ProcessJob
  <2> DEFINE r == [requests[job[w].id] EXCEPT !.status = job[w].status]
  <2>3. requests' = [requests EXCEPT ![job[w].id] = r]
    BY <1>3, <2>2 DEF SaveStatus
  <2>4. /\ r # NoRequest
        /\ r.parent = requests[job[w].id].parent
        /\ r.child = requests[job[w].id].child
    BY <2>2 DEF ConnectionRequest, NoRequest
  <2> HIDE DEF r
  <2>5. QED BY <1>3, <2>2, <2>3, <2>4 DEF SaveStatus, Grows, Inductive, TypeOK
<1>4. CASE UNCHANGED <<requests, endorsed>>
  BY <1>4 DEF Grows
<1>5. QED
  BY <1>1, <1>2, <1>3, <1>4
  DEF Next, Begin, Step, CreateRequest, ReadChild, FindExisting, NoIdLeft, Reject,
      ReadParentLinks, SaveParentLinks, ReadChildLinks, SaveChildLinks,
      ReadProfile, SaveProfile, RefuseProfile, Kill, UpdateRole, vars

LEMMA ConsentStays ==
  ASSUME Grows, NEW i \in RequestIds, requests[i] # NoRequest
  PROVE  /\ requests'[i] # NoRequest
         /\ BothConsented(i) => BothConsented(i)'
         /\ \A side \in {"PARENT", "PLAYER"} :
              Party(i, side) \in endorsed[i] => (Party(i, side) \in endorsed[i])'
         /\ \A s : Backed(i, s) => Backed(i, s)'
  BY DEF Grows, BothConsented, Party, Backed

LEMMA AgreementStays ==
  ASSUME Grows, NEW p, NEW c, Agreed(p, c)
  PROVE  Agreed(p, c)'
<1>1. PICK i \in RequestsOf(p, c) : BothConsented(i)
  BY DEF Agreed
<1>2. /\ i \in RequestIds /\ requests[i] # NoRequest
      /\ requests[i].parent = p /\ requests[i].child = c
  BY DEF RequestsOf
<1>3. BothConsented(i)' BY <1>1, <1>2, ConsentStays
<1>4. i \in RequestsOf(p, c)' BY <1>2 DEF RequestsOf, Grows
<1>5. QED BY <1>3, <1>4 DEF Agreed

(* What is backed in the memory of a worker stays backed whatever the      *)
(* others do.                                                              *)
LEMMA ProcessBackedStays ==
  ASSUME Grows, NEW j, ProcessBacked(j) PROVE ProcessBacked(j)'
<1>1. /\ j.id \in RequestIds /\ requests[j.id] # NoRequest
      /\ requests[j.id].parent = j.parent /\ requests[j.id].child = j.child
  BY DEF ProcessBacked, RequestsOf
<1>2. (j.id \in RequestsOf(j.parent, j.child))'
  BY <1>1 DEF Grows, RequestsOf
<1>3. Backed(j.id, j.status)'
  BY <1>1, ConsentStays DEF ProcessBacked
<1>4. QED
  BY <1>2, <1>3, AgreementStays DEF ProcessBacked

LEMMA JobBackedStays ==
  ASSUME Grows, NEW j, JobBacked(j) PROVE JobBacked(j)'
<1>1. ProfileBacked(j) => ProfileBacked(j)'
  BY AgreementStays DEF ProfileBacked
<1>2. MayInitiate(j.by, j.parent, j.child)' = MayInitiate(j.by, j.parent, j.child)
  BY DEF MayInitiate
<1>3. QED BY <1>1, <1>2, ProcessBackedStays DEF JobBacked

(* An invariant about every worker's memory is re-established by a step of *)
(* worker w as soon as it holds of what w then remembers.                  *)
LEMMA OneWorkerActs ==
  ASSUME Grows, JobsBacked, NEW w \in Workers,
         \A v \in Workers \ {w} : job'[v] = job[v],
         \A j : j = job'[w] => JobBacked(j)'
  PROVE  JobsBacked'
<1> SUFFICES ASSUME NEW v \in Workers, NEW j, j = job'[v]
             PROVE  JobBacked(j)'
  BY DEF JobsBacked
<1>1. CASE v = w BY <1>1
<1>2. CASE v # w
  <2>1. j = job[v] BY <1>2
  <2>2. JobBacked(j) BY <2>1 DEF JobsBacked
  <2>3. QED BY <2>2, JobBackedStays
<1>3. QED BY <1>1, <1>2

LEMMA RowsStayBacked ==
  ASSUME Grows, RequestsBacked, requests' = requests,
         \A i \in RequestIds : requests[i] = NoRequest => endorsed'[i] = endorsed[i]
  PROVE  RequestsBacked'
  BY ConsentStays DEF RequestsBacked

LEMMA LinksStayAgreed ==
  ASSUME Grows, LinksAgreed, UNCHANGED <<childPlayerIds, parentIds>>
  PROVE  LinksAgreed'
  BY AgreementStays DEF LinksAgreed

LEMMA IdleBacked == JobBacked(Idle) /\ JobBacked(Idle)'
  BY DEF JobBacked, Idle, CreateSteps, LinkSteps

(* The inductive step, one lemma per kind of action.                       *)

LEMMA CreatePreserves ==
  ASSUME Inductive, Grows, NEW w \in Workers,
         CreateRequest(w) \/ ReadChild(w) \/ FindExisting(w) \/ NoIdLeft(w)
  PROVE  RequestsBacked' /\ JobsBacked' /\ LinksAgreed'
<1>1. RequestsBacked' /\ LinksAgreed'
  BY RowsStayBacked, LinksStayAgreed
  DEF Inductive, CreateRequest, ReadChild, FindExisting, NoIdLeft, users
<1>2. \A v \in Workers \ {w} : job'[v] = job[v]
  BY DEF Inductive, TypeOK, CreateRequest, ReadChild, FindExisting, NoIdLeft, Go, Finish
<1>3. ASSUME NEW j, j = job'[w] PROVE JobBacked(j)'
  <2>1. CASE CreateRequest(w)
    <3>1. PICK t \in Tokens, p \in Users, c \in Users :
            /\ MayInitiate(t, p, c)
            /\ job' = [job EXCEPT ![w] = [step |-> "readChild", by |-> t,
                                          parent |-> p, child |-> c]]
      BY <2>1 DEF CreateRequest
    <3>2. j = [step |-> "readChild", by |-> t, parent |-> p, child |-> c]
      BY <1>3, <3>1 DEF Inductive, TypeOK
    <3>3. QED BY <3>1, <3>2 DEF JobBacked, LinkSteps, MayInitiate
  <2>2. CASE ReadChild(w) \/ FindExisting(w) \/ NoIdLeft(w)
    <3>1. job[w] \in CreateJob
      BY <2>2, JobKinds
      DEF Inductive, TypeOK, ReadChild, FindExisting, NoIdLeft, CreateSteps
    <3>2. PICK k : k = job[w] OBVIOUS
    <3>3. JobBacked(k) BY <3>2 DEF Inductive, JobsBacked
    <3>4. \/ j = Idle
          \/ /\ j.step \in CreateSteps /\ k.step \in CreateSteps
             /\ j.by = k.by /\ j.parent = k.parent /\ j.child = k.child
      BY <1>3, <2>2, <3>1, <3>2
      DEF Inductive, TypeOK, ReadChild, FindExisting, NoIdLeft, Go, Finish,
          CreateJob, CreateSteps
    <3>5. QED
      BY <3>3, <3>4, IdleBacked DEF JobBacked, CreateSteps, LinkSteps, MayInitiate
  <2>3. QED BY <2>1, <2>2
<1>4. QED BY <1>1, <1>2, <1>3, OneWorkerActs DEF Inductive

LEMMA InsertPreserves ==
  ASSUME Inductive, Grows, NEW w \in Workers, InsertRequest(w)
  PROVE  RequestsBacked' /\ JobsBacked' /\ LinksAgreed'
<1>1. LinksAgreed' BY LinksStayAgreed DEF Inductive, InsertRequest, users
<1>2. JobsBacked'
  BY OneWorkerActs, IdleBacked DEF Inductive, TypeOK, InsertRequest, Finish
<1>3. RequestsBacked'
  <2>1. PICK i \in FreeIds :
          /\ requests' = [requests EXCEPT ![i] =
                            [parent |-> job[w].parent, child |-> job[w].child,
                             status |-> InitialStatus(job[w].by)]]
          /\ endorsed' = [endorsed EXCEPT ![i] = {job[w].by}]
    BY DEF InsertRequest
  <2>2. job[w] \in CreateJob
    BY JobKinds DEF Inductive, TypeOK, InsertRequest, CreateSteps
  <2>3. PICK j : j = job[w] OBVIOUS
  <2>4. MayInitiate(j.by, j.parent, j.child) /\ j.by \in Principal
    BY <2>2, <2>3 DEF Inductive, JobsBacked, JobBacked, CreateSteps, CreateJob, InsertRequest
  <2>5. i \in RequestIds BY DEF FreeIds
  <2>6. /\ requests'[i] = [parent |-> j.parent, child |-> j.child,
                            status |-> InitialStatus(j.by)]
        /\ endorsed'[i] = {j.by}
    BY <2>1, <2>3, <2>5 DEF Inductive, TypeOK
  <2>7. Backed(i, InitialStatus(j.by))'
    BY <2>4, <2>6 DEF Backed, Party, InitialStatus, MayInitiate, Principal
  <2>8. ASSUME NEW k \in RequestIds \ {i}
        PROVE  requests'[k] = requests[k] /\ endorsed'[k] = endorsed[k]
    BY <2>1, <2>5 DEF Inductive, TypeOK
  <2>9. ASSUME NEW k \in RequestIds
        PROVE  (IF requests[k] = NoRequest THEN endorsed[k] = {}
                ELSE Backed(k, requests[k].status))'
    <3>1. CASE k = i
      <4>1. requests'[k] # NoRequest /\ requests'[k].status = InitialStatus(j.by)
        BY <2>6, <3>1 DEF NoRequest
      <4>2. QED BY <2>7, <3>1, <4>1 DEF Backed, BothConsented, Party
    <3>2. CASE k # i
      <4>1. IF requests[k] = NoRequest THEN endorsed[k] = {}
            ELSE Backed(k, requests[k].status)
        BY DEF Inductive, RequestsBacked
      <4>2. QED BY <2>8, <3>2, <4>1 DEF Backed, BothConsented, Party
    <3>3. QED BY <3>1, <3>2
  <2>10. QED BY <2>9 DEF RequestsBacked
<1>4. QED BY <1>1, <1>2, <1>3

LEMMA RejectPreserves ==
  ASSUME Inductive, Grows, NEW w \in Workers, Reject(w)
  PROVE  RequestsBacked' /\ JobsBacked' /\ LinksAgreed'
<1>1. RequestsBacked' /\ LinksAgreed'
  BY RowsStayBacked, LinksStayAgreed DEF Inductive, Reject, users
<1>2. PICK i \in RequestIds :
        requests[i] # NoRequest /\ ProcessAs(w, "saveStatus", i, "REJECTED")
  BY DEF Reject
<1>3. requests' = requests BY DEF Reject
<1>4. ASSUME NEW j, j = job'[w] PROVE JobBacked(j)'
  <2>1. /\ j.step = "saveStatus" /\ j.id = i /\ j.status = "REJECTED"
        /\ j.parent = requests[i].parent /\ j.child = requests[i].child
    BY <1>2, <1>4 DEF ProcessAs, Inductive, TypeOK
  <2>2. (j.id \in RequestsOf(j.parent, j.child))'
    BY <1>2, <1>3, <2>1 DEF RequestsOf
  <2>3. QED
    BY <2>1, <2>2 DEF JobBacked, ProcessBacked, Backed, LinkSteps, CreateSteps
<1>5. \A v \in Workers \ {w} : job'[v] = job[v]
  BY <1>2 DEF ProcessAs, Inductive, TypeOK
<1>6. QED BY <1>1, <1>4, <1>5, OneWorkerActs DEF Inductive

(* The status an approval reaches is backed by the approver's consent and  *)
(* the one that the status read already stood for.                         *)
LEMMA AdvanceBacked ==
  ASSUME NEW t \in Principal, NEW i \in RequestIds, NEW s,
         Backed(i, s), MayApprove(t, requests[i]), requests[i] # NoRequest,
         requests' = requests, endorsed'[i] = endorsed[i] \cup {t}
  PROVE  Backed(i, Advance(t.role, s))'
<1>1. t = Party(i, t.role) /\ t.role \in {"PARENT", "PLAYER"}
  BY DEF Party, MayApprove, Principal
<1>2. Party(i, t.role)' \in endorsed'[i]
  BY <1>1 DEF Party
<1>3. \A side \in {"PARENT", "PLAYER"} :
        Party(i, side) \in endorsed[i] => Party(i, side)' \in endorsed'[i]
  BY DEF Party
<1>4. requests'[i] # NoRequest OBVIOUS
<1>5. CASE t.role = "PARENT"
  <2>1. Party(i, "PARENT")' \in endorsed'[i] BY <1>2, <1>5
  <2>2. CASE s = "WAITING_ON_PARENT"
    <3>1. Advance(t.role, s) = "APPROVED" BY <1>5, <2>2 DEF Advance
    <3>2. Party(i, "PLAYER")' \in endorsed'[i] BY <1>3, <2>2 DEF Backed
    <3>3. BothConsented(i)' BY <1>4, <2>1, <3>2 DEF BothConsented
    <3>4. QED BY <3>1, <3>3 DEF Backed
  <2>3. CASE s = "PENDING"
    <3>1. Advance(t.role, s) = "WAITING_ON_CHILD" BY <1>5, <2>3 DEF Advance
    <3>2. QED BY <2>1, <3>1 DEF Backed
  <2>4. CASE s \notin {"WAITING_ON_PARENT", "PENDING"}
    <3>1. Advance(t.role, s) = s BY <1>5, <2>4 DEF Advance
    <3>2. BothConsented(i) => BothConsented(i)'
      BY <1>3, <1>4 DEF BothConsented
    <3>3. QED BY <1>3, <3>1, <3>2 DEF Backed
  <2>5. QED BY <2>2, <2>3, <2>4
<1>6. CASE t.role = "PLAYER"
  <2>1. Party(i, "PLAYER")' \in endorsed'[i] BY <1>2, <1>6
  <2>2. CASE s = "WAITING_ON_CHILD"
    <3>1. Advance(t.role, s) = "APPROVED" BY <1>6, <2>2 DEF Advance
    <3>2. Party(i, "PARENT")' \in endorsed'[i] BY <1>3, <2>2 DEF Backed
    <3>3. BothConsented(i)' BY <1>4, <2>1, <3>2 DEF BothConsented
    <3>4. QED BY <3>1, <3>3 DEF Backed
  <2>3. CASE s = "PENDING"
    <3>1. Advance(t.role, s) = "WAITING_ON_PARENT" BY <1>6, <2>3 DEF Advance
    <3>2. QED BY <2>1, <3>1 DEF Backed
  <2>4. CASE s \notin {"WAITING_ON_CHILD", "PENDING"}
    <3>1. Advance(t.role, s) = s BY <1>6, <2>4 DEF Advance
    <3>2. BothConsented(i) => BothConsented(i)'
      BY <1>3, <1>4 DEF BothConsented
    <3>3. QED BY <1>3, <3>1, <3>2 DEF Backed
  <2>5. QED BY <2>2, <2>3, <2>4
<1>7. QED BY <1>1, <1>5, <1>6

LEMMA ApprovePreserves ==
  ASSUME Inductive, Grows, NEW w \in Workers, Approve(w)
  PROVE  RequestsBacked' /\ JobsBacked' /\ LinksAgreed'
<1>1. PICK t \in Tokens, i \in RequestIds : ApproveAs(w, t, i)
  BY DEF Approve
<1>2. /\ t \in Principal /\ requests[i] # NoRequest /\ requests' = requests
      /\ endorsed' = [endorsed EXCEPT ![i] = @ \cup {t}]
      /\ MayApprove(t, requests[i])
  BY <1>1 DEF ApproveAs, Tokens
<1>3. RequestsBacked'
  BY <1>2, RowsStayBacked DEF Inductive, TypeOK
<1>4. LinksAgreed' BY <1>1, LinksStayAgreed DEF Inductive, ApproveAs, users
<1>5. PICK s : s = requests[i].status OBVIOUS
<1>6. Backed(i, s)
  BY <1>2, <1>5 DEF Inductive, RequestsBacked
<1>7. Backed(i, Advance(t.role, s))'
  BY <1>2, <1>6, AdvanceBacked DEF Inductive, TypeOK
<1>8. \A v \in Workers \ {w} : job'[v] = job[v]
  BY <1>1 DEF ApproveAs, ProcessAs, Inductive, TypeOK
<1>9. ASSUME NEW j, j = job'[w] PROVE JobBacked(j)'
  <2>1. PICK a : a = Advance(t.role, s) OBVIOUS
  <2>2. /\ j.step = IF a = "APPROVED" THEN "readParentLinks" ELSE "saveStatus"
        /\ j.id = i /\ j.status = a
        /\ j.parent = requests[i].parent /\ j.child = requests[i].child
    BY <1>1, <1>5, <1>9, <2>1 DEF ApproveAs, ProcessAs, Inductive, TypeOK
  <2>3. (j.id \in RequestsOf(j.parent, j.child))'
    BY <1>2, <2>2 DEF RequestsOf
  <2>4. Backed(j.id, j.status)' BY <1>7, <2>1, <2>2
  <2>5. QED
    BY <2>2, <2>3, <2>4 DEF JobBacked, ProcessBacked, LinkSteps, CreateSteps
<1>10. QED BY <1>3, <1>4, <1>8, <1>9, OneWorkerActs DEF Inductive

(* What is known of a worker that has decided to link.                     *)
LEMMA LinkFacts ==
  ASSUME Inductive, NEW w \in Workers, NEW k, k = job[w],
         k.step \in LinkSteps \cup {"saveStatus"}
  PROVE  /\ k \in ProcessJob /\ JobBacked(k) /\ ProcessBacked(k)
         /\ k.step \in LinkSteps => Agreed(k.parent, k.child)
<1>1. k \in ProcessJob BY JobKinds DEF Inductive, TypeOK
<1>2. JobBacked(k) BY DEF Inductive, JobsBacked
<1>3. ProcessBacked(k) BY <1>2 DEF JobBacked
<1>4. QED BY <1>1, <1>2, <1>3 DEF ProcessBacked, Backed, Agreed

LEMMA ReadLinksPreserves ==
  ASSUME Inductive, Grows, NEW w \in Workers,
         ReadParentLinks(w) \/ ReadChildLinks(w)
  PROVE  RequestsBacked' /\ JobsBacked' /\ LinksAgreed'
<1>1. RequestsBacked' /\ LinksAgreed'
  BY RowsStayBacked, LinksStayAgreed
  DEF Inductive, ReadParentLinks, ReadChildLinks, users
<1>2. PICK k : k = job[w] OBVIOUS
<1>3. /\ k \in ProcessJob /\ ProcessBacked(k) /\ Agreed(k.parent, k.child)
      /\ k.step \in LinkSteps
  BY <1>2, LinkFacts DEF ReadParentLinks, ReadChildLinks, LinkSteps
<1>4. ProcessBacked(k)' /\ Agreed(k.parent, k.child)'
  BY <1>3, ProcessBackedStays, AgreementStays
<1>5. \A v \in Workers \ {w} : job'[v] = job[v]
  BY DEF Inductive, TypeOK, ReadParentLinks, ReadChildLinks, Go
<1>6. ASSUME NEW j, j = job'[w] PROVE JobBacked(j)'
  <2>1. /\ j.id = k.id /\ j.status = k.status
        /\ j.parent = k.parent /\ j.child = k.child
    BY <1>2, <1>3, <1>6
    DEF Inductive, TypeOK, ReadParentLinks, ReadChildLinks, Go, ProcessJob
  <2>2. \/ j.step \in {"readChildLinks", "saveStatus"}
        \/ /\ j.step = "saveParentLinks"
           /\ j.arr = childPlayerIds[k.parent] \cup {k.child}
        \/ /\ j.step = "saveChildLinks"
           /\ j.arr = parentIds[k.child] \cup {k.parent}
    BY <1>2, <1>3, <1>6
    DEF Inductive, TypeOK, ReadParentLinks, ReadChildLinks, Go, ProcessJob
  <2>3. k.parent \in Users /\ k.child \in Users BY <1>3 DEF ProcessJob
  <2>4. /\ \A c \in childPlayerIds[k.parent] : Agreed(k.parent, c)'
        /\ \A p \in parentIds[k.child] : Agreed(p, k.child)'
    BY <2>3, AgreementStays DEF Inductive, TypeOK, LinksAgreed
  <2>5. (j.id \in RequestsOf(j.parent, j.child))' /\ Backed(j.id, j.status)'
    BY <1>4, <2>1 DEF ProcessBacked
  <2>6. j.status = "APPROVED" BY <1>3, <2>1 DEF ProcessBacked
  <2>7. /\ j.step = "saveParentLinks" => \A c \in j.arr : Agreed(j.parent, c)'
        /\ j.step = "saveChildLinks" => \A p \in j.arr : Agreed(p, j.child)'
    BY <1>4, <2>1, <2>2, <2>4
  <2>8. ProcessBacked(j)' BY <2>5, <2>6, <2>7 DEF ProcessBacked
  <2>9. QED BY <2>2, <2>8 DEF JobBacked, CreateSteps
<1>7. QED BY <1>1, <1>5, <1>6, OneWorkerActs DEF Inductive

LEMMA SaveLinksPreserves ==
  ASSUME Inductive, Grows, NEW w \in Workers,
         SaveParentLinks(w) \/ SaveChildLinks(w)
  PROVE  RequestsBacked' /\ JobsBacked' /\ LinksAgreed'
<1>1. RequestsBacked'
  BY RowsStayBacked DEF Inductive, SaveParentLinks, SaveChildLinks
<1>2. PICK k : k = job[w] OBVIOUS
<1>3. /\ k \in ProcessJob /\ ProcessBacked(k)
      /\ k.step \in {"saveParentLinks", "saveChildLinks"}
  BY <1>2, LinkFacts DEF SaveParentLinks, SaveChildLinks, LinkSteps
<1>4. ProcessBacked(k)'
  BY <1>3, ProcessBackedStays
<1>5. LinksAgreed'
  <2>1. CASE SaveParentLinks(w)
    <3>1. childPlayerIds' = [childPlayerIds EXCEPT ![k.parent] = k.arr]
          /\ parentIds' = parentIds
      BY <1>2, <2>1 DEF SaveParentLinks
    <3>2. \A c \in k.arr : Agreed(k.parent, c)
      BY <1>2, <1>3, <2>1 DEF SaveParentLinks, ProcessBacked
    <3>3. QED
      BY <3>1, <3>2, AgreementStays DEF Inductive, LinksAgreed, TypeOK
  <2>2. CASE SaveChildLinks(w)
    <3>1. parentIds' = [parentIds EXCEPT ![k.child] = k.arr]
          /\ childPlayerIds' = childPlayerIds
      BY <1>2, <2>2 DEF SaveChildLinks
    <3>2. \A p \in k.arr : Agreed(p, k.child)
      BY <1>2, <1>3, <2>2 DEF SaveChildLinks, ProcessBacked
    <3>3. QED
      BY <3>1, <3>2, AgreementStays DEF Inductive, LinksAgreed, TypeOK
  <2>3. QED BY <2>1, <2>2
<1>6. \A v \in Workers \ {w} : job'[v] = job[v]
  BY DEF Inductive, TypeOK, SaveParentLinks, SaveChildLinks
<1>7. ASSUME NEW j, j = job'[w] PROVE JobBacked(j)'
  <2>1. /\ j.id = k.id /\ j.status = k.status
        /\ j.parent = k.parent /\ j.child = k.child
        /\ j.step \in {"readChildLinks", "saveStatus"}
    BY <1>2, <1>3, <1>7
    DEF Inductive, TypeOK, SaveParentLinks, SaveChildLinks, ProcessJob
  <2>2. k.status = "APPROVED" BY <1>3 DEF ProcessBacked, LinkSteps
  <2>3. QED
    BY <1>4, <2>1, <2>2 DEF JobBacked, ProcessBacked, CreateSteps
<1>8. QED BY <1>1, <1>5, <1>6, <1>7, OneWorkerActs DEF Inductive

LEMMA SaveStatusPreserves ==
  ASSUME Inductive, Grows, NEW w \in Workers, SaveStatus(w)
  PROVE  RequestsBacked' /\ JobsBacked' /\ LinksAgreed'
<1>1. LinksAgreed' BY LinksStayAgreed DEF Inductive, SaveStatus, users
<1>2. JobsBacked'
  BY OneWorkerActs, IdleBacked DEF Inductive, TypeOK, SaveStatus, Finish
<1>3. PICK k : k = job[w] OBVIOUS
<1>4. k \in ProcessJob /\ ProcessBacked(k)
  BY <1>3, LinkFacts DEF SaveStatus
<1>5. /\ k.id \in RequestIds /\ requests[k.id] # NoRequest
      /\ Backed(k.id, k.status)
  BY <1>4 DEF ProcessBacked, RequestsOf
<1>6. Backed(k.id, k.status)' BY <1>5, ConsentStays
<1>7. /\ \A i \in RequestIds \ {k.id} : requests'[i] = requests[i]
      /\ requests'[k.id] # NoRequest /\ requests'[k.id].status = k.status
  <2>1. requests[k.id] \in ConnectionRequest
    BY <1>5 DEF Inductive, TypeOK
  <2>2. PICK r : r = [requests[k.id] EXCEPT !.status = k.status] OBVIOUS
  <2>3. requests' = [requests EXCEPT ![k.id] = r]
    BY <1>3, <2>2 DEF SaveStatus
  <2>4. r.status = k.status /\ r # NoRequest
    BY <2>1, <2>2 DEF ConnectionRequest, NoRequest
  <2>5. QED BY <1>5, <2>3, <2>4 DEF Inductive, TypeOK
<1>8. endorsed' = endorsed BY DEF SaveStatus
<1>9. ASSUME NEW i \in RequestIds
      PROVE  (IF requests[i] = NoRequest THEN endorsed[i] = {}
              ELSE Backed(i, requests[i].status))'
  <2>1. CASE i = k.id
    <3>1. PICK s : s = k.status OBVIOUS
    <3>2. Backed(i, s)' BY <1>6, <2>1, <3>1
    <3>3. QED
      BY <1>7, <2>1, <3>1, <3>2 DEF Backed
  <2>2. CASE i # k.id
    <3>1. requests'[i] = requests[i] BY <1>7, <2>2
    <3>2. IF requests[i] = NoRequest THEN endorsed[i] = {}
          ELSE Backed(i, requests[i].status)
      BY DEF Inductive, RequestsBacked
    <3>3. QED BY <1>8, <3>1, <3>2 DEF Backed, BothConsented, Party
  <2>3. QED BY <2>1, <2>2
<1>10. QED BY <1>1, <1>2, <1>9 DEF RequestsBacked

LEMMA ProfilePreserves ==
  ASSUME Inductive, Grows, NEW w \in Workers, ReadProfile(w) \/ SaveProfile(w)
  PROVE  RequestsBacked' /\ JobsBacked' /\ LinksAgreed'
<1>1. RequestsBacked'
  BY RowsStayBacked DEF Inductive, ReadProfile, SaveProfile
<1>2. CASE ReadProfile(w)
  <2>1. LinksAgreed' BY <1>2, LinksStayAgreed DEF Inductive, ReadProfile, users
  <2>2. PICK u \in Users :
          job' = [job EXCEPT ![w] = [step |-> "saveProfile", user |-> u,
                                     role |-> role[u],
                                     children |-> childPlayerIds[u],
                                     parents |-> parentIds[u]]]
    BY <1>2 DEF ReadProfile
  <2>3. /\ \A c \in childPlayerIds[u] : Agreed(u, c)'
        /\ \A p \in parentIds[u] : Agreed(p, u)'
    BY AgreementStays DEF Inductive, TypeOK, LinksAgreed
  <2>4. ASSUME NEW j, j = job'[w] PROVE JobBacked(j)'
    <3>1. /\ j.step = "saveProfile" /\ j.user = u
          /\ j.children = childPlayerIds[u] /\ j.parents = parentIds[u]
      BY <2>2, <2>4 DEF Inductive, TypeOK
    <3>2. ProfileBacked(j)' BY <2>3, <3>1 DEF ProfileBacked
    <3>3. QED BY <3>1, <3>2 DEF JobBacked, CreateSteps, LinkSteps
  <2>5. \A v \in Workers \ {w} : job'[v] = job[v]
    BY <2>2 DEF Inductive, TypeOK
  <2>6. QED BY <1>1, <2>1, <2>4, <2>5, OneWorkerActs DEF Inductive
<1>3. CASE SaveProfile(w)
  <2>1. JobsBacked'
    BY <1>3, OneWorkerActs, IdleBacked DEF Inductive, TypeOK, SaveProfile, Finish
  <2>2. PICK k : k = job[w] OBVIOUS
  <2>3. ProfileBacked(k)
    BY <1>3, <2>2 DEF Inductive, JobsBacked, JobBacked, SaveProfile
  <2>4. /\ childPlayerIds' = [childPlayerIds EXCEPT ![k.user] = k.children]
        /\ parentIds' = [parentIds EXCEPT ![k.user] = k.parents]
    BY <1>3, <2>2 DEF SaveProfile
  <2>5. LinksAgreed'
    BY <2>3, <2>4, AgreementStays DEF Inductive, TypeOK, LinksAgreed, ProfileBacked
  <2>6. QED BY <1>1, <2>1, <2>5
<1>4. QED BY <1>2, <1>3

LEMMA KillPreserves ==
  ASSUME Inductive, Grows, NEW w \in Workers, Kill(w) \/ RefuseProfile(w)
  PROVE  RequestsBacked' /\ JobsBacked' /\ LinksAgreed'
  BY RowsStayBacked, LinksStayAgreed, OneWorkerActs, IdleBacked
  DEF Inductive, TypeOK, Kill, RefuseProfile, Finish, users

LEMMA RolePreserves ==
  ASSUME Inductive, Grows, NEW u \in Users, NEW r \in AssignedRoles, UpdateRole(u, r)
  PROVE  RequestsBacked' /\ JobsBacked' /\ LinksAgreed'
<1>1. RequestsBacked' /\ LinksAgreed'
  BY RowsStayBacked, LinksStayAgreed DEF Inductive, UpdateRole
<1>2. JobsBacked' BY JobBackedStays DEF Inductive, JobsBacked, UpdateRole
<1>3. QED BY <1>1, <1>2

LEMMA InitInductive ==
  ASSUME Init PROVE Inductive
<1>1. TypeOK BY InitTypeOK
<1>2. JobsBacked BY IdleBacked DEF Init, JobsBacked
<1>3. QED BY <1>1, <1>2 DEF Init, Inductive, RequestsBacked, LinksAgreed

LEMMA NextInductive ==
  ASSUME Inductive, [Next]_vars PROVE Inductive'
<1>1. TypeOK' BY NextTypeOK DEF Inductive
<1>2. Grows BY NextGrows
<1>3. RequestsBacked' /\ JobsBacked' /\ LinksAgreed'
  <2>1. ASSUME NEW w \in Workers, Begin(w)
        PROVE  RequestsBacked' /\ JobsBacked' /\ LinksAgreed'
    BY <1>2, <2>1, CreatePreserves, ApprovePreserves, RejectPreserves,
       ProfilePreserves DEF Begin
  <2>2. ASSUME NEW w \in Workers, Step(w)
        PROVE  RequestsBacked' /\ JobsBacked' /\ LinksAgreed'
    BY <1>2, <2>2, CreatePreserves, InsertPreserves, ReadLinksPreserves,
       SaveLinksPreserves, SaveStatusPreserves, ProfilePreserves, KillPreserves DEF Step
  <2>3. CASE UNCHANGED vars
    <3>1. RequestsBacked' /\ LinksAgreed'
      BY <1>2, <2>3, RowsStayBacked, LinksStayAgreed DEF Inductive, vars
    <3>2. JobsBacked' BY <1>2, <2>3, JobBackedStays DEF Inductive, JobsBacked, vars
    <3>3. QED BY <3>1, <3>2
  <2>4. QED BY <1>2, <2>1, <2>2, <2>3, KillPreserves, RolePreserves DEF Next
<1>4. QED BY <1>1, <1>3 DEF Inductive

(* Whatever the interleaving of handlers, kills and role changes, the      *)
(* statuses in the table and in the memory of workers are backed by        *)
(* consent.                                                                *)
THEOREM InductiveInvariant == Spec => []Inductive
  BY InitInductive, NextInductive, PTL DEF Spec

(* process_request approves nothing that one of the two parties has not    *)
(* initiated or approved, for any number of workers, users and requests.   *)
THEOREM ApprovalNeedsBoth == Spec => []ApprovedByBoth
<1>1. Inductive => ApprovedByBoth
  BY DEF Inductive, RequestsBacked, ApprovedByBoth, Backed
<1>2. QED BY <1>1, InductiveInvariant, PTL

(* Neither the linking nor a profile update that rewrites stale arrays     *)
(* ever lists as child or parent a user who did not agree to it.           *)
THEOREM LinksNeedAgreement == Spec => []LinksAgreed
<1>1. Inductive => LinksAgreed BY DEF Inductive
<1>2. QED BY <1>1, InductiveInvariant, PTL

-----------------------------------------------------------------------------
(* Refinement of LinkConsent *)

LEMMA InitRefines ==
  ASSUME Init PROVE Consent!Init
<1>1. PairMap = [i \in RequestIds |-> <<>>] BY DEF Init, PairMap
<1>2. ConsentMap = [i \in RequestIds |-> {}] BY DEF Init, ConsentMap, ConsentOf
<1>3. ApprovedMap = {} BY DEF Init, ApprovedMap, NoRequest
<1>4. QED BY <1>1, <1>2, <1>3 DEF Init, Consent!Init

(* Agreement means the same in both specifications.                        *)
LEMMA AgreedRefines ==
  ASSUME NEW p, NEW c, Agreed(p, c) PROVE Consent!Agreed(p, c)
<1>1. PICK i \in RequestsOf(p, c) : BothConsented(i) BY DEF Agreed
<1>2. i \in RequestIds /\ PairMap[i] = <<p, c>>
  BY DEF RequestsOf, PairMap
<1>3. ConsentMap[i] = {"PARENT", "PLAYER"}
  BY <1>1, <1>2 DEF RequestsOf, ConsentMap, ConsentOf, BothConsented
<1>4. QED BY <1>2, <1>3 DEF Consent!Agreed, Consent!Sides

LEMMA SameMaps ==
  ASSUME UNCHANGED <<requests, endorsed>>
  PROVE  UNCHANGED <<PairMap, ConsentMap, ApprovedMap>>
  BY DEF PairMap, ConsentMap, ConsentOf, Party, ApprovedMap

LEMMA InsertRefines ==
  ASSUME Inductive, NEW w \in Workers, InsertRequest(w) PROVE Consent!Next
<1>1. PICK i \in FreeIds :
        /\ requests' = [requests EXCEPT ![i] =
                          [parent |-> job[w].parent, child |-> job[w].child,
                           status |-> InitialStatus(job[w].by)]]
        /\ endorsed' = [endorsed EXCEPT ![i] = {job[w].by}]
  BY DEF InsertRequest
<1>2. i \in RequestIds /\ requests[i] = NoRequest BY DEF FreeIds
<1>3. job[w] \in CreateJob
  BY JobKinds DEF Inductive, TypeOK, InsertRequest, CreateSteps
<1>4. PICK p \in Users, c \in Users, t \in Principal :
        p = job[w].parent /\ c = job[w].child /\ t = job[w].by
  BY <1>3 DEF CreateJob
<1>5. /\ requests'[i] # NoRequest /\ requests'[i].parent = p /\ requests'[i].child = c
      /\ requests'[i].status = InitialStatus(t) /\ endorsed'[i] = {t}
      /\ \A k \in RequestIds \ {i} : requests'[k] = requests[k] /\ endorsed'[k] = endorsed[k]
  BY <1>1, <1>2, <1>4 DEF Inductive, TypeOK, NoRequest
<1>6. PairMap[i] = <<>> /\ PairMap' = [PairMap EXCEPT ![i] = <<p, c>>]
  BY <1>2, <1>5 DEF PairMap
<1>7. PICK sides : sides = ConsentOf(i)' OBVIOUS
<1>8. sides \in SUBSET {"PARENT", "PLAYER"} /\ sides # {"PARENT", "PLAYER"}
  BY <1>5, <1>7 DEF ConsentOf, Party
<1>9. ConsentMap' = [ConsentMap EXCEPT ![i] = sides]
  BY <1>2, <1>5, <1>7 DEF ConsentMap, ConsentOf, Party
<1>10. ApprovedMap' = ApprovedMap
  <2>1. InitialStatus(t) # "APPROVED" BY DEF InitialStatus
  <2>2. requests[i].status # "APPROVED" BY <1>2 DEF NoRequest
  <2>3. QED BY <1>5, <2>1, <2>2 DEF ApprovedMap
<1>11. Consent!Open(i, p, c, sides)
  BY <1>6, <1>8, <1>9, <1>10 DEF Consent!Open, Consent!Sides, InsertRequest, users
<1>12. QED BY <1>2, <1>8, <1>11 DEF Consent!Next, Consent!Sides

LEMMA ApproveRefines ==
  ASSUME Inductive, NEW w \in Workers, Approve(w) PROVE Consent!Next
<1>1. PICK t \in Tokens, i \in RequestIds : ApproveAs(w, t, i)
  BY DEF Approve
<1>2. /\ t \in Principal /\ requests[i] # NoRequest /\ requests' = requests
      /\ MayApprove(t, requests[i])
      /\ endorsed'[i] = endorsed[i] \cup {t}
      /\ \A k \in RequestIds \ {i} : endorsed'[k] = endorsed[k]
  BY <1>1 DEF ApproveAs, Tokens, Inductive, TypeOK
<1>3. t = Party(i, t.role) /\ t.role \in {"PARENT", "PLAYER"}
  BY <1>2 DEF Party, MayApprove, Principal
<1>4. ConsentOf(i)' = ConsentOf(i) \cup {t.role}
  BY <1>2, <1>3 DEF ConsentOf, Party
<1>5. ConsentMap' = [ConsentMap EXCEPT ![i] = @ \cup {t.role}]
  BY <1>2, <1>4 DEF ConsentMap, ConsentOf, Party
<1>6. PairMap' = PairMap /\ ApprovedMap' = ApprovedMap
  BY <1>2 DEF PairMap, ApprovedMap
<1>7. PairMap[i] # <<>> BY <1>2 DEF PairMap
<1>8. Consent!Consent(i, t.role)
  BY <1>1, <1>5, <1>6, <1>7 DEF Consent!Consent, ApproveAs, users
<1>9. QED BY <1>3, <1>8 DEF Consent!Next, Consent!Sides

LEMMA SaveStatusRefines ==
  ASSUME Inductive, NEW w \in Workers, SaveStatus(w) PROVE Consent!Next
<1>1. PICK k : k = job[w] OBVIOUS
<1>2. k \in ProcessJob /\ ProcessBacked(k)
  BY <1>1, LinkFacts DEF SaveStatus
<1>3. /\ k.id \in RequestIds /\ requests[k.id] # NoRequest
      /\ Backed(k.id, k.status)
  BY <1>2 DEF ProcessBacked, RequestsOf
<1>4. requests[k.id] \in ConnectionRequest
  BY <1>3 DEF Inductive, TypeOK
<1>5. PICK r : r = [requests[k.id] EXCEPT !.status = k.status] OBVIOUS
<1>6. /\ requests' = [requests EXCEPT ![k.id] = r] /\ endorsed' = endorsed
      /\ UNCHANGED <<childPlayerIds, parentIds>>
  BY <1>1, <1>5 DEF SaveStatus, users
<1>7. /\ r.status = k.status /\ r # NoRequest
      /\ r.parent = requests[k.id].parent /\ r.child = requests[k.id].child
  BY <1>4, <1>5 DEF ConnectionRequest, NoRequest
<1>8. PairMap' = PairMap
  BY <1>3, <1>6, <1>7 DEF PairMap, Inductive, TypeOK
<1>9. ConsentMap' = ConsentMap
  BY <1>3, <1>6, <1>7 DEF ConsentMap, ConsentOf, Party, Inductive, TypeOK
<1>10. CASE k.status = "APPROVED"
  <2>1. ApprovedMap' = ApprovedMap \cup {k.id}
    BY <1>3, <1>6, <1>7, <1>10 DEF ApprovedMap, Inductive, TypeOK
  <2>2. ConsentMap[k.id] = {"PARENT", "PLAYER"}
    BY <1>3, <1>10 DEF Backed, BothConsented, ConsentMap, ConsentOf
  <2>3. Consent!SaveApproved(k.id)
    BY <1>6, <1>8, <1>9, <2>1, <2>2 DEF Consent!SaveApproved, Consent!Sides
  <2>4. QED BY <1>3, <2>3 DEF Consent!Next
<1>11. CASE k.status # "APPROVED"
  <2>1. ApprovedMap' = ApprovedMap \ {k.id}
    BY <1>3, <1>6, <1>7, <1>11 DEF ApprovedMap, Inductive, TypeOK
  <2>2. Consent!SaveNotApproved(k.id)
    BY <1>6, <1>8, <1>9, <2>1 DEF Consent!SaveNotApproved
  <2>3. QED BY <1>3, <2>2 DEF Consent!Next
<1>12. QED BY <1>10, <1>11

(* Saving one of the arrays, or both, of one user.                         *)
LEMMA RewriteRefines ==
  ASSUME Inductive, Inductive', UNCHANGED <<requests, endorsed>>,
         NEW u \in Users, NEW cs \in SUBSET Users, NEW ps \in SUBSET Users,
         childPlayerIds' = [childPlayerIds EXCEPT ![u] = cs],
         parentIds' = [parentIds EXCEPT ![u] = ps]
  PROVE  Consent!Next
<1>1. \A c \in cs : Agreed(u, c)'
  BY DEF Inductive, TypeOK, LinksAgreed
<1>2. \A p \in ps : Agreed(p, u)'
  BY DEF Inductive, TypeOK, LinksAgreed
<1>3. \A p, c : Agreed(p, c)' => Agreed(p, c)
  BY DEF Agreed, RequestsOf, BothConsented, Party
<1>4. Consent!Rewrite(u, cs, ps)
  BY <1>1, <1>2, <1>3, AgreedRefines, SameMaps DEF Consent!Rewrite
<1>5. QED BY <1>4 DEF Consent!Next

LEMMA SaveLinksRefines ==
  ASSUME Inductive, Inductive', NEW w \in Workers,
         SaveParentLinks(w) \/ SaveChildLinks(w) \/ SaveProfile(w)
  PROVE  Consent!Next
<1>1. UNCHANGED <<requests, endorsed>>
  BY DEF SaveParentLinks, SaveChildLinks, SaveProfile
<1>2. CASE SaveParentLinks(w)
  <2>1. job[w] \in ProcessJob
    BY <1>2, JobKinds DEF Inductive, TypeOK, SaveParentLinks, LinkSteps
  <2>2. /\ childPlayerIds' = [childPlayerIds EXCEPT ![job[w].parent] = job[w].arr]
        /\ parentIds' = [parentIds EXCEPT ![job[w].parent] = parentIds[job[w].parent]]
    BY <1>2, <2>1 DEF SaveParentLinks, Inductive, TypeOK, ProcessJob
  <2>3. /\ job[w].parent \in Users /\ job[w].arr \in SUBSET Users
        /\ parentIds[job[w].parent] \in SUBSET Users
    BY <2>1 DEF Inductive, TypeOK, ProcessJob
  <2>4. QED BY <1>1, <2>2, <2>3, RewriteRefines
<1>3. CASE SaveChildLinks(w)
  <2>1. job[w] \in ProcessJob
    BY <1>3, JobKinds DEF Inductive, TypeOK, SaveChildLinks, LinkSteps
  <2>2. /\ parentIds' = [parentIds EXCEPT ![job[w].child] = job[w].arr]
        /\ childPlayerIds' =
             [childPlayerIds EXCEPT ![job[w].child] = childPlayerIds[job[w].child]]
    BY <1>3, <2>1 DEF SaveChildLinks, Inductive, TypeOK, ProcessJob
  <2>3. /\ job[w].child \in Users /\ job[w].arr \in SUBSET Users
        /\ childPlayerIds[job[w].child] \in SUBSET Users
    BY <2>1 DEF Inductive, TypeOK, ProcessJob
  <2>4. QED BY <1>1, <2>2, <2>3, RewriteRefines
<1>4. CASE SaveProfile(w)
  <2>1. job[w] \in ProfileJob
    BY <1>4, JobKinds DEF Inductive, TypeOK, SaveProfile
  <2>2. QED BY <1>1, <1>4, <2>1, RewriteRefines DEF SaveProfile, ProfileJob
<1>5. QED BY <1>2, <1>3, <1>4

LEMMA StepRefines ==
  ASSUME Inductive, Inductive', [Next]_vars
  PROVE  [Consent!Next]_(Consent!vars)
<1>1. CASE UNCHANGED <<childPlayerIds, parentIds, requests, endorsed>>
  BY <1>1, SameMaps DEF Consent!vars
<1>2. CASE \E w \in Workers :
             \/ InsertRequest(w) \/ Approve(w) \/ SaveStatus(w)
             \/ SaveParentLinks(w) \/ SaveChildLinks(w) \/ SaveProfile(w)
  BY <1>2, InsertRefines, ApproveRefines, SaveStatusRefines, SaveLinksRefines
<1>3. QED
  BY <1>1, <1>2
  DEF Next, Begin, Step, CreateRequest, ReadChild, FindExisting, NoIdLeft, Reject,
      ReadParentLinks, ReadChildLinks, ReadProfile, RefuseProfile, Kill, UpdateRole, users, vars

(* The handlers keep the promise of LinkConsent: in particular a row of    *)
(* links is only ever rewritten with pairs that had agreed, and consent    *)
(* is never taken from one request to another.                             *)
THEOREM Refinement == Spec => ImplementsConsent
<1>1. Inductive /\ Inductive' /\ [Next]_vars => [Consent!Next]_(Consent!vars)
  BY StepRefines
<1>2. QED
  BY <1>1, InitRefines, InductiveInvariant, PTL
  DEF Spec, ImplementsConsent, Consent!Spec

-----------------------------------------------------------------------------
(* A single worker                                                         *)

OneWorker == \A v, w \in Workers : v = w

Fresh(j) == FreshLinks(j) /\ FreshStatus(j) /\ FreshProfile(j)

(* Requests do not overlap: only what the one worker remembers is to be    *)
(* shown fresh.                                                            *)
LEMMA OneJob ==
  ASSUME OneWorker, NEW w \in Workers, \A j : j = job'[w] => Fresh(j)'
  PROVE  AllFresh'
<1> SUFFICES ASSUME NEW v \in Workers, NEW j, j = job'[v]
             PROVE  FreshLinks(j)' /\ FreshStatus(j)' /\ FreshProfile(j)'
  BY DEF AllFresh
<1>1. j = job'[w] BY DEF OneWorker
<1>2. QED BY <1>1 DEF Fresh

(* A job that neither links nor saves has nothing to keep fresh.           *)
LEMMA NothingToKeep ==
  ASSUME NEW j, j.step \in {"idle"} \cup CreateSteps
  PROVE  Fresh(j)'
BY DEF CreateSteps, LinkSteps, Fresh, FreshLinks, FreshStatus, FreshProfile

LEMMA IdleFresh == ASSUME NEW w \in Workers, Serial, Finish(w)
                   PROVE  \A j : j = job'[w] => Fresh(j)'
<1> SUFFICES ASSUME NEW j, j = job'[w] PROVE Fresh(j)' OBVIOUS
<1>1. j = Idle BY DEF Serial, Inductive, TypeOK, Finish
<1>2. j.step = "idle" BY <1>1 DEF Idle
<1>3. QED BY <1>2, NothingToKeep

LEMMA RowsStaySerial ==
  ASSUME Serial, UNCHANGED <<childPlayerIds, parentIds, requests>>
  PROVE  ApprovedLinked' /\ ChildListedFirst'
BY DEF Serial, ApprovedLinked, ChildListedFirst

LEMMA InitSerial == ASSUME Init PROVE Serial
<1>1. Inductive BY InitInductive
<1>2. ApprovedLinked /\ ChildListedFirst BY DEF Init, ApprovedLinked, ChildListedFirst
<1>3. AllFresh
  BY DEF Init, AllFresh, Idle, LinkSteps, FreshLinks, FreshStatus, FreshProfile
<1>4. QED BY <1>1, <1>2, <1>3 DEF Serial

LEMMA CreateSerial ==
  ASSUME OneWorker, Serial, NEW w \in Workers,
         \/ CreateRequest(w) \/ ReadChild(w) \/ FindExisting(w) \/ NoIdLeft(w)
         \/ RefuseProfile(w) \/ Kill(w)
  PROVE  ApprovedLinked' /\ ChildListedFirst' /\ AllFresh'
<1>1. ApprovedLinked' /\ ChildListedFirst'
  BY RowsStaySerial
  DEF CreateRequest, ReadChild, FindExisting, NoIdLeft, RefuseProfile, Kill, users
<1>2. CASE CreateRequest(w)
  <2>1. PICK t \in Tokens, p \in Users, c \in Users :
          job' = [job EXCEPT ![w] = [step |-> "readChild", by |-> t,
                                     parent |-> p, child |-> c]]
    BY <1>2 DEF CreateRequest
  <2>2. \A j : j = job'[w] => j.step = "readChild"
    BY <2>1 DEF Serial, Inductive, TypeOK
  <2>3. QED BY <1>1, <2>2, OneJob, NothingToKeep DEF CreateSteps
<1>3. CASE Finish(w) BY <1>1, <1>3, IdleFresh, OneJob
<1>4. CASE \E next \in {"findExisting", "insert"} : job[w].step \in CreateSteps /\ Go(w, next)
  <2>1. PICK next \in {"findExisting", "insert"} : job[w].step \in CreateSteps /\ Go(w, next)
    BY <1>4
  <2>2. PICK k \in CreateJob : k = job[w]
    BY <2>1, JobKinds DEF Serial, Inductive, TypeOK
  <2>3. \A j : j = job'[w] => j.step = next
    BY <2>1, <2>2 DEF Go, Serial, Inductive, TypeOK, CreateJob
  <2>4. QED BY <1>1, <2>3, OneJob, NothingToKeep DEF CreateSteps
<1>5. QED
  BY <1>2, <1>3, <1>4
  DEF ReadChild, FindExisting, NoIdLeft, RefuseProfile, Kill, CreateSteps

LEMMA Stays ==
  ASSUME Serial, NEW i \in RequestIds, requests[i] # NoRequest => requests'[i] = requests[i]
  PROVE  MovesForward(i)
BY DEF Serial, Inductive, TypeOK, ConnectionRequest, MovesForward, Forward

LEMMA InsertSerial ==
  ASSUME OneWorker, Serial, NEW w \in Workers, InsertRequest(w)
  PROVE  /\ ApprovedLinked' /\ ChildListedFirst' /\ AllFresh'
         /\ \A i \in RequestIds : MovesForward(i)
<1>1. PICK i \in FreeIds :
        requests' = [requests EXCEPT ![i] =
                       [parent |-> job[w].parent, child |-> job[w].child,
                        status |-> InitialStatus(job[w].by)]]
  BY DEF InsertRequest
<1>2. i \in RequestIds /\ requests[i] = NoRequest BY DEF FreeIds
<1>3. InitialStatus(job[w].by) # "APPROVED" BY DEF InitialStatus
<1>4. /\ \A k \in RequestIds : requests[k] # NoRequest => requests'[k] = requests[k]
      /\ \A k \in RequestIds : requests'[k] # NoRequest /\ requests'[k].status = "APPROVED"
           => requests[k] # NoRequest /\ requests'[k] = requests[k]
  BY <1>1, <1>2, <1>3 DEF Serial, Inductive, TypeOK
<1>5. ApprovedLinked' /\ ChildListedFirst'
  BY <1>4 DEF InsertRequest, users, Serial, ApprovedLinked, ChildListedFirst
<1>6. AllFresh' BY IdleFresh, OneJob DEF InsertRequest
<1>7. ASSUME NEW k \in RequestIds PROVE MovesForward(k) BY <1>4, Stays
<1>8. QED BY <1>5, <1>6, <1>7

LEMMA BeginProcessSerial ==
  ASSUME OneWorker, Serial, NEW w \in Workers, Approve(w) \/ Reject(w)
  PROVE  ApprovedLinked' /\ ChildListedFirst' /\ AllFresh'
<1>1. requests' = requests /\ ApprovedLinked' /\ ChildListedFirst'
  BY RowsStaySerial DEF Approve, ApproveAs, Reject, users
<1>2. PICK i \in RequestIds, a \in ConnectionStatus, step \in {"readParentLinks", "saveStatus"} :
        /\ ProcessAs(w, step, i, a)
        /\ step = IF a = "APPROVED" THEN "readParentLinks" ELSE "saveStatus"
        /\ Forward(requests[i].status, a)
  <2>1. CASE Reject(w) BY <2>1 DEF Reject, ConnectionStatus, Forward
  <2>2. CASE Approve(w)
    <3>1. PICK t \in Tokens, i \in RequestIds : ApproveAs(w, t, i) BY <2>2 DEF Approve
    <3>2. PICK a : a = Advance(t.role, requests[i].status) OBVIOUS
    <3>3. t.role \in UserRole /\ requests[i].status \in ConnectionStatus
      BY <3>1 DEF Tokens, Principal, ApproveAs, Serial, Inductive, TypeOK, ConnectionRequest
    <3>4. a \in ConnectionStatus BY <3>2, <3>3, StatusTypes
    <3>5. Forward(requests[i].status, a) BY <3>2 DEF Advance, Forward
    <3>6. ProcessAs(w, IF a = "APPROVED" THEN "readParentLinks" ELSE "saveStatus", i, a)
      BY <3>1, <3>2 DEF ApproveAs
    <3>7. QED BY <3>4, <3>5, <3>6
  <2>3. QED BY <2>1, <2>2
<1>3. ASSUME NEW j, j = job'[w] PROVE Fresh(j)'
  <2>1. j.step = step /\ j.id = i /\ j.status = a
    BY <1>2, <1>3 DEF ProcessAs, Serial, Inductive, TypeOK
  <2>2. FreshStatus(j)' BY <1>1, <1>2, <2>1 DEF FreshStatus
  <2>3. QED BY <1>2, <2>1, <2>2 DEF Fresh, FreshLinks, FreshProfile
<1>4. QED BY <1>1, <1>3, OneJob

LEMMA LinkStepsSerial ==
  ASSUME OneWorker, Serial, NEW w \in Workers,
         ReadParentLinks(w) \/ SaveParentLinks(w) \/ ReadChildLinks(w) \/ SaveChildLinks(w)
  PROVE  ApprovedLinked' /\ ChildListedFirst' /\ AllFresh'
<1>1. PICK k : k = job[w] OBVIOUS
<1>2. /\ k \in ProcessJob /\ k.status = "APPROVED" /\ k.step \in LinkSteps
      /\ k.parent \in Users /\ k.child \in Users
      /\ FreshLinks(k) /\ FreshStatus(k)
  BY <1>1, LinkFacts
  DEF Serial, AllFresh, ProcessBacked, LinkSteps, ProcessJob,
      ReadParentLinks, SaveParentLinks, ReadChildLinks, SaveChildLinks
<1>3. requests' = requests
  BY DEF ReadParentLinks, SaveParentLinks, ReadChildLinks, SaveChildLinks
<1>4. ASSUME NEW j, j = job'[w]
      PROVE  /\ j.id = k.id /\ j.status = k.status
             /\ j.parent = k.parent /\ j.child = k.child
             /\ j.step \in {"saveParentLinks", "readChildLinks", "saveChildLinks", "saveStatus"}
  BY <1>1, <1>2, <1>4
  DEF Serial, Inductive, TypeOK, ReadParentLinks, SaveParentLinks, ReadChildLinks,
      SaveChildLinks, Go, ProcessJob
<1>5. ASSUME NEW j, j = job'[w], FreshLinks(j)' PROVE Fresh(j)'
  <2>1. FreshStatus(j)' BY <1>2, <1>3, <1>4, <1>5 DEF FreshStatus
  <2>2. FreshProfile(j)' BY <1>4, <1>5 DEF FreshProfile
  <2>3. QED BY <1>5, <2>1, <2>2 DEF Fresh
<1>6. CASE ReadParentLinks(w)
  <2>1. ASSUME NEW j, j = job'[w] PROVE FreshLinks(j)'
    <3>1. \/ j.step = "readChildLinks" /\ k.child \in childPlayerIds[k.parent]
          \/ /\ j.step = "saveParentLinks"
             /\ j.arr = childPlayerIds[k.parent] \cup {k.child}
      BY <1>1, <1>2, <1>6, <2>1
      DEF Serial, Inductive, TypeOK, ReadParentLinks, Go, ProcessJob
    <3>2. QED BY <1>4, <1>6, <2>1, <3>1 DEF FreshLinks, ReadParentLinks, users
  <2>2. QED BY <1>5, <1>6, <2>1, OneJob, RowsStaySerial DEF ReadParentLinks, users
<1>7. CASE SaveParentLinks(w)
  <2>1. /\ childPlayerIds' = [childPlayerIds EXCEPT ![k.parent] = @ \cup {k.child}]
        /\ parentIds' = parentIds
    BY <1>1, <1>2, <1>7 DEF SaveParentLinks, FreshLinks, Serial, Inductive, TypeOK
  <2>2. /\ \A p \in Users : childPlayerIds[p] \subseteq childPlayerIds'[p]
        /\ k.child \in childPlayerIds'[k.parent]
    BY <1>2, <2>1 DEF Serial, Inductive, TypeOK
  <2>3. ApprovedLinked'
    <3>1. \A i \in RequestIds : requests[i] # NoRequest => requests[i].parent \in Users
      BY DEF Serial, Inductive, TypeOK, ConnectionRequest
    <3>2. QED BY <1>3, <2>1, <2>2, <3>1 DEF Serial, ApprovedLinked
  <2>4. ChildListedFirst' BY <2>1, <2>2 DEF Serial, ChildListedFirst
  <2>5. ASSUME NEW j, j = job'[w] PROVE FreshLinks(j)'
    <3>1. j.step = "readChildLinks"
      BY <1>1, <1>2, <1>7, <2>5 DEF Serial, Inductive, TypeOK, SaveParentLinks, ProcessJob
    <3>2. QED BY <1>4, <2>2, <2>5, <3>1 DEF FreshLinks
  <2>6. QED BY <1>5, <2>3, <2>4, <2>5, OneJob
<1>8. CASE ReadChildLinks(w)
  <2>1. k.child \in childPlayerIds[k.parent]
    BY <1>1, <1>2, <1>8 DEF ReadChildLinks, FreshLinks
  <2>2. ASSUME NEW j, j = job'[w] PROVE FreshLinks(j)'
    <3>1. \/ j.step = "saveStatus" /\ k.parent \in parentIds[k.child]
          \/ /\ j.step = "saveChildLinks"
             /\ j.arr = parentIds[k.child] \cup {k.parent}
      BY <1>1, <1>2, <1>8, <2>2
      DEF Serial, Inductive, TypeOK, ReadChildLinks, Go, ProcessJob
    <3>2. QED BY <1>4, <1>8, <2>1, <2>2, <3>1 DEF FreshLinks, Linked, ReadChildLinks, users
  <2>3. QED BY <1>5, <1>8, <2>2, OneJob, RowsStaySerial DEF ReadChildLinks, users
<1>9. CASE SaveChildLinks(w)
  <2>1. k.child \in childPlayerIds[k.parent]
    BY <1>1, <1>2, <1>9 DEF SaveChildLinks, FreshLinks
  <2>2. /\ parentIds' = [parentIds EXCEPT ![k.child] = @ \cup {k.parent}]
        /\ childPlayerIds' = childPlayerIds
    BY <1>1, <1>2, <1>9 DEF SaveChildLinks, FreshLinks, Serial, Inductive, TypeOK
  <2>3. /\ \A c \in Users : parentIds[c] \subseteq parentIds'[c]
        /\ k.parent \in parentIds'[k.child]
        /\ \A c, p \in Users : p \in parentIds'[c] =>
             p \in parentIds[c] \/ (c = k.child /\ p = k.parent)
    BY <1>2, <2>2 DEF Serial, Inductive, TypeOK
  <2>4. ApprovedLinked'
    <3>1. \A i \in RequestIds : requests[i] # NoRequest => requests[i].child \in Users
      BY DEF Serial, Inductive, TypeOK, ConnectionRequest
    <3>2. QED BY <1>3, <2>2, <2>3, <3>1 DEF Serial, ApprovedLinked
  <2>5. ChildListedFirst' BY <2>1, <2>2, <2>3 DEF Serial, ChildListedFirst
  <2>6. ASSUME NEW j, j = job'[w] PROVE FreshLinks(j)'
    <3>1. j.step = "saveStatus"
      BY <1>1, <1>2, <1>9, <2>6 DEF Serial, Inductive, TypeOK, SaveChildLinks, ProcessJob
    <3>2. QED BY <1>4, <2>1, <2>2, <2>3, <2>6, <3>1 DEF FreshLinks, Linked
  <2>7. QED BY <1>5, <2>4, <2>5, <2>6, OneJob
<1>10. QED BY <1>6, <1>7, <1>8, <1>9

LEMMA SaveStatusSerial ==
  ASSUME OneWorker, Serial, NEW w \in Workers, SaveStatus(w)
  PROVE  /\ ApprovedLinked' /\ ChildListedFirst' /\ AllFresh'
         /\ \A i \in RequestIds : MovesForward(i)
<1>1. PICK k : k = job[w] OBVIOUS
<1>2. /\ k \in ProcessJob /\ k.id \in RequestIds /\ requests[k.id] # NoRequest
      /\ requests[k.id].parent = k.parent /\ requests[k.id].child = k.child
      /\ requests[k.id] \in ConnectionRequest /\ k.step = "saveStatus"
      /\ FreshLinks(k) /\ FreshStatus(k)
  BY <1>1, LinkFacts
  DEF Serial, Inductive, TypeOK, AllFresh, ProcessBacked, RequestsOf, SaveStatus
<1>3. PICK r : /\ r = [requests[k.id] EXCEPT !.status = k.status]
               /\ requests' = [requests EXCEPT ![k.id] = r]
  BY <1>1, <1>2 DEF SaveStatus
<1>4. /\ r.parent = k.parent /\ r.child = k.child /\ r.status = k.status
      /\ k.status = requests[k.id].status => r = requests[k.id]
  BY <1>2, <1>3 DEF ConnectionRequest
<1>5. /\ requests'[k.id] = r
      /\ \A i \in RequestIds \ {k.id} : requests'[i] = requests[i]
  BY <1>2, <1>3 DEF Serial, Inductive, TypeOK
<1>6. r.status = "APPROVED" => Linked(r.parent, r.child)
  BY <1>2, <1>4 DEF FreshLinks
<1>7. ApprovedLinked'
  <2>1. childPlayerIds' = childPlayerIds /\ parentIds' = parentIds BY DEF SaveStatus, users
  <2>2. QED BY <1>5, <1>6, <2>1 DEF Serial, ApprovedLinked, Linked
<1>8. ChildListedFirst' BY DEF SaveStatus, users, Serial, ChildListedFirst
<1>9. AllFresh' BY IdleFresh, OneJob DEF SaveStatus
<1>10. ASSUME NEW i \in RequestIds PROVE MovesForward(i)
  <2>1. CASE i = k.id
    <3>1. requests'[i] = [requests[i] EXCEPT !.status = requests'[i].status]
      BY <1>2, <1>3, <1>4, <1>5, <2>1
    <3>2. Forward(requests[i].status, requests'[i].status)
      BY <1>2, <1>4, <1>5, <2>1 DEF FreshStatus
    <3>3. QED BY <3>1, <3>2 DEF MovesForward
  <2>2. CASE i # k.id BY <1>5, <2>2, Stays
  <2>3. QED BY <2>1, <2>2
<1>11. QED BY <1>7, <1>8, <1>9, <1>10

LEMMA ProfileSerial ==
  ASSUME OneWorker, Serial, NEW w \in Workers, ReadProfile(w) \/ SaveProfile(w)
  PROVE  ApprovedLinked' /\ ChildListedFirst' /\ AllFresh'
<1>1. CASE ReadProfile(w)
  <2>1. PICK u \in Users :
          job' = [job EXCEPT ![w] = [step |-> "saveProfile", user |-> u,
                                     role |-> role[u],
                                     children |-> childPlayerIds[u],
                                     parents |-> parentIds[u]]]
    BY <1>1 DEF ReadProfile
  <2>2. ASSUME NEW j, j = job'[w] PROVE Fresh(j)'
    <3>1. /\ j.step = "saveProfile" /\ j.user = u
          /\ j.children = childPlayerIds[u] /\ j.parents = parentIds[u]
      BY <2>1, <2>2 DEF Serial, Inductive, TypeOK
    <3>2. QED
      BY <1>1, <3>1
      DEF ReadProfile, users, Fresh, FreshLinks, FreshStatus, FreshProfile, LinkSteps
  <2>3. QED BY <1>1, <2>2, OneJob, RowsStaySerial DEF ReadProfile, users
<1>2. CASE SaveProfile(w)
  <2>1. PICK k : k = job[w] OBVIOUS
  <2>2. k.children = childPlayerIds[k.user] /\ k.parents = parentIds[k.user]
    BY <1>2, <2>1 DEF Serial, AllFresh, FreshProfile, SaveProfile
  <2>3. UNCHANGED <<childPlayerIds, parentIds, requests>>
    BY <1>2, <2>1, <2>2 DEF SaveProfile, Serial, Inductive, TypeOK
  <2>4. AllFresh' BY <1>2, IdleFresh, OneJob DEF SaveProfile
  <2>5. QED BY <2>3, <2>4, RowsStaySerial
<1>3. QED BY <1>1, <1>2

LEMMA OthersSerial ==
  ASSUME Serial, UNCHANGED <<childPlayerIds, parentIds, requests, job>>
  PROVE  ApprovedLinked' /\ ChildListedFirst' /\ AllFresh'
BY RowsStaySerial DEF Serial, AllFresh, FreshLinks, FreshStatus, FreshProfile, Linked

LEMMA NextSerial ==
  ASSUME OneWorker, Serial, [Next]_vars
  PROVE  Serial'
<1>1. Inductive' BY NextInductive DEF Serial
<1>2. ASSUME NEW w \in Workers, Begin(w) \/ Step(w) \/ Kill(w)
      PROVE  ApprovedLinked' /\ ChildListedFirst' /\ AllFresh'
  <2>1. CASE Begin(w)
    BY <1>2, <2>1, CreateSerial, BeginProcessSerial, ProfileSerial DEF Begin
  <2>2. CASE Step(w)
    BY <1>2, <2>2, CreateSerial, InsertSerial, LinkStepsSerial, SaveStatusSerial,
       ProfileSerial DEF Step
  <2>3. QED BY <1>2, <2>1, <2>2, CreateSerial
<1>3. ASSUME (\E u \in Users, r \in AssignedRoles : UpdateRole(u, r)) \/ UNCHANGED vars
      PROVE  ApprovedLinked' /\ ChildListedFirst' /\ AllFresh'
  <2>1. UNCHANGED <<childPlayerIds, parentIds, requests, job>>
    BY <1>3 DEF UpdateRole, vars
  <2>2. QED BY <2>1, OthersSerial
<1>4. ApprovedLinked' /\ ChildListedFirst' /\ AllFresh'
  <2>1. \/ \E w \in Workers : Begin(w) \/ Step(w) \/ Kill(w)
        \/ (\E u \in Users, r \in AssignedRoles : UpdateRole(u, r)) \/ UNCHANGED vars
    BY DEF Next
  <2>2. QED BY <1>2, <1>3, <2>1
<1>5. QED BY <1>1, <1>4 DEF Serial

(* With one worker what a handler has read is still true when it writes,   *)
(* and the two links of a request are there before its status.             *)
THEOREM SerialInductive == ASSUME OneWorker PROVE Spec => []Serial
<1>1. Init => Serial BY InitSerial
<1>2. Serial /\ [Next]_vars => Serial' BY NextSerial
<1>3. QED BY <1>1, <1>2, PTL DEF Spec

(* With one worker, killed at any moment, an APPROVED request has both its *)
(* links.                                                                  *)
THEOREM SerialApprovalsLink == ASSUME OneWorker PROVE Spec => []ApprovedLinked
<1>1. Serial => ApprovedLinked BY DEF Serial
<1>2. QED BY <1>1, SerialInductive, PTL

(* With one worker a kill leaves the parent's half of a link at most.      *)
THEOREM SerialParentFirst == ASSUME OneWorker PROVE Spec => []ChildListedFirst
<1>1. Serial => ChildListedFirst BY DEF Serial
<1>2. QED BY <1>1, SerialInductive, PTL

(* With one worker a request keeps its parties and only moves forward; no  *)
(* approval and no save revives a rejected one.                            *)
THEOREM SerialRequestsForward == ASSUME OneWorker PROVE Spec => RequestsMoveForward
<1>1. ASSUME Serial, [Next]_vars
      PROVE  [\A i \in RequestIds : MovesForward(i)]_vars
  <2>1. ASSUME NEW w \in Workers, InsertRequest(w) \/ SaveStatus(w)
        PROVE  \A i \in RequestIds : MovesForward(i)
    BY <1>1, <2>1, InsertSerial, SaveStatusSerial
  <2>2. ASSUME UNCHANGED requests PROVE \A i \in RequestIds : MovesForward(i)
    BY <1>1, <2>2, Stays
  <2>3. QED
    BY <1>1, <2>1, <2>2
    DEF Next, Begin, Step, CreateRequest, ReadChild, FindExisting, NoIdLeft, Approve,
        ApproveAs, Reject, ReadParentLinks, SaveParentLinks, ReadChildLinks,
        SaveChildLinks, ReadProfile, SaveProfile, RefuseProfile, Kill, UpdateRole, vars
<1>2. QED BY <1>1, SerialInductive, PTL DEF Spec, RequestsMoveForward
=============================================================================
