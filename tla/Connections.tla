----------------------------- MODULE Connections -----------------------------
(***************************************************************************)
(* Parent/player linking: apps/connections/services.py, with the two       *)
(* handlers of apps/users/services.py that write the same rows             *)
(* (update_profile, update_role).                                          *)
(*                                                                         *)
(* gunicorn runs several worker processes against one PostgreSQL database. *)
(* A worker serves one request at a time; every ORM statement of these     *)
(* handlers commits by itself (autocommit, no ATOMIC_REQUESTS), so the     *)
(* steps of two handlers interleave at each statement.  job[w] is what the *)
(* handler running in worker w remembers from its earlier statements.      *)
(*                                                                         *)
(* A request that is refused before it has written anything changes no     *)
(* state; when the refusal follows from the first statement the request is *)
(* simply not begun.                                                       *)
(***************************************************************************)
EXTENDS Roles, FiniteSets

CONSTANTS
  Workers,          \* gunicorn worker processes
  Users,            \* rows of the users table
  InitialRole,      \* [Users -> UserRole]: the role each was created with
  ClubOf,           \* [Users -> club], never changed by a handler
  NoClub,           \* club_id NULL
  RequestIds,       \* primary keys of connection_requests
  AssignedRoles,    \* the roles update_role is called with
  Crashes           \* may a worker be killed in the middle of a request?

ASSUME ConnectionsAssumption ==
  /\ InitialRole \in [Users -> UserRole]
  /\ DOMAIN ClubOf = Users
  /\ RequestIds \subseteq Nat \ {0}
  /\ AssignedRoles \subseteq UserRole \ {"SUPER_ADMIN"}
  /\ Crashes \in BOOLEAN

VARIABLES
  role,             \* users.role
  childPlayerIds,   \* users.child_player_ids, an array used as a set
  parentIds,        \* users.parent_ids, an array used as a set
  requests,         \* the connection_requests table
  job,              \* what each worker is doing
  held,             \* history: the roles each user has had; an access or
                    \* refresh token issued then still claims that role
  endorsed          \* history: the principals that initiated or approved
                    \* each request

users == <<role, childPlayerIds, parentIds>>
vars == <<role, childPlayerIds, parentIds, requests, job, held, endorsed>>

-----------------------------------------------------------------------------
(* Types *)

ConnectionStatus ==
  {"PENDING", "WAITING_ON_PARENT", "WAITING_ON_CHILD", "APPROVED", "REJECTED"}

(* The JWT principal: the user and the role claimed by the token.  Its club *)
(* claim is the user's club, which no handler changes.                      *)
Principal == [user : Users, role : UserRole]
Tokens == {t \in Principal : t.role \in held[t.user]}

ConnectionRequest ==
  [parent : Users, child : Users, status : ConnectionStatus]
NoRequest == [status |-> "ABSENT"]

Idle == [step |-> "idle"]
CreateSteps == {"readChild", "findExisting", "insert"}
CreateJob ==
  [step : CreateSteps, by : Principal, parent : Users, child : Users]
LinkSteps ==
  {"readParentLinks", "saveParentLinks", "readChildLinks", "saveChildLinks"}
ProcessJob ==
  [step : LinkSteps \cup {"saveStatus"}, id : RequestIds, parent : Users, child : Users,
   status : ConnectionStatus, arr : SUBSET Users]
ProfileJob ==
  [step : {"saveProfile"}, user : Users, role : UserRole,
   children : SUBSET Users, parents : SUBSET Users]
Job == {Idle} \cup CreateJob \cup ProcessJob \cup ProfileJob

(* The type invariant: every column and every worker's memory hold values  *)
(* of their types, and a worker processes only requests that exist.        *)
TypeOK ==
  /\ role \in [Users -> UserRole]
  /\ childPlayerIds \in [Users -> SUBSET Users]
  /\ parentIds \in [Users -> SUBSET Users]
  /\ requests \in [RequestIds -> ConnectionRequest \cup {NoRequest}]
  /\ job \in [Workers -> Job]
  /\ held \in [Users -> SUBSET UserRole]
  /\ endorsed \in [RequestIds -> SUBSET Principal]
  /\ \A w \in Workers :
       job[w].step \in LinkSteps \cup {"saveStatus"}
         => requests[job[w].id] # NoRequest

Init ==
  /\ role = InitialRole
  /\ childPlayerIds = [u \in Users |-> {}]
  /\ parentIds = [u \in Users |-> {}]
  /\ requests = [i \in RequestIds |-> NoRequest]
  /\ job = [w \in Workers |-> Idle]
  /\ held = [u \in Users |-> {InitialRole[u]}]
  /\ endorsed = [i \in RequestIds |-> {}]

Finish(w) == job' = [job EXCEPT ![w] = Idle]
Go(w, step) == job' = [job EXCEPT ![w].step = step]

-----------------------------------------------------------------------------
(* POST /connections/request: create_request *)

SameClub(t, p, c) == ClubOf[p] = ClubOf[c] /\ ClubOf[p] = ClubOf[t.user]

(* Faulty variant: the token's user is not compared with the party.        *)
MayInitiateUnchecked(t, p, c) == TRUE

(* A parent or a player only asks for themself; anybody else may ask for   *)
(* both.                                                                   *)
MayInitiate(t, p, c) ==
  /\ t.role = "PARENT" => t.user = p
  /\ t.role = "PLAYER" => t.user = c

(* Faulty variant: a request by staff skips the first of its two approvals. *)
InitialStatusHalfway(t) ==
  IF t.role = "PARENT" THEN "WAITING_ON_CHILD" ELSE "WAITING_ON_PARENT"

InitialStatus(t) ==
  CASE t.role = "PARENT" -> "WAITING_ON_CHILD"
    [] t.role = "PLAYER" -> "WAITING_ON_PARENT"
    [] OTHER -> "PENDING"

(* The parent row is read.  A request whose token or parent already leads  *)
(* to a refusal, and one of users without a club (the NOT NULL constraint  *)
(* on club_id refuses the insert), is not begun.                           *)
CreateRequest(w) ==
  /\ job[w] = Idle
  /\ \E i \in RequestIds : requests[i] = NoRequest    \* bound: a key is left
  /\ \E t \in Tokens, p, c \in Users :
       /\ role[p] = "PARENT"
       /\ SameClub(t, p, c) /\ ClubOf[p] # NoClub
       /\ MayInitiate(t, p, c)
       /\ job' = [job EXCEPT ![w] = [step |-> "readChild", by |-> t,
                                     parent |-> p, child |-> c]]
  /\ UNCHANGED <<users, requests, held, endorsed>>

ReadChild(w) ==
  /\ job[w].step = "readChild"
  /\ IF role[job[w].child] = "PLAYER" THEN Go(w, "findExisting") ELSE Finish(w)
  /\ UNCHANGED <<users, requests, held, endorsed>>

RequestsOf(p, c) ==
  {i \in RequestIds : /\ requests[i] # NoRequest
                      /\ requests[i].parent = p /\ requests[i].child = c}

(* .first() orders by primary key, so only the oldest request of the pair  *)
(* is looked at.                                                           *)
Blocked(p, c) ==
  \E i \in RequestsOf(p, c) :
     /\ \A k \in RequestsOf(p, c) : i <= k
     /\ requests[i].status # "REJECTED"

FindExisting(w) ==
  /\ job[w].step = "findExisting"
  /\ IF Blocked(job[w].parent, job[w].child) THEN Finish(w) ELSE Go(w, "insert")
  /\ UNCHANGED <<users, requests, held, endorsed>>

(* An ObjectId is unique.  The processes that draw one in the same second, *)
(* and one process whose counter wraps, draw them in no particular order   *)
(* (ObjectIds), so any key that is left may come next.                     *)
FreeIds == {i \in RequestIds : requests[i] = NoRequest}

InsertRequest(w) ==
  /\ job[w].step = "insert"
  /\ \E i \in FreeIds :
       /\ requests' = [requests EXCEPT ![i] =
                         [parent |-> job[w].parent, child |-> job[w].child,
                          status |-> InitialStatus(job[w].by)]]
       /\ endorsed' = [endorsed EXCEPT ![i] = {job[w].by}]
  /\ Finish(w)
  /\ UNCHANGED <<users, held>>

(* Bound: the worker gives up when RequestIds has no key left.             *)
NoIdLeft(w) ==
  /\ job[w].step = "insert"
  /\ FreeIds = {}
  /\ Finish(w)
  /\ UNCHANGED <<users, requests, held, endorsed>>

-----------------------------------------------------------------------------
(* PATCH /connections/:id/approve and /reject: process_request *)

ProcessAs(w, step, i, s) ==
  job' = [job EXCEPT ![w] =
           [step |-> step, id |-> i, parent |-> requests[i].parent,
            child |-> requests[i].child, status |-> s, arr |-> {}]]

(* The row is read here and saved by SaveStatus whatever happened to it in *)
(* between.                                                                *)
Reject(w) ==
  /\ job[w] = Idle
  /\ \E t \in Tokens, i \in RequestIds :
       /\ requests[i] # NoRequest
       /\ ClubOf[t.user] = ClubOf[requests[i].parent]
       /\ ProcessAs(w, "saveStatus", i, "REJECTED")
  /\ UNCHANGED <<users, requests, held, endorsed>>

MayApprove(t, r) ==
  \/ t.role = "PARENT" /\ t.user = r.parent
  \/ t.role = "PLAYER" /\ t.user = r.child

(* Faulty variants: the waiting side is not looked at; a rejected request  *)
(* starts over; the player's approval after the parent's is forgotten.     *)
AdvanceAnySide(by, s) ==
  CASE s \in {"WAITING_ON_PARENT", "WAITING_ON_CHILD"} -> "APPROVED"
    [] s = "PENDING" /\ by = "PARENT" -> "WAITING_ON_CHILD"
    [] s = "PENDING" /\ by = "PLAYER" -> "WAITING_ON_PARENT"
    [] OTHER -> s

AdvanceReopening(by, s) ==
  CASE by = "PARENT" /\ s = "WAITING_ON_PARENT" -> "APPROVED"
    [] by = "PARENT" /\ s \in {"PENDING", "REJECTED"} -> "WAITING_ON_CHILD"
    [] by = "PLAYER" /\ s = "WAITING_ON_CHILD" -> "APPROVED"
    [] by = "PLAYER" /\ s = "PENDING" -> "WAITING_ON_PARENT"
    [] OTHER -> s

AdvanceForgetful(by, s) ==
  CASE by = "PARENT" /\ s = "WAITING_ON_PARENT" -> "APPROVED"
    [] by = "PARENT" /\ s = "PENDING" -> "WAITING_ON_CHILD"
    [] by = "PLAYER" /\ s = "PENDING" -> "WAITING_ON_PARENT"
    [] OTHER -> s

(* The status after an approval by a parent or a player; the one that is   *)
(* not waited on, and a finished request, are left as they are.            *)
Advance(by, s) ==
  CASE by = "PARENT" /\ s = "WAITING_ON_PARENT" -> "APPROVED"
    [] by = "PARENT" /\ s = "PENDING" -> "WAITING_ON_CHILD"
    [] by = "PLAYER" /\ s = "WAITING_ON_CHILD" -> "APPROVED"
    [] by = "PLAYER" /\ s = "PENDING" -> "WAITING_ON_PARENT"
    [] OTHER -> s

(* An approved status, the one just reached or one read from the row, is   *)
(* followed by the two links; the status is saved last.                    *)
ApproveAs(w, t, i) ==
  /\ job[w] = Idle
  /\ requests[i] # NoRequest
  /\ ClubOf[t.user] = ClubOf[requests[i].parent]
  /\ MayApprove(t, requests[i])
  /\ LET s == Advance(t.role, requests[i].status) IN
       ProcessAs(w, IF s = "APPROVED" THEN "readParentLinks" ELSE "saveStatus",
                 i, s)
  /\ endorsed' = [endorsed EXCEPT ![i] = @ \cup {t}]
  /\ UNCHANGED <<users, requests, held>>

Approve(w) == \E t \in Tokens, i \in RequestIds : ApproveAs(w, t, i)

(* Faulty variants: a link that exists on one side is taken for complete;  *)
(* the parent's side is skipped.                                           *)
ReadParentLinksOnce(w) ==
  /\ job[w].step = "readParentLinks"
  /\ LET seen == childPlayerIds[job[w].parent] IN
       IF job[w].child \in seen
       THEN Go(w, "saveStatus")
       ELSE job' = [job EXCEPT ![w].step = "saveParentLinks",
                               ![w].arr = seen \cup {job[w].child}]
  /\ UNCHANGED <<users, requests, held, endorsed>>

ReadParentLinksSkipped(w) ==
  /\ job[w].step = "readParentLinks"
  /\ Go(w, "readChildLinks")
  /\ UNCHANGED <<users, requests, held, endorsed>>

(* _add_to_set(parent, "child_player_ids", child): the array is read and,  *)
(* unless it holds the child, saved whole with the child appended.         *)
ReadParentLinks(w) ==
  /\ job[w].step = "readParentLinks"
  /\ LET seen == childPlayerIds[job[w].parent] IN
       IF job[w].child \in seen
       THEN Go(w, "readChildLinks")
       ELSE job' = [job EXCEPT ![w].step = "saveParentLinks",
                               ![w].arr = seen \cup {job[w].child}]
  /\ UNCHANGED <<users, requests, held, endorsed>>

SaveParentLinks(w) ==
  /\ job[w].step = "saveParentLinks"
  /\ childPlayerIds' = [childPlayerIds EXCEPT ![job[w].parent] = job[w].arr]
  /\ job' = [job EXCEPT ![w].step = "readChildLinks", ![w].arr = {}]
  /\ UNCHANGED <<role, parentIds, requests, held, endorsed>>

(* _add_to_set(child, "parent_ids", parent) *)
ReadChildLinks(w) ==
  /\ job[w].step = "readChildLinks"
  /\ LET seen == parentIds[job[w].child] IN
       IF job[w].parent \in seen
       THEN Go(w, "saveStatus")
       ELSE job' = [job EXCEPT ![w].step = "saveChildLinks",
                               ![w].arr = seen \cup {job[w].parent}]
  /\ UNCHANGED <<users, requests, held, endorsed>>

SaveChildLinks(w) ==
  /\ job[w].step = "saveChildLinks"
  /\ parentIds' = [parentIds EXCEPT ![job[w].child] = job[w].arr]
  /\ job' = [job EXCEPT ![w].step = "saveStatus", ![w].arr = {}]
  /\ UNCHANGED <<role, childPlayerIds, requests, held, endorsed>>

(* Faulty variant: the row of a rejected request is deleted.               *)
SaveStatusOrDelete(w) ==
  /\ job[w].step = "saveStatus"
  /\ requests' = [requests EXCEPT ![job[w].id] =
                    IF job[w].status = "REJECTED" THEN NoRequest
                    ELSE [@ EXCEPT !.status = job[w].status]]
  /\ Finish(w)
  /\ UNCHANGED <<users, held, endorsed>>

SaveStatus(w) ==
  /\ job[w].step = "saveStatus"
  /\ requests' = [requests EXCEPT ![job[w].id].status = job[w].status]
  /\ Finish(w)
  /\ UNCHANGED <<users, held, endorsed>>

(* GET /connections/pending: get_pending_requests                          *)
PendingFor(t) ==
  {i \in RequestIds :
     /\ requests[i] # NoRequest
     /\ \/ /\ t.role = "PARENT" /\ requests[i].parent = t.user
           /\ requests[i].status \in {"WAITING_ON_PARENT", "PENDING"}
        \/ /\ t.role = "PLAYER" /\ requests[i].child = t.user
           /\ requests[i].status \in {"WAITING_ON_CHILD", "PENDING"}}

-----------------------------------------------------------------------------
(* The other handlers that write these rows *)

(* PATCH /users/me: update_profile reads the whole row ...                 *)
ReadProfile(w) ==
  /\ job[w] = Idle
  /\ \E u \in Users :
       job' = [job EXCEPT ![w] = [step |-> "saveProfile", user |-> u,
                                  role |-> role[u],
                                  children |-> childPlayerIds[u],
                                  parents |-> parentIds[u]]]
  /\ UNCHANGED <<users, requests, held, endorsed>>

(* ... and saves every column of it, the role and the links included.      *)
SaveProfile(w) ==
  /\ job[w].step = "saveProfile"
  /\ role' = [role EXCEPT ![job[w].user] = job[w].role]
  /\ childPlayerIds' = [childPlayerIds EXCEPT ![job[w].user] = job[w].children]
  /\ parentIds' = [parentIds EXCEPT ![job[w].user] = job[w].parents]
  /\ Finish(w)
  /\ UNCHANGED <<requests, held, endorsed>>

(* The save fails as a whole when the new email is taken.                  *)
RefuseProfile(w) ==
  /\ job[w].step = "saveProfile"
  /\ Finish(w)
  /\ UNCHANGED <<users, requests, held, endorsed>>

(* PATCH /users/:id/role: its one write, of the role column alone.  Who may *)
(* call it with which role is the subject of the accounts, not of linking.  *)
UpdateRole(u, r) ==
  /\ role' = [role EXCEPT ![u] = r]
  /\ held' = [held EXCEPT ![u] = @ \cup {r}]
  /\ UNCHANGED <<childPlayerIds, parentIds, requests, job, endorsed>>

(* gunicorn kills a worker that exceeds its timeout and starts another     *)
(* process; the statements it has not issued are never issued.             *)
Kill(w) ==
  /\ Crashes
  /\ job[w] # Idle
  /\ Finish(w)
  /\ UNCHANGED <<users, requests, held, endorsed>>

-----------------------------------------------------------------------------

Step(w) ==
  \/ ReadChild(w) \/ FindExisting(w) \/ InsertRequest(w) \/ NoIdLeft(w)
  \/ ReadParentLinks(w) \/ SaveParentLinks(w)
  \/ ReadChildLinks(w) \/ SaveChildLinks(w)
  \/ SaveStatus(w) \/ SaveProfile(w) \/ RefuseProfile(w)

Begin(w) == CreateRequest(w) \/ Approve(w) \/ Reject(w) \/ ReadProfile(w)

Next ==
  \/ \E w \in Workers : Begin(w) \/ Step(w) \/ Kill(w)
  \/ \E u \in Users, r \in AssignedRoles : UpdateRole(u, r)

Spec == Init /\ [][Next]_vars

-----------------------------------------------------------------------------
(* Safety, for any number of workers, whatever is killed *)

Party(i, side) ==
  [user |-> IF side = "PARENT" THEN requests[i].parent ELSE requests[i].child,
   role |-> side]

(* Both parties initiated or approved request i themselves, each with a    *)
(* token of the right role.                                                *)
BothConsented(i) ==
  requests[i] # NoRequest /\ \A side \in {"PARENT", "PLAYER"} :
                               Party(i, side) \in endorsed[i]

(* However approvals, rejections and stale saves interleave, a request is  *)
(* never APPROVED unless its parent and its player both asked for it or    *)
(* approved it (API_REFERENCE.md section 8, "only becomes active once both *)
(* the parent and the child approve").                                     *)
ApprovedByBoth ==
  \A i \in RequestIds :
    requests[i] # NoRequest /\ requests[i].status = "APPROVED" => BothConsented(i)

(* Nobody becomes somebody's child or parent without both having consented *)
(* to one request, although the arrays are rewritten whole from stale      *)
(* reads, by approvals and by profile updates.                             *)
Agreed(p, c) == \E i \in RequestsOf(p, c) : BothConsented(i)

LinksAgreed ==
  \A p, c \in Users :
    c \in childPlayerIds[p] \/ p \in parentIds[c] => Agreed(p, c)

(* The inductive invariant behind both.  Every status that is in a row or  *)
(* in the memory of a worker is backed by the consent it stands for, and   *)
(* every array in memory holds agreed links only: a stale save cannot      *)
(* write what was never agreed.                                            *)
Backed(i, status) ==
  /\ status = "APPROVED" => BothConsented(i)
  /\ status = "WAITING_ON_CHILD" => Party(i, "PARENT") \in endorsed[i]
  /\ status = "WAITING_ON_PARENT" => Party(i, "PLAYER") \in endorsed[i]

RequestsBacked ==
  \A i \in RequestIds :
    IF requests[i] = NoRequest THEN endorsed[i] = {}
                               ELSE Backed(i, requests[i].status)

ProcessBacked(j) ==
  /\ j.id \in RequestsOf(j.parent, j.child)
  /\ Backed(j.id, j.status)
  /\ j.step \in LinkSteps => j.status = "APPROVED"
  /\ j.step = "saveParentLinks" => \A c \in j.arr : Agreed(j.parent, c)
  /\ j.step = "saveChildLinks" => \A p \in j.arr : Agreed(p, j.child)

ProfileBacked(j) ==
  /\ \A c \in j.children : Agreed(j.user, c)
  /\ \A p \in j.parents : Agreed(p, j.user)

JobBacked(j) ==
  /\ j.step \in CreateSteps => MayInitiate(j.by, j.parent, j.child)
  /\ j.step \in LinkSteps \cup {"saveStatus"} => ProcessBacked(j)
  /\ j.step = "saveProfile" => ProfileBacked(j)

JobsBacked == \A j \in {job[w] : w \in Workers} : JobBacked(j)

Inductive == TypeOK /\ RequestsBacked /\ JobsBacked /\ LinksAgreed

(* The handlers implement the abstract promise.                            *)
ConsentOf(i) ==
  IF requests[i] = NoRequest THEN {}
  ELSE {side \in {"PARENT", "PLAYER"} : Party(i, side) \in endorsed[i]}

PairMap ==
  [i \in RequestIds |-> IF requests[i] = NoRequest THEN <<>>
                        ELSE <<requests[i].parent, requests[i].child>>]
ConsentMap == [i \in RequestIds |-> ConsentOf(i)]
ApprovedMap == {i \in RequestIds : requests[i].status = "APPROVED"}

Consent == INSTANCE LinkConsent WITH
  pair <- PairMap, consent <- ConsentMap, approved <- ApprovedMap,
  children <- childPlayerIds, parents <- parentIds

ImplementsConsent == Consent!Spec

-----------------------------------------------------------------------------
(* What holds when requests do not overlap (one worker), killed or not *)

(* An APPROVED request has its link in both rows: both arrays are saved    *)
(* before the status, so a kill in between never leaves an approved        *)
(* request without its links (API_REFERENCE.md section 8, "On full         *)
(* approval").                                                             *)
ApprovedLinked ==
  \A i \in RequestIds :
    requests[i] # NoRequest /\ requests[i].status = "APPROVED"
      => /\ requests[i].child \in childPlayerIds[requests[i].parent]
         /\ requests[i].parent \in parentIds[requests[i].child]

(* A kill may leave half a link, but only one half: the child never lists  *)
(* a parent that does not list the child.                                  *)
ChildListedFirst ==
  \A p, c \in Users : p \in parentIds[c] => c \in childPlayerIds[p]

(* A request keeps its parties and only moves forward: an approval that    *)
(* was saved is not asked for again, an approved request can only be       *)
(* rejected, and a rejection is final.                                     *)
Forward(s, t) ==
  \/ t \in {s, "REJECTED"}
  \/ s = "PENDING" /\ t \in {"WAITING_ON_PARENT", "WAITING_ON_CHILD"}
  \/ s \in {"WAITING_ON_PARENT", "WAITING_ON_CHILD"} /\ t = "APPROVED"

MovesForward(i) ==
  requests[i] # NoRequest =>
    /\ Forward(requests[i].status, requests'[i].status)
    /\ requests'[i] = [requests[i] EXCEPT !.status = requests'[i].status]

RequestsMoveForward == [][\A i \in RequestIds : MovesForward(i)]_vars

(* The inductive invariant of a single worker, beside Inductive: what it   *)
(* has read is still what the row holds when it writes.                    *)
Linked(p, c) == c \in childPlayerIds[p] /\ p \in parentIds[c]

FreshLinks(j) ==
  /\ j.step = "saveParentLinks" => j.arr = childPlayerIds[j.parent] \cup {j.child}
  /\ j.step \in {"readChildLinks", "saveChildLinks"} => j.child \in childPlayerIds[j.parent]
  /\ j.step = "saveChildLinks" => j.arr = parentIds[j.child] \cup {j.parent}
  /\ j.step = "saveStatus" /\ j.status = "APPROVED" => Linked(j.parent, j.child)

FreshStatus(j) ==
  j.step \in LinkSteps \cup {"saveStatus"} => Forward(requests[j.id].status, j.status)

FreshProfile(j) ==
  j.step = "saveProfile"
    => j.children = childPlayerIds[j.user] /\ j.parents = parentIds[j.user]

AllFresh == \A j \in {job[w] : w \in Workers} : FreshLinks(j) /\ FreshStatus(j) /\ FreshProfile(j)

Serial == Inductive /\ ApprovedLinked /\ ChildListedFirst /\ AllFresh

(* The message of create_request's 409: no two requests that are not       *)
(* rejected exist between the same two users.                              *)
OneLiveRequest ==
  \A i, k \in RequestIds :
    requests[i] # NoRequest /\ k \in RequestsOf(requests[i].parent, requests[i].child)
      => \/ i = k
         \/ "REJECTED" \in {requests[i].status, requests[k].status}

(* If both parties keep approving what the list of their pending requests  *)
(* shows them, one at a time, every request is settled: no order of        *)
(* initiation and approvals leaves it waiting for ever, or unlisted, and   *)
(* neither does a kill that leaves half of an approval behind.             *)
Settles ==
  \A i \in RequestIds :
    requests[i] # NoRequest
      ~> requests[i] # NoRequest /\ requests[i].status \in {"APPROVED", "REJECTED"}

(* A worker goes on with the request it has begun; the parties of every    *)
(* request keep approving it while it is listed (the users' doing, the     *)
(* premise of Settles).                                                    *)
KeepsApproving(i, side) ==
  /\ requests[i] # NoRequest
  /\ i \in PendingFor(Party(i, side))
  /\ \E w \in Workers : ApproveAs(w, Party(i, side), i)

Fairness ==
  /\ \A w \in Workers : WF_vars(Step(w))
  /\ \A i \in RequestIds, side \in {"PARENT", "PLAYER"} :
       SF_vars(KeepsApproving(i, side))

(* From some moment on no request is cut short: what happens then is a     *)
(* step of a worker even where a kill would look the same.                 *)
KilledFinitelyOften == <>[][\A w \in Workers : Kill(w) => Step(w)]_vars

FairSpec == Spec /\ Fairness /\ KilledFinitelyOften
=============================================================================
