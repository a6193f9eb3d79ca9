------------------------- MODULE AdminConsole_proofs -------------------------
(***************************************************************************)
(* For any scenarios, slots, versions, identities, windows and lifetimes,  *)
(* whatever the deployment lacks and however the requests interleave at    *)
(* their awaits: a window of the limiter lets no more changes through than *)
(* its limit, a change has the rights its credential had when it was       *)
(* resolved, which no credential has that was revoked before the handler   *)
(* asked for it, and lands in the database of the caller's app, a token    *)
(* that was issued holds no more than its issuer, a page holds the         *)
(* caller's rows, a key acts once, and a command changes a row as it was   *)
(* shown.                                                                  *)
(*                                                                         *)
(* A request learns in turn where it goes, who asks, what time it is and   *)
(* which window it is counted in. What it has learned by a phase is the    *)
(* shape of the request (RequestShape); the other invariants say what that *)
(* still means when it writes, although tokens, windows and key records    *)
(* have changed meanwhile. What the interface shows is followed from the   *)
(* page that is read to the command that is given: the revisions of a row  *)
(* only grow, so what was seen of a row holds of it while its revision     *)
(* stays (ConsoleInv).                                                     *)
(***************************************************************************)
EXTENDS AdminConsole, FiniteSetTheorems, SequenceTheorems, TLAPS

RequestFields == {"method", "route", "origin", "credential", "json", "body", "command", "key", "query",
                  "phase", "n", "gone", "database", "who", "spent", "identified", "now", "start", "step", "pages"}

AnsweredFields == {"phase", "n", "route", "who", "database", "answer"}

Busy == Phases \ {"idle", "answered"}

Installing == {"proposing", "writing", "recovering"}

Working == {"working", "revoking"} \cup Installing

SameForm(r, s) ==
    /\ DOMAIN s = RequestFields
    /\ s.method = r.method /\ s.route = r.route /\ s.credential = r.credential /\ s.origin = r.origin
    /\ s.command = r.command /\ s.key = r.key /\ s.query = r.query /\ s.n = r.n /\ s.gone = r.gone

SameCaller(r, s) ==
    /\ SameForm(r, s)
    /\ s.who = r.who /\ s.identified = r.identified /\ s.now = r.now /\ s.start = r.start
    /\ s.database = r.database /\ s.spent = r.spent

(***************************************************************************)
(* The same request; whether anybody waits for it may differ.              *)
(***************************************************************************)
Alike(r, s) ==
    /\ DOMAIN s = RequestFields
    /\ s.method = r.method /\ s.route = r.route /\ s.credential = r.credential /\ s.origin = r.origin
    /\ s.command = r.command /\ s.key = r.key /\ s.query = r.query /\ s.n = r.n
    /\ s.who = r.who /\ s.identified = r.identified /\ s.now = r.now /\ s.start = r.start
    /\ s.database = r.database /\ s.spent = r.spent

LEMMA CallerAlike == \A r, s : SameCaller(r, s) => Alike(r, s)
BY DEF SameCaller, SameForm, Alike

LEMMA Advanced ==
  ASSUME NEW r, DOMAIN r = RequestFields, NEW p
  PROVE  /\ SameCaller(r, [r EXCEPT !.phase = p])
         /\ [r EXCEPT !.phase = p].phase = p
BY DEF SameForm, SameCaller, RequestFields

Relocated(r, p, d) == [r EXCEPT !.phase = p, !.database = d]

LEMMA Located ==
  ASSUME NEW r, DOMAIN r = RequestFields, NEW p, NEW d
  PROVE  /\ SameForm(r, Relocated(r, p, d))
         /\ Relocated(r, p, d).phase = p /\ Relocated(r, p, d).database = d
BY DEF Relocated, SameForm, RequestFields

Handed(r) == [r EXCEPT !.phase = "identifying", !.spent = isRevoked(r.credential)]

LEMMA HandedOn ==
  ASSUME NEW r, DOMAIN r = RequestFields
  PROVE  LET s == Handed(r) IN
         /\ SameForm(r, s) /\ s.phase = "identifying" /\ s.database = r.database
         /\ s.spent = isRevoked(r.credential)
<1> PICK spent : spent = isRevoked(r.credential)
  OBVIOUS
<1>1. Handed(r) = [r EXCEPT !.phase = "identifying", !.spent = spent]
  BY DEF Handed
<1>2. PICK s : s = [r EXCEPT !.phase = "identifying", !.spent = spent]
  OBVIOUS
<1>3. /\ SameForm(r, s) /\ s.phase = "identifying" /\ s.database = r.database /\ s.spent = spent
  BY <1>2 DEF SameForm, RequestFields
<1> QED
  BY <1>1, <1>2, <1>3

Admission(r, who, p, t) ==
    [r EXCEPT !.who = who, !.identified = clock, !.now = clock, !.phase = p, !.step = t]

LEMMA Admitted ==
  ASSUME NEW r, DOMAIN r = RequestFields, NEW p, NEW who, NEW t
  PROVE  LET s == Admission(r, who, p, t) IN
         /\ SameForm(r, s) /\ s.phase = p /\ s.who = who /\ s.identified = clock /\ s.now = clock
         /\ s.database = r.database /\ s.spent = r.spent /\ s.step = t
BY DEF Admission, SameForm, RequestFields

Reserved(r, start) == [r EXCEPT !.phase = "working", !.now = clock, !.start = start]

LEMMA Counted ==
  ASSUME NEW r, DOMAIN r = RequestFields, NEW start
  PROVE  LET s == Reserved(r, start) IN
         /\ SameForm(r, s) /\ s.phase = "working" /\ s.who = r.who /\ s.identified = r.identified
         /\ s.now = clock /\ s.start = start /\ s.database = r.database /\ s.spent = r.spent
         /\ s.step = r.step /\ s.pages = r.pages
BY DEF Reserved, SameForm, RequestFields

Paged(r, t, p) == [r EXCEPT !.step = t, !.pages = p]

LEMMA Pages ==
  ASSUME NEW r, DOMAIN r = RequestFields, NEW t, NEW p
  PROVE  /\ SameCaller(r, Paged(r, t, p)) /\ Paged(r, t, p).phase = r.phase
         /\ Paged(r, t, p).step = t /\ Paged(r, t, p).pages = p
BY DEF Paged, SameCaller, SameForm, RequestFields

IsOver(q) == q = Idle \/ (DOMAIN q = AnsweredFields /\ q.phase = "answered")

IsBusy(q) == DOMAIN q = RequestFields /\ q.phase \in Busy

(***************************************************************************)
(* Every slot is idle, answered or holds a request with all of its fields. *)
(***************************************************************************)
SlotInv(q) ==
    /\ IsOver(q) \/ IsBusy(q)
    /\ q.phase \in Installing => q.route = "installCreate"
    /\ q.phase = "revoking" => q.route = "serviceTokenCollection" /\ q.method = "DELETE"

RequestShape == DOMAIN requests = Slots /\ \A c \in Slots : SlotInv(requests[c])

OnlySlot(c) == DOMAIN requests' = Slots /\ \A d \in Slots \ {c} : requests'[d] = requests[d]

LEMMA PhaseTells ==
  ASSUME NEW c \in Slots, RequestShape, requests[c].phase \in Busy
  PROVE  DOMAIN requests[c] = RequestFields
BY DEF RequestShape, SlotInv, IsOver, IsBusy, Busy, Idle

LEMMA Responded ==
  ASSUME NEW c \in Slots, RequestShape, requests[c].phase \in Busy, NEW answer, Respond(c, answer)
  PROVE  /\ OnlySlot(c) /\ IsOver(requests'[c])
         /\ requests[c].gone => requests'[c] = Idle
         /\ ~requests[c].gone =>
              /\ requests'[c].phase = "answered" /\ requests'[c].n = requests[c].n
              /\ requests'[c].route = requests[c].route /\ requests'[c].who = requests[c].who /\ requests'[c].answer = answer
<1>1. requests' = [requests EXCEPT ![c] = answered(requests[c], answer)]
  BY DEF Respond
<1>2. OnlySlot(c) /\ requests'[c] = answered(requests[c], answer)
  BY <1>1 DEF OnlySlot, RequestShape
<1> QED
  BY <1>2 DEF answered, IsOver, AnsweredFields

LEMMA Moved ==
  ASSUME NEW c \in Slots, RequestShape, NEW s, requests' = [requests EXCEPT ![c] = s]
  PROVE  OnlySlot(c) /\ requests'[c] = s
BY DEF OnlySlot, RequestShape

LEMMA AdvanceMoves ==
  ASSUME NEW c \in Slots, RequestShape, requests[c].phase \in Busy, NEW p \in Busy, Advance(c, p)
  PROVE  OnlySlot(c) /\ SameCaller(requests[c], requests'[c]) /\ requests'[c].phase = p
<1>1. requests' = [requests EXCEPT ![c] = [requests[c] EXCEPT !.phase = p]]
  BY DEF Advance
<1>2. OnlySlot(c) /\ requests'[c] = [requests[c] EXCEPT !.phase = p]
  BY <1>1, Moved
<1> QED
  BY <1>2, PhaseTells, Advanced

(***************************************************************************)
(* What a request that counted in a window may still change, or has.       *)
(***************************************************************************)
IsPending(r) == r.phase \in {"working", "revoking", "proposing", "writing"} /\ handlerOf(r).family # None

LEMMA SameEffect ==
  ASSUME NEW r, NEW s, Alike(r, s)
  PROVE  handlerOf(s) = handlerOf(r) /\ effectOf(s) = effectOf(r)
<1>1. handlerOf(s) = handlerOf(r)
  BY DEF Alike, handlerOf
<1> QED
  BY <1>1 DEF Alike, effectOf

(***************************************************************************)
(* A step of a request that neither admits it nor counts it.               *)
(***************************************************************************)
Early == {"arrived", "routing", "handling", "identifying", "reserving"}

LEMMA FetchStep ==
  ASSUME NEW c \in Slots, RequestShape, Fetch(c)
  PROVE  LET r == requests[c]
             s == requests'[c]
         IN /\ untouched /\ OnlySlot(c) /\ r.phase = "arrived"
            /\ \/ IsOver(s)
               \/ /\ SameForm(r, s) /\ s.phase = "handling" /\ deployment.routes = None
                  /\ s.database = IF deployment.db THEN Default ELSE None
               \/ SameForm(r, s) /\ s.phase = "handling" /\ deployment.routes = "valid" /\ ~routable(r)
               \/ SameForm(r, s) /\ s.phase = "routing" /\ deployment.routes = "valid" /\ routable(r)
<1> DEFINE r == requests[c]
           d == IF deployment.db THEN Default ELSE None
<1>1. untouched /\ r.phase = "arrived" /\ r.phase \in Busy
  BY DEF Fetch, at, Busy, Phases
<1>2. CASE deployment.routes = "invalid" /\ Fail(c, 503, "admin_configuration_unavailable")
  BY <1>1, <1>2, Responded DEF Fail
<1>3. CASE /\ deployment.routes = None
           /\ requests' = [requests EXCEPT ![c].phase = "handling", ![c].database = d]
  <2>1. requests' = [requests EXCEPT ![c] = Relocated(r, "handling", d)]
    BY <1>3 DEF Relocated
  <2>2. OnlySlot(c) /\ requests'[c] = Relocated(r, "handling", d)
    BY <2>1, Moved
  <2>3. DOMAIN r = RequestFields
    BY <1>1, PhaseTells
  <2>4. SameForm(r, requests'[c]) /\ requests'[c].phase = "handling" /\ requests'[c].database = d
    BY <2>2, <2>3, Located
  <2> QED
    BY <1>1, <1>3, <2>2, <2>4
<1>4. CASE deployment.routes = "valid" /\ ~routable(r) /\ Advance(c, "handling")
  BY <1>1, <1>4, AdvanceMoves DEF SameCaller, Busy, Phases
<1>5. CASE /\ deployment.routes = "valid" /\ routable(r)
           /\ IF r.credential = None THEN Fail(c, 401, "unauthorized")
              ELSE IF ~hasIdentityResolver(deployment) THEN Fail(c, 503, "identity_resolver_unavailable")
              ELSE Advance(c, "routing")
  <2>1. CASE Advance(c, "routing")
    BY <1>1, <1>5, <2>1, AdvanceMoves DEF SameCaller, Busy, Phases
  <2>2. ASSUME NEW st, NEW code, Fail(c, st, code)
        PROVE  OnlySlot(c) /\ IsOver(requests'[c])
    BY <1>1, <2>2, Responded DEF Fail
  <2> QED
    BY <1>1, <1>5, <2>1, <2>2
<1> QED
  BY <1>1, <1>2, <1>3, <1>4, <1>5 DEF Fetch

LEMMA RouteStep ==
  ASSUME NEW c \in Slots, RequestShape, resolveRequestDatabase(c)
  PROVE  LET r == requests[c]
             s == requests'[c]
         IN /\ untouched /\ OnlySlot(c) /\ r.phase = "routing"
            /\ \/ IsOver(s)
               \/ /\ SameForm(r, s) /\ s.phase = "handling"
                  /\ \E found \in identify(r.credential) :
                        /\ found.kind = "identity"
                        /\ found.who.app # None =>
                              s.database = databaseOf(found.who.app) /\ s.database # None
<1> DEFINE r == requests[c]
<1>1. untouched /\ r.phase = "routing" /\ r.phase \in Busy
  BY DEF resolveRequestDatabase, at, Busy, Phases
<1>2. ASSUME NEW st, NEW code, Fail(c, st, code)
      PROVE  OnlySlot(c) /\ IsOver(requests'[c])
  BY <1>1, <1>2, Responded DEF Fail
<1>3. PICK found \in identify(r.credential) :
          \/ found = Thrown /\ Fail(c, 503, "admin_configuration_unavailable")
          \/ found = NotFound /\ Fail(c, 401, "unauthorized")
          \/ /\ found.kind = "identity" /\ found.who.app = None
             /\ Advance(c, "handling")
          \/ /\ found.kind = "identity" /\ found.who.app # None
             /\ IF databaseOf(found.who.app) = None THEN Fail(c, 503, "app_database_unavailable")
                ELSE requests' = [requests EXCEPT ![c].phase = "handling",
                                                 ![c].database = databaseOf(found.who.app)]
  BY DEF resolveRequestDatabase
<1>4. CASE found.kind = "identity" /\ found.who.app = None /\ Advance(c, "handling")
  BY <1>1, <1>4, AdvanceMoves DEF SameCaller, Busy, Phases
<1>5. CASE /\ found.kind = "identity" /\ found.who.app # None /\ databaseOf(found.who.app) # None
           /\ requests' = [requests EXCEPT ![c].phase = "handling",
                                           ![c].database = databaseOf(found.who.app)]
  <2> DEFINE d == databaseOf(found.who.app)
  <2>1. requests' = [requests EXCEPT ![c] = Relocated(r, "handling", d)]
    BY <1>5 DEF Relocated
  <2> HIDE DEF d
  <2>2. OnlySlot(c) /\ requests'[c] = Relocated(r, "handling", d)
    BY <2>1, Moved
  <2>3. DOMAIN r = RequestFields
    BY <1>1, PhaseTells
  <2>4. SameForm(r, requests'[c]) /\ requests'[c].phase = "handling" /\ requests'[c].database = d
    BY <2>2, <2>3, Located
  <2> QED
    BY <1>1, <1>5, <2>2, <2>4 DEF d
<1> QED
  BY <1>1, <1>2, <1>3, <1>4, <1>5

LEMMA HandleStep ==
  ASSUME NEW c \in Slots, RequestShape, Handle(c)
  PROVE  LET r == requests[c]
             s == requests'[c]
         IN /\ untouched /\ OnlySlot(c) /\ r.phase = "handling"
            /\ \/ IsOver(s)
               \/ /\ SameForm(r, s) /\ s.phase = "identifying" /\ s.database = r.database
                  /\ s.spent = isRevoked(r.credential)
                  /\ createControlPlaneHttpHandler(r) = NoRefusal
<1> DEFINE r == requests[c]
<1>1. untouched /\ r.phase = "handling" /\ r.phase \in Busy
  BY DEF Handle, at, Busy, Phases
<1>2. ASSUME NEW answer, Respond(c, answer)
      PROVE  OnlySlot(c) /\ IsOver(requests'[c])
  BY <1>1, <1>2, Responded
<1>3. CASE /\ requests' = [requests EXCEPT ![c].phase = "identifying", ![c].spent = isRevoked(r.credential)]
           /\ createControlPlaneHttpHandler(r) = NoRefusal
  <2>1. requests' = [requests EXCEPT ![c] = Handed(r)]
    BY <1>3 DEF Handed
  <2>2. OnlySlot(c) /\ requests'[c] = Handed(r)
    BY <2>1, Moved
  <2>3. DOMAIN r = RequestFields
    BY <1>1, PhaseTells
  <2> QED
    BY <1>1, <1>3, <2>2, <2>3, HandedOn
<1> QED
  BY <1>1, <1>2, <1>3 DEF Handle, Fail

LEMMA AdmitStep ==
  ASSUME NEW c \in Slots, RequestShape, resolveAdminIdentity(c)
  PROVE  LET r == requests[c]
             s == requests'[c]
             handler == handlerOf(r)
         IN /\ untouched /\ OnlySlot(c) /\ r.phase = "identifying"
            /\ \/ IsOver(s)
               \/ /\ SameForm(r, s) /\ s.database = r.database /\ s.spent = r.spent
                  /\ s.identified = clock /\ s.now = clock
                  /\ s.phase = IF handler.family = None THEN "working" ELSE "reserving"
                  /\ s.step = IF r.route = "dashboard" THEN Sections \ {"auditEvents"} ELSE None
                  /\ \E found \in identify(r.credential) : found.kind = "identity" /\ s.who = found.who
                  /\ isTenantScopedAdminIdentity(s.who) /\ requireRbac(s.who, handler.operation)
                  /\ badRequest(r) = None
<1> DEFINE r == requests[c]
           handler == handlerOf(r)
           p == IF handler.family = None THEN "working" ELSE "reserving"
           t == IF r.route = "dashboard" THEN Sections \ {"auditEvents"} ELSE None
<1>1. untouched /\ r.phase = "identifying" /\ r.phase \in Busy
  BY DEF resolveAdminIdentity, at, Busy, Phases
<1>2. ASSUME NEW answer, Respond(c, answer)
      PROVE  OnlySlot(c) /\ IsOver(requests'[c])
  BY <1>1, <1>2, Responded
<1>3. ASSUME NEW st, NEW code, Fail(c, st, code)
      PROVE  OnlySlot(c) /\ IsOver(requests'[c])
  BY <1>2, <1>3 DEF Fail
<1>4. PICK found \in identify(r.credential) :
          \/ found = Thrown /\ Fail(c, 500, "internal_error")
          \/ found = NotFound /\ Fail(c, 401, "unauthorized")
          \/ /\ found.kind = "identity"
             /\ IF ~isTenantScopedAdminIdentity(found.who) THEN Fail(c, 403, "admin_scope_forbidden")
                ELSE IF ~requireRbac(found.who, handler.operation) THEN Fail(c, 403, handler.forbidden)
                ELSE IF badRequest(r) # None THEN Fail(c, statusOf(badRequest(r)), badRequest(r))
                ELSE IF isDashboard(r) /\ dashboardRefusal(r, found.who) # None
                     THEN Respond(c, dashboardRefusal(r, found.who))
                ELSE IF r.route = "session" THEN Respond(c, Answer(200, None, found.who))
                ELSE requests' = [requests EXCEPT ![c].who = found.who, ![c].identified = clock, ![c].now = clock,
                                ![c].phase = p, ![c].step = t]
  BY DEF resolveAdminIdentity
<1>5. CASE /\ found.kind = "identity"
           /\ isTenantScopedAdminIdentity(found.who) /\ requireRbac(found.who, handler.operation)
           /\ badRequest(r) = None
           /\ requests' = [requests EXCEPT ![c].who = found.who, ![c].identified = clock, ![c].now = clock,
                                ![c].phase = p, ![c].step = t]
  <2> HIDE DEF p, t
  <2>1. requests' = [requests EXCEPT ![c] = Admission(r, found.who, p, t)]
    BY <1>5 DEF Admission
  <2>2. OnlySlot(c) /\ requests'[c] = Admission(r, found.who, p, t)
    BY <2>1, Moved
  <2>3. DOMAIN r = RequestFields
    BY <1>1, PhaseTells
  <2>4. /\ SameForm(r, requests'[c]) /\ requests'[c].phase = p /\ requests'[c].who = found.who
        /\ requests'[c].identified = clock /\ requests'[c].now = clock
        /\ requests'[c].database = r.database /\ requests'[c].spent = r.spent /\ requests'[c].step = t
    BY <2>2, <2>3, Admitted
  <2> QED
    BY <1>1, <1>5, <2>2, <2>4 DEF p, t
<1> HIDE DEF p, t, handler
<1> QED
  BY <1>1, <1>2, <1>3, <1>4, <1>5 DEF handler

bucketOf(r) == rateLimitBucketId(r.who, handlerOf(r).family)

evaluated(r) == evaluateFixedWindowReservation(windowOf(bucketOf(r)), r.now)

LEMMA ReserveStep ==
  ASSUME NEW c \in Slots, RequestShape, reserveAdminMutation(c)
  PROVE  LET r == requests[c]
             s == requests'[c]
             current == windowOf(bucketOf(r))
         IN /\ UNCHANGED <<clock, tokens, rows, keys, deployment, sent, effects>>
            /\ OnlySlot(c) /\ r.phase = "reserving"
            /\ \/ IsOver(s) /\ UNCHANGED <<buckets, late>>
               \/ /\ buckets' = [b \in DOMAIN buckets \cup {bucketOf(r)} |->
                                 IF b = bucketOf(r) THEN evaluated(r).record ELSE buckets[b]]
                  /\ late' = late \cup {b \in {bucketOf(r)} : current # None /\ current.start > r.now}
                  /\ \/ IsOver(s)
                     \/ /\ ~(evaluated(r).count > Limit)
                        /\ SameForm(r, s) /\ s.phase = "working" /\ s.who = r.who /\ s.identified = r.identified
                        /\ s.now = clock /\ s.start = evaluated(r).record.start /\ s.database = r.database
                        /\ s.spent = r.spent /\ s.step = r.step /\ s.pages = r.pages
<1> DEFINE r == requests[c]
           current == windowOf(bucketOf(r))
<1>1. /\ UNCHANGED <<clock, tokens, rows, keys, deployment, sent, effects>>
      /\ r.phase = "reserving" /\ r.phase \in Busy
  BY DEF reserveAdminMutation, at, Busy, Phases
<1>2. ASSUME NEW answer, Respond(c, answer)
      PROVE  OnlySlot(c) /\ IsOver(requests'[c])
  BY <1>1, <1>2, Responded
<1>3. unavailable(c) => OnlySlot(c) /\ IsOver(requests'[c])
  BY <1>2 DEF Fail, unavailable
<1>4. \/ unavailable(c) /\ UNCHANGED <<buckets, late>>
      \/ /\ buckets' = [b \in DOMAIN buckets \cup {bucketOf(r)} |->
                                 IF b = bucketOf(r) THEN evaluated(r).record ELSE buckets[b]]
         /\ late' = late \cup {b \in {bucketOf(r)} : current # None /\ current.start > r.now}
         /\ \/ unavailable(c)
            \/ /\ evaluated(r).count > Limit
               /\ Respond(c, Answer(429, "admin_mutation_rate_limited", retryAfter(bucketOf(r), r.now)))
            \/ /\ ~(evaluated(r).count > Limit)
               /\ requests' = [requests EXCEPT ![c].phase = "working", ![c].now = clock,
                                               ![c].start = evaluated(r).record.start]
  BY DEF reserveAdminMutation, bucketOf, evaluated, reserve, reservationCount
<1>5. ASSUME requests' = [requests EXCEPT ![c].phase = "working", ![c].now = clock,
                                          ![c].start = evaluated(r).record.start]
      PROVE  /\ OnlySlot(c)
             /\ SameForm(r, requests'[c]) /\ requests'[c].phase = "working" /\ requests'[c].who = r.who
             /\ requests'[c].identified = r.identified /\ requests'[c].now = clock
             /\ requests'[c].start = evaluated(r).record.start /\ requests'[c].database = r.database
             /\ requests'[c].spent = r.spent
             /\ requests'[c].step = r.step /\ requests'[c].pages = r.pages
  <2> DEFINE start == evaluated(r).record.start
  <2>1. requests' = [requests EXCEPT ![c] = Reserved(r, start)]
    BY <1>5 DEF Reserved
  <2> HIDE DEF start
  <2>2. OnlySlot(c) /\ requests'[c] = Reserved(r, start)
    BY <2>1, Moved
  <2>3. DOMAIN r = RequestFields
    BY <1>1, PhaseTells
  <2>4. /\ SameForm(r, requests'[c]) /\ requests'[c].phase = "working" /\ requests'[c].who = r.who
        /\ requests'[c].identified = r.identified /\ requests'[c].now = clock
        /\ requests'[c].start = start /\ requests'[c].database = r.database
        /\ requests'[c].spent = r.spent
        /\ requests'[c].step = r.step /\ requests'[c].pages = r.pages
    BY <2>2, <2>3, Counted
  <2> QED
    BY <2>2, <2>4 DEF start
<1> HIDE DEF current
<1> QED
  BY <1>1, <1>2, <1>3, <1>4, <1>5 DEF current

LEMMA Ended ==
  ASSUME NEW c \in Slots, RequestShape, requests[c].phase \in Busy
  PROVE  /\ internalError(c) => OnlySlot(c) /\ IsOver(requests'[c])
         /\ \A outcome : refuse(c, outcome) => OnlySlot(c) /\ IsOver(requests'[c])
         /\ \A st, code : Fail(c, st, code) => OnlySlot(c) /\ IsOver(requests'[c])
<1>1. ASSUME NEW st, NEW code, Fail(c, st, code)
      PROVE  OnlySlot(c) /\ IsOver(requests'[c])
  BY <1>1, Responded DEF Fail
<1> QED
  BY <1>1 DEF internalError, refuse

LEMMA PagedMoves ==
  ASSUME NEW c \in Slots, RequestShape, requests[c].phase \in Busy, NEW section, NEW page,
         requests' = [requests EXCEPT ![c].step = @ \ {section}, ![c].pages = withPage(@, section, page)]
  PROVE  LET r == requests[c] IN
         /\ OnlySlot(c)
         /\ requests'[c] = Paged(r, r.step \ {section}, withPage(r.pages, section, page))
<1> DEFINE r == requests[c]
           t == r.step \ {section}
           p == withPage(r.pages, section, page)
<1>1. DOMAIN r = RequestFields
  BY PhaseTells
<1>2. requests' = [requests EXCEPT ![c] = [[r EXCEPT !.step = t] EXCEPT !.pages = withPage(@, section, page)]]
  OBVIOUS
<1>3. [r EXCEPT !.step = t].pages = r.pages
  BY <1>1 DEF RequestFields
<1>4. requests' = [requests EXCEPT ![c] = Paged(r, t, p)]
  BY <1>2, <1>3 DEF Paged
<1> HIDE DEF t, p
<1>5. OnlySlot(c) /\ requests'[c] = Paged(r, t, p)
  BY <1>4, Moved
<1> QED
  BY <1>5 DEF t, p

LEMMA ReadStep ==
  ASSUME NEW c \in Slots, RequestShape, Reading(c)
  PROVE  LET r == requests[c]
             s == requests'[c]
         IN /\ reads /\ OnlySlot(c) /\ r.phase = "working"
            /\ IsOver(s) \/ (SameCaller(r, s) /\ s.phase = "working")
<1> DEFINE r == requests[c]
<1>1. reads /\ r.phase = "working" /\ r.phase \in Busy
  BY DEF Reading, ReadDetail, ReadSection, ReadDashboard, working, at, Busy, Phases
<1>2. ASSUME NEW answer, Respond(c, answer)
      PROVE  OnlySlot(c) /\ IsOver(requests'[c])
  BY <1>1, <1>2, Responded
<1>3. internalError(c) => OnlySlot(c) /\ IsOver(requests'[c])
  BY <1>1, Ended
<1>4. CASE ReadDetail(c)
  <2>1. ASSUME NEW condition, NEW code, NEW value, notFoundUnless(c, condition, code, value)
        PROVE  OnlySlot(c) /\ IsOver(requests'[c])
    BY <1>1, <1>2, <2>1, Ended DEF notFoundUnless
  <2> QED
    BY <1>1, <1>2, <1>3, <1>4, <2>1 DEF ReadDetail
<1>5. CASE ReadSection(c)
  BY <1>1, <1>2, <1>3, <1>5 DEF ReadSection
<1>6. CASE ReadDashboard(c)
  <2>1. ASSUME NEW section, NEW page,
               requests' = [requests EXCEPT ![c].step = @ \ {section},
                                            ![c].pages = withPage(@, section, page)]
        PROVE  OnlySlot(c) /\ SameCaller(r, requests'[c]) /\ requests'[c].phase = "working"
    <3>1. DOMAIN r = RequestFields
      BY <1>1, PhaseTells
    <3>2. /\ OnlySlot(c)
          /\ requests'[c] = Paged(r, r.step \ {section}, withPage(r.pages, section, page))
      BY <1>1, <2>1, PagedMoves
    <3> QED
      BY <1>1, <3>1, <3>2, Pages
  <2> QED
    BY <1>1, <1>2, <1>3, <1>6, <2>1 DEF ReadDashboard
<1> QED
  BY <1>1, <1>4, <1>5, <1>6 DEF Reading

ChangeRoutes == {"slackOAuthInstallStart", "installationCommand", "installCreate", "installRequestCreate",
                 "rollbackCreate", "approvalDecisionCreate", "serviceTokenCollection"}

(***************************************************************************)
(* A step of a change: it leaves the stores alone, or takes effect.        *)
(***************************************************************************)
Leaves(c) ==
    LET r == requests[c]
        s == requests'[c]
    IN /\ unchanged /\ OnlySlot(c) /\ r.phase \in Working
       /\ \/ IsOver(s)
          \/ /\ SameCaller(r, s) /\ r.phase # "recovering"
             /\ \/ s.phase \in Installing /\ r.route = "installCreate"
                \/ s.phase = "revoking" /\ r.route = "serviceTokenCollection" /\ r.method = "DELETE"

TakesEffect(c) ==
    LET r == requests[c]
        s == requests'[c]
    IN /\ effect(r) /\ stable /\ OnlySlot(c) /\ r.route \in ChangeRoutes
       /\ r.phase \in {"working", "revoking", "writing"}
       /\ \/ IsOver(s)
          \/ r.phase = "writing" /\ SameCaller(r, s) /\ s.phase = "recovering"

LEMMA UnkeyedStep ==
  ASSUME NEW c \in Slots, RequestShape, NEW route \in ChangeRoutes, working(c, route),
         NEW result, NEW again, unkeyed(c, result, again)
  PROVE  Leaves(c) \/ (TakesEffect(c) /\ UNCHANGED <<tokens, keys>>)
<1>1. requests[c].phase = "working" /\ requests[c].route = route /\ requests[c].phase \in Busy
  BY DEF working, at, Busy, Phases
<1>2. ASSUME NEW answer, Respond(c, answer)
      PROVE  OnlySlot(c) /\ IsOver(requests'[c])
  BY <1>1, <1>2, Responded
<1>3. /\ internalError(c) => OnlySlot(c) /\ IsOver(requests'[c])
      /\ \A outcome : refuse(c, outcome) => OnlySlot(c) /\ IsOver(requests'[c])
  BY <1>1, Ended
<1>4. CASE unchanged /\ (internalError(c) \/ refuse(c, result.outcome) \/ Respond(c, Answer(200, None, result.row)))
  BY <1>1, <1>2, <1>3, <1>4 DEF Leaves, Working
<1>5. CASE /\ change(c, result) /\ UNCHANGED keys
           /\ Respond(c, Answer(200, None, result.row)) \/ refuse(c, again) \/ internalError(c)
  BY <1>1, <1>2, <1>3, <1>5 DEF TakesEffect, change
<1> QED
  BY <1>4, <1>5 DEF unkeyed

LEMMA KeyedStep ==
  ASSUME NEW c \in Slots, RequestShape, NEW route \in ChangeRoutes, working(c, route),
         NEW kind, NEW success, NEW result, keyedChange(c, kind, success, result)
  PROVE  LET r == requests[c] IN
         \/ Leaves(c)
         \/ /\ TakesEffect(c) /\ UNCHANGED tokens
            /\ recordOf(r.database, kind, r.who, r.key, r.now) = {}
            /\ remember(r.database, kind, r.who, r.key, r.command, result.row, r.now)
<1> DEFINE r == requests[c]
           known == recordOf(r.database, kind, r.who, r.key, r.now)
           replay == resolveReplay(CHOOSE k \in known : TRUE, r.command)
<1>1. r.phase = "working" /\ r.route = route /\ r.phase \in Busy
  BY DEF working, at, Busy, Phases
<1>2. ASSUME NEW answer, Respond(c, answer)
      PROVE  OnlySlot(c) /\ IsOver(requests'[c])
  BY <1>1, <1>2, Responded
<1>3. /\ internalError(c) => OnlySlot(c) /\ IsOver(requests'[c])
      /\ \A outcome : refuse(c, outcome) => OnlySlot(c) /\ IsOver(requests'[c])
  BY <1>1, Ended
<1>4. CASE unchanged /\ \/ internalError(c) \/ refuse(c, result.outcome) \/ refuse(c, replay.outcome)
                        \/ Respond(c, Answer(success, None, replay.row))
  BY <1>1, <1>2, <1>3, <1>4 DEF Leaves, Working
<1>5. CASE /\ known = {} /\ change(c, result)
           /\ remember(r.database, kind, r.who, r.key, r.command, result.row, r.now)
           /\ Respond(c, Answer(success, None, result.row)) \/ internalError(c)
  BY <1>1, <1>2, <1>3, <1>5 DEF TakesEffect, change
<1> QED
  BY <1>4, <1>5 DEF keyedChange

kindOf(route) == CASE route = "rollbackCreate" -> "rollback"
                   [] route = "installRequestCreate" -> "request"
                   [] OTHER -> "install"

KeyedRoutes == {"installCreate", "installRequestCreate", "rollbackCreate"}

(***************************************************************************)
(* What a change does to the keys and to the tokens.                       *)
(***************************************************************************)
TakesKey(c) ==
    LET r == requests[c] IN
    /\ TakesEffect(c) /\ UNCHANGED tokens /\ r.route \in KeyedRoutes
    /\ recordOf(r.database, kindOf(r.route), r.who, r.key, r.now) = {}
    /\ \E row : remember(r.database, kindOf(r.route), r.who, r.key, r.command, row, r.now)

TakesNoKey(c) ==
    /\ TakesEffect(c) /\ UNCHANGED <<tokens, keys>>
    /\ requests[c].route \in ChangeRoutes \ (KeyedRoutes \cup {"serviceTokenCollection"})

Issues(c) ==
    LET r == requests[c] IN
    /\ TakesEffect(c) /\ UNCHANGED keys /\ r.route = "serviceTokenCollection" /\ r.method = "POST"
    /\ assertValidIssue(r.who, r.command) = None /\ unusedTokenIds # {}
    /\ tokens' = tokens \cup {tokenRecord(r.who, r.command)}

Revokes(c) ==
    LET r == requests[c] IN
    /\ TakesEffect(c) /\ UNCHANGED keys /\ r.route = "serviceTokenCollection" /\ r.method = "DELETE"
    /\ revokeToken(r.query.id, r.who, r.now)

LEMMA InstallStep ==
  ASSUME NEW c \in Slots, RequestShape, install(c) \/ install_Propose(c) \/ install_Write(c) \/ install_Recover(c)
  PROVE  Leaves(c) \/ TakesKey(c)
<1> DEFINE r == requests[c]
<1>1. r.phase \in Working /\ r.phase \in Busy /\ r.route = "installCreate"
  BY DEF install, install_Propose, install_Write, install_Recover, working, at, Busy, Phases, Working,
         Installing, RequestShape, SlotInv
<1>2. ASSUME NEW answer, Respond(c, answer)
      PROVE  OnlySlot(c) /\ IsOver(requests'[c])
  BY <1>1, <1>2, Responded
<1>3. /\ internalError(c) => OnlySlot(c) /\ IsOver(requests'[c])
      /\ \A outcome : refuse(c, outcome) => OnlySlot(c) /\ IsOver(requests'[c])
  BY <1>1, Ended
<1>4. ASSUME NEW records, answerByRecord(c, records)
      PROVE  OnlySlot(c) /\ IsOver(requests'[c])
  BY <1>2, <1>3, <1>4 DEF answerByRecord
<1>5. ASSUME NEW p \in Installing, Advance(c, p)
      PROVE  OnlySlot(c) /\ SameCaller(r, requests'[c]) /\ requests'[c].phase = p
  BY <1>1, <1>5, AdvanceMoves DEF Installing, Busy, Phases
<1>6. CASE install(c)
  BY <1>1, <1>3, <1>4, <1>5, <1>6 DEF install, working, at, Leaves, Working, Installing
<1>7. CASE install_Propose(c)
  BY <1>1, <1>3, <1>5, <1>7 DEF install_Propose, at, Leaves, Working, Installing
<1>8. CASE install_Recover(c)
  BY <1>1, <1>3, <1>4, <1>8 DEF install_Recover, at, Leaves, Working, Installing
<1>9. CASE install_Write(c)
  <2>1. r.phase = "writing"
    BY <1>9 DEF install_Write, at
  <2>2. CASE Advance(c, "recovering") /\ unchanged
    BY <1>1, <1>5, <2>1, <2>2 DEF Leaves, Working, Installing
  <2>3. CASE \E id \in freshIds(r.database, "installations") :
                 /\ installBatch(c, id)
                 /\ (\E answer : Respond(c, answer)) \/ Advance(c, "recovering")
    <3>1. PICK id : /\ installBatch(c, id)
                    /\ (\E answer : Respond(c, answer)) \/ Advance(c, "recovering")
      BY <2>3
    <3>2. /\ recordOf(r.database, "install", r.who, r.key, r.now) = {}
          /\ effect(r) /\ stable /\ UNCHANGED tokens
          /\ \E row : remember(r.database, "install", r.who, r.key, r.command, row, r.now)
      BY <3>1 DEF installBatch, installRecords, change
    <3>3. OnlySlot(c) /\ (IsOver(requests'[c]) \/ (SameCaller(r, requests'[c]) /\ requests'[c].phase = "recovering"))
      BY <1>2, <1>5, <3>1 DEF Installing
    <3>4. kindOf(r.route) = "install"
      BY <1>1 DEF kindOf
    <3> QED
      BY <1>1, <2>1, <3>2, <3>3, <3>4 DEF TakesKey, TakesEffect, KeyedRoutes, ChangeRoutes
  <2> QED
    BY <1>9, <2>2, <2>3 DEF install_Write
<1> QED
  BY <1>6, <1>7, <1>8, <1>9

LEMMA TokenStep ==
  ASSUME NEW c \in Slots, RequestShape,
         serviceTokenManager_issue(c) \/ serviceTokenManager_revoke(c) \/ revoke_Update(c)
  PROVE  Leaves(c) \/ Issues(c) \/ Revokes(c)
<1> DEFINE r == requests[c]
<1>1. /\ r.phase \in {"working", "revoking"} /\ r.phase \in Busy /\ r.route = "serviceTokenCollection"
      /\ r.phase = "revoking" => r.method = "DELETE"
  BY DEF serviceTokenManager_issue, serviceTokenManager_revoke, revoke_Update, tokenRoute, working, at, Busy,
         Phases, RequestShape, SlotInv
<1>2. ASSUME NEW answer, Respond(c, answer)
      PROVE  OnlySlot(c) /\ IsOver(requests'[c])
  BY <1>1, <1>2, Responded
<1>3. /\ internalError(c) => OnlySlot(c) /\ IsOver(requests'[c])
      /\ \A outcome : refuse(c, outcome) => OnlySlot(c) /\ IsOver(requests'[c])
      /\ \A st, code : Fail(c, st, code) => OnlySlot(c) /\ IsOver(requests'[c])
  BY <1>1, Ended
<1>4. CASE serviceTokenManager_issue(c)
  <2> DEFINE refusal == assertValidIssue(r.who, r.command)
  <2>1. CASE unchanged /\ (internalError(c) \/ refuse(c, refusal))
    BY <1>1, <1>3, <2>1 DEF Leaves, Working
  <2>2. CASE /\ refusal = None /\ unusedTokenIds # {}
             /\ tokens' = tokens \cup {tokenRecord(r.who, r.command)}
             /\ effect(r) /\ stable /\ UNCHANGED stores
             /\ \/ Respond(c, Answer(201, None, tokenRecord(r.who, r.command).credential))
                \/ internalError(c)
    <3>1. TakesEffect(c)
      BY <1>1, <1>2, <1>3, <2>2 DEF TakesEffect, ChangeRoutes
    <3> QED
      BY <1>1, <1>4, <2>2, <3>1 DEF Issues, stores, serviceTokenManager_issue, tokenRoute
  <2> QED
    BY <1>4, <2>1, <2>2 DEF serviceTokenManager_issue
<1>5. CASE serviceTokenManager_revoke(c)
  <2>1. CASE internalError(c) \/ Fail(c, 404, "service_token_not_found")
    BY <1>1, <1>3, <1>5, <2>1 DEF Leaves, Working, serviceTokenManager_revoke
  <2>2. CASE Advance(c, "revoking")
    <3>1. OnlySlot(c) /\ SameCaller(r, requests'[c]) /\ requests'[c].phase = "revoking"
      BY <1>1, <2>2, AdvanceMoves DEF Busy, Phases
    <3>2. r.method = "DELETE" /\ r.phase \in Working /\ r.phase # "recovering" /\ unchanged
      BY <1>1, <1>5 DEF serviceTokenManager_revoke, tokenRoute, Working
    <3> QED
      BY <1>1, <3>1, <3>2 DEF Leaves
  <2> QED
    BY <1>5, <2>1, <2>2 DEF serviceTokenManager_revoke
<1>6. CASE revoke_Update(c)
  <2>1. CASE unchanged /\ internalError(c)
    BY <1>1, <1>3, <2>1 DEF Leaves, Working
  <2>2. CASE /\ revokeToken(r.query.id, r.who, r.now)
             /\ effect(r) /\ stable /\ UNCHANGED stores
             /\ Respond(c, Answer(204, None, None)) \/ internalError(c)
    <3>1. TakesEffect(c)
      BY <1>1, <1>2, <1>3, <2>2 DEF TakesEffect, ChangeRoutes
    <3>2. r.method = "DELETE"
      BY <1>1, <1>6 DEF revoke_Update, at
    <3> QED
      BY <1>1, <2>2, <3>1, <3>2 DEF Revokes, stores
  <2> QED
    BY <1>6, <2>1, <2>2 DEF revoke_Update
<1> QED
  BY <1>4, <1>5, <1>6

LEMMA ChangeStep ==
  ASSUME NEW c \in Slots, RequestShape, Changing(c)
  PROVE  Leaves(c) \/ TakesKey(c) \/ TakesNoKey(c) \/ Issues(c) \/ Revokes(c)
<1> DEFINE r == requests[c]
<1>1. CASE installationCommandStore_updateInstallation(c)
  <2>1. working(c, "installationCommand") /\ r.route = "installationCommand"
    BY <1>1 DEF installationCommandStore_updateInstallation, working
  <2>2. unkeyed(c, updateInstallation(r.database, r.who, r.command), "conflict")
    BY <1>1 DEF installationCommandStore_updateInstallation
  <2>3. "installationCommand" \in ChangeRoutes
    BY DEF ChangeRoutes
  <2>4. Leaves(c) \/ (TakesEffect(c) /\ UNCHANGED <<tokens, keys>>)
    BY <2>1, <2>2, <2>3, UnkeyedStep
  <2> QED
    BY <2>1, <2>4 DEF TakesNoKey, KeyedRoutes, ChangeRoutes
<1>2. CASE approvalDecisionStore_decide(c)
  <2>1. working(c, "approvalDecisionCreate") /\ r.route = "approvalDecisionCreate"
    BY <1>2 DEF approvalDecisionStore_decide, working
  <2>2. PICK id : unkeyed(c, decide(r.database, id, r.who, r.command), "approval_already_decided")
    BY <1>2 DEF approvalDecisionStore_decide
  <2>3. "approvalDecisionCreate" \in ChangeRoutes
    BY DEF ChangeRoutes
  <2>4. Leaves(c) \/ (TakesEffect(c) /\ UNCHANGED <<tokens, keys>>)
    BY <2>1, <2>2, <2>3, UnkeyedStep
  <2> QED
    BY <2>1, <2>4 DEF TakesNoKey, KeyedRoutes, ChangeRoutes
<1>3. CASE rollbackStore_rollback(c)
  <2>1. working(c, "rollbackCreate") /\ r.route = "rollbackCreate"
    BY <1>3 DEF rollbackStore_rollback, working
  <2>2. keyedChange(c, "rollback", 200, rollback(r.database, r.who, r.command))
    BY <1>3 DEF rollbackStore_rollback
  <2>3. "rollbackCreate" \in ChangeRoutes
    BY DEF ChangeRoutes
  <2>4. \/ Leaves(c)
        \/ /\ TakesEffect(c) /\ UNCHANGED tokens
           /\ recordOf(r.database, "rollback", r.who, r.key, r.now) = {}
           /\ \E row : remember(r.database, "rollback", r.who, r.key, r.command, row, r.now)
    BY <2>1, <2>2, <2>3, KeyedStep
  <2> QED
    BY <2>1, <2>4 DEF TakesKey, KeyedRoutes, kindOf
<1>4. CASE installRequestStore_requestInstallation(c)
  <2>1. working(c, "installRequestCreate") /\ r.route = "installRequestCreate"
    BY <1>4 DEF installRequestStore_requestInstallation, working
  <2>2. PICK id : keyedChange(c, "request", 201, requestInstallation(id, r.who, r.command))
    BY <1>4 DEF installRequestStore_requestInstallation
  <2>3. "installRequestCreate" \in ChangeRoutes
    BY DEF ChangeRoutes
  <2>4. \/ Leaves(c)
        \/ /\ TakesEffect(c) /\ UNCHANGED tokens
           /\ recordOf(r.database, "request", r.who, r.key, r.now) = {}
           /\ \E row : remember(r.database, "request", r.who, r.key, r.command, row, r.now)
    BY <2>1, <2>2, <2>3, KeyedStep
  <2> QED
    BY <2>1, <2>4 DEF TakesKey, KeyedRoutes, kindOf
<1>5. CASE slackOAuthInstallStartService_start(c)
  <2>1. r.route = "slackOAuthInstallStart" /\ r.phase = "working" /\ r.phase \in Busy
    BY <1>5 DEF slackOAuthInstallStartService_start, working, at, Busy, Phases
  <2>2. OnlySlot(c) /\ IsOver(requests'[c])
    BY <1>5, <2>1, Responded DEF slackOAuthInstallStartService_start, Fail
  <2>3. TakesEffect(c) /\ UNCHANGED <<tokens, keys>>
    BY <1>5, <2>1, <2>2 DEF slackOAuthInstallStartService_start, TakesEffect, stores, ChangeRoutes
  <2> QED
    BY <2>1, <2>3 DEF TakesNoKey, KeyedRoutes, ChangeRoutes
<1> QED
  BY <1>1, <1>2, <1>3, <1>4, <1>5, InstallStep, TokenStep DEF Changing

LEMMA Arrival ==
  ASSUME NEW form
  PROVE  LET s == fresh(form) IN
         /\ DOMAIN s = RequestFields /\ s.phase = "arrived" /\ s.gone = FALSE /\ s.who = None
         /\ s.credential = form.credential /\ s.route = form.route
BY DEF fresh, RequestFields

LEMMA ClosedIdle == [Idle EXCEPT !.gone = TRUE] = Idle
<1> DEFINE s == [Idle EXCEPT !.gone = TRUE]
<1>1. s = [x \in {"phase"} |-> IF x = "gone" THEN TRUE ELSE Idle[x]]
  BY DEF Idle
<1>2. Idle = [x \in {"phase"} |-> "idle"]
  BY DEF Idle
<1> QED
  BY <1>1, <1>2

(***************************************************************************)
(* What a client does to a slot.                                           *)
(***************************************************************************)
ClientMove(r, s) ==
    \/ s = r \/ s = Idle
    \/ Alike(r, s) /\ s.phase = r.phase /\ s.phase \in Busy
    \/ DOMAIN s = RequestFields /\ s.phase = "arrived"

(***************************************************************************)
(* At most one request is sent, and has the next number.                   *)
(***************************************************************************)
Numbering ==
    \/ /\ sent' = sent
       /\ \A c \in Slots : requests'[c] # Idle => requests[c] # Idle /\ requests'[c].n = requests[c].n
    \/ sent' = sent + 1 /\ \E c \in Slots : OnlySlot(c) /\ requests'[c].n = sent

ClientStep ==
    /\ DOMAIN requests' = Slots /\ \A c \in Slots : ClientMove(requests[c], requests'[c])
    /\ Numbering

LEMMA Closing ==
  ASSUME NEW c \in Slots, RequestShape
  PROVE  /\ ClientMove(requests[c], closed(c))
         /\ closed(c) # Idle => requests[c] # Idle /\ closed(c).n = requests[c].n
<1> DEFINE r == requests[c]
<1>1. CASE at(c, "answered")
  BY <1>1 DEF closed, ClientMove
<1>2. CASE ~at(c, "answered") /\ r = Idle
  BY <1>2, ClosedIdle DEF closed, ClientMove
<1>3. CASE ~at(c, "answered") /\ r # Idle
  <2>1. IsBusy(r)
    BY <1>3 DEF RequestShape, SlotInv, IsOver, at
  <2>2. LET s == [r EXCEPT !.gone = TRUE] IN Alike(r, s) /\ s.phase = r.phase
    BY <2>1 DEF IsBusy, Alike, RequestFields
  <2> QED
    BY <1>3, <2>1, <2>2 DEF closed, ClientMove, IsBusy, Alike
<1> QED
  BY <1>1, <1>2, <1>3

LEMMA SendMoves ==
  ASSUME NEW c \in Slots, RequestShape, NEW form, Send(c, form)
  PROVE  ClientStep
<1>1. requests' = [requests EXCEPT ![c] = fresh(form)]
  BY DEF Send
<1>2. OnlySlot(c) /\ requests'[c] = fresh(form)
  BY <1>1, Moved
<1>3. DOMAIN fresh(form) = RequestFields /\ fresh(form).phase = "arrived"
  BY Arrival
<1>4. fresh(form).n = sent
  BY DEF fresh
<1>5. Numbering
  BY <1>2, <1>4 DEF Numbering, Send
<1> QED
  BY <1>2, <1>3, <1>5 DEF OnlySlot, ClientStep, ClientMove

LEMMA CallMoves ==
  ASSUME NEW c \in Slots, RequestShape
  PROVE  /\ \A form, then : Call(c, form, then) => ClientStep
         /\ \A form, then : CallAgain(c, form, then) => ClientStep
BY SendMoves DEF Call, CallAgain

LEMMA ReceiveMoves ==
  ASSUME NEW c \in Slots, RequestShape, Receive(c)
  PROVE  ClientStep
<1>1. requests' = [requests EXCEPT ![c] = closed(c)]
  BY DEF Receive
<1>2. OnlySlot(c) /\ requests'[c] = closed(c)
  BY <1>1, Moved
<1>3. Numbering
  BY <1>2, Closing DEF OnlySlot, Numbering, Receive
<1> QED
  BY <1>2, <1>3, Closing DEF OnlySlot, ClientStep, ClientMove

LEMMA SigningMoves ==
  ASSUME NEW c \in Slots, RequestShape, Signing(c)
  PROVE  ClientStep /\ quiet
<1>0. /\ \A form, then : Call(c, form, then) => ClientStep
      /\ \A form, then : CallAgain(c, form, then) => ClientStep
      /\ Receive(c) => ClientStep
  BY CallMoves, ReceiveMoves
<1>1. CASE LoginPanel(c)
  BY <1>0, <1>1 DEF LoginPanel
<1>2. CASE LoginPanel_then(c)
  BY <1>0, <1>2 DEF LoginPanel_then
<1>3. CASE AdminShell_load(c)
  BY <1>0, <1>3 DEF AdminShell_load
<1>4. CASE AdminShell_loadThen(c)
  BY <1>0, <1>4 DEF AdminShell_loadThen
<1> QED
  BY <1>1, <1>2, <1>3, <1>4 DEF Signing

LEMMA BrowsingMoves ==
  ASSUME NEW c \in Slots, RequestShape, Browsing(c)
  PROVE  ClientStep /\ quiet
<1>0. /\ \A form, then : Call(c, form, then) => ClientStep
      /\ \A form, then : CallAgain(c, form, then) => ClientStep
      /\ Receive(c) => ClientStep
  BY CallMoves, ReceiveMoves
<1>1. CASE refreshDashboard(c)
  BY <1>0, <1>1 DEF refreshDashboard
<1>2. CASE loadMore(c)
  BY <1>0, <1>2 DEF loadMore
<1>3. CASE loadMore_then(c)
  BY <1>0, <1>3 DEF loadMore_then
<1>4. CASE openPermissionReview(c)
  BY <1>0, <1>4 DEF openPermissionReview
<1>5. CASE openPermissionReview_then(c)
  BY <1>0, <1>5 DEF openPermissionReview_then
<1>6. CASE ExecutionsPanel_openDetail(c)
  BY <1>0, <1>6 DEF ExecutionsPanel_openDetail
<1>7. CASE ExecutionsPanel_openDetailThen(c)
  BY <1>0, <1>7 DEF ExecutionsPanel_openDetailThen
<1>8. CASE submitSearch(c)
  BY <1>0, <1>8 DEF submitSearch, runSearch
<1>9. CASE ExecutionsPanel_loadMore(c)
  BY <1>0, <1>9 DEF ExecutionsPanel_loadMore, runSearch
<1>10. CASE ExecutionsPanel_found(c)
  BY <1>0, <1>10 DEF ExecutionsPanel_found
<1> QED
  BY <1>1, <1>2, <1>3, <1>4, <1>5, <1>6, <1>7, <1>8, <1>9, <1>10 DEF Browsing

LEMMA AdministeringMoves ==
  ASSUME NEW c \in Slots, RequestShape, Administering(c)
  PROVE  ClientStep /\ quiet
<1>0. /\ \A form, then : Call(c, form, then) => ClientStep
      /\ \A form, then : CallAgain(c, form, then) => ClientStep
      /\ Receive(c) => ClientStep
  BY CallMoves, ReceiveMoves
<1>1. CASE InstallationCommandPanel(c)
  BY <1>0, <1>1 DEF InstallationCommandPanel
<1>2. CASE updateInstallation_then(c)
  BY <1>0, <1>2 DEF updateInstallation_then
<1>3. CASE openInstallPreview(c)
  BY <1>0, <1>3 DEF openInstallPreview
<1>4. CASE openInstallPreview_then(c)
  BY <1>0, <1>4 DEF openInstallPreview_then
<1>5. CASE InstallFlowPanel_confirm(c)
  BY <1>0, <1>5 DEF InstallFlowPanel_confirm
<1>6. CASE installPlugin(c)
  BY <1>0, <1>6 DEF installPlugin
<1>7. CASE requestInstallation_then(c)
  BY <1>0, <1>7 DEF requestInstallation_then
<1>8. CASE confirmRollback(c)
  BY <1>0, <1>8 DEF confirmRollback
<1>9. CASE rollbackInstallation_then(c)
  BY <1>0, <1>9 DEF rollbackInstallation_then
<1>10. CASE ApprovalsPanel_confirmDecision(c)
  BY <1>0, <1>10 DEF ApprovalsPanel_confirmDecision
<1>11. CASE decideApproval_then(c)
  BY <1>0, <1>11 DEF decideApproval_then
<1> QED
  BY <1>1, <1>2, <1>3, <1>4, <1>5, <1>6, <1>7, <1>8, <1>9, <1>10, <1>11 DEF Administering

LEMMA OtherMoves ==
  ASSUME RequestShape,
         App_onLogout \/ VersionsPanel_rollback \/ VersionsPanel_cancel
            \/ \E c \in Slots : Ask(c) \/ Answered(c)
  PROVE  ClientStep /\ quiet
<1>1. CASE App_onLogout
  <2>1. requests' = [c \in Slots |-> IF waits[c] = None THEN requests[c] ELSE closed(c)]
    BY <1>1 DEF App_onLogout
  <2>2. ASSUME NEW c \in Slots
        PROVE  ClientMove(requests[c], requests'[c])
    <3>1. requests'[c] = requests[c] \/ requests'[c] = closed(c)
      BY <2>1
    <3> QED
      BY <3>1, Closing DEF ClientMove
  <2>3. Numbering
    BY <1>1, <2>1, Closing DEF App_onLogout, Numbering
  <2> QED
    BY <1>1, <2>1, <2>2, <2>3 DEF App_onLogout, ClientStep
<1>2. CASE VersionsPanel_rollback \/ VersionsPanel_cancel
  BY <1>2 DEF VersionsPanel_rollback, VersionsPanel_cancel, ClientStep, ClientMove, Numbering, RequestShape
<1>3. ASSUME NEW c \in Slots, Ask(c)
      PROVE  ClientStep /\ quiet
  <2>1. \E form : Send(c, form)
    BY <1>3 DEF Ask
  <2> QED
    BY <1>3, <2>1, SendMoves DEF Ask
<1>4. ASSUME NEW c \in Slots, Answered(c)
      PROVE  ClientStep /\ quiet
  <2>1. requests' = [requests EXCEPT ![c] = Idle]
    BY <1>4 DEF Answered
  <2>2. OnlySlot(c) /\ requests'[c] = Idle
    BY <2>1, Moved
  <2> QED
    BY <1>4, <2>2 DEF Answered, OnlySlot, ClientStep, ClientMove, Numbering
<1> QED
  BY <1>1, <1>2, <1>3, <1>4

(***************************************************************************)
(* Every step is the Worker's, a client's, or something elsewhere.         *)
(***************************************************************************)
LEMMA StepKinds ==
  ASSUME RequestShape, Next
  PROVE  \/ \E c \in Slots : Serve(c) /\ UNCHANGED console
         \/ ClientStep /\ quiet
         \/ RecordExecution \/ OtherAdministrator \/ Tick
<1>1. ASSUME NEW c \in Slots, Signing(c) \/ Browsing(c) \/ Administering(c)
      PROVE  ClientStep /\ quiet
  BY <1>1, SigningMoves, BrowsingMoves, AdministeringMoves
<1> QED
  BY <1>1, OtherMoves DEF Next, Worker

LEMMA ServeKeepsShape ==
  ASSUME NEW c \in Slots, RequestShape, Serve(c)
  PROVE  RequestShape'
<1> DEFINE r == requests[c]
           s == requests'[c]
<1>0. ASSUME OnlySlot(c), SlotInv(s)
      PROVE  RequestShape'
  BY <1>0 DEF OnlySlot, RequestShape
<1>1. IsOver(s) => SlotInv(s)
  BY DEF SlotInv, Installing, IsOver, Idle
<1>2. ASSUME SameForm(r, s), s.phase \in Early
      PROVE  SlotInv(s)
  BY <1>2 DEF SlotInv, Installing, IsBusy, SameForm, Early, Busy, Phases
<1>3. ASSUME SameForm(r, s), s.phase = "working"
      PROVE  SlotInv(s)
  BY <1>3 DEF SlotInv, Installing, IsBusy, SameForm, Busy, Phases
<1>4. ASSUME SameForm(r, s),
             \/ s.phase \in Installing /\ r.route = "installCreate"
             \/ s.phase = "revoking" /\ r.route = "serviceTokenCollection" /\ r.method = "DELETE"
      PROVE  SlotInv(s)
  BY <1>4 DEF SlotInv, IsBusy, SameForm, Busy, Phases, Installing
<1>5. CASE Fetch(c)
  BY <1>0, <1>1, <1>2, <1>5, FetchStep DEF Early
<1>6. CASE resolveRequestDatabase(c)
  BY <1>0, <1>1, <1>2, <1>6, RouteStep DEF Early
<1>7. CASE Handle(c)
  BY <1>0, <1>1, <1>2, <1>7, HandleStep DEF Early
<1>8. CASE resolveAdminIdentity(c)
  BY <1>0, <1>1, <1>2, <1>3, <1>8, AdmitStep DEF Early
<1>9. CASE reserveAdminMutation(c)
  BY <1>0, <1>1, <1>3, <1>9, ReserveStep
<1>10. CASE Reading(c)
  BY <1>0, <1>1, <1>3, <1>10, ReadStep DEF SameCaller
<1>11. CASE Changing(c)
  <2>1. CASE Leaves(c)
    BY <1>0, <1>1, <1>4, <2>1 DEF Leaves, SameCaller
  <2>2. CASE TakesEffect(c)
    <3>1. r.phase = "writing" => r.route = "installCreate"
      BY DEF RequestShape, SlotInv, Installing
    <3> QED
      BY <1>0, <1>1, <1>4, <2>2, <3>1 DEF TakesEffect, SameCaller, Installing
  <2> QED
    BY <1>11, <2>1, <2>2, ChangeStep DEF TakesKey, TakesNoKey, Issues, Revokes
<1> QED
  BY <1>5, <1>6, <1>7, <1>8, <1>9, <1>10, <1>11 DEF Serve

LEMMA NextKeepsShape ==
  ASSUME RequestShape, [Next]_vars
  PROVE  RequestShape'
<1>1. CASE UNCHANGED requests
  BY <1>1 DEF RequestShape
<1>2. CASE ClientStep
  <2>1. ASSUME NEW c \in Slots
        PROVE  SlotInv(requests'[c])
    <3> DEFINE r == requests[c]
               s == requests'[c]
    <3>1. ClientMove(r, s) /\ SlotInv(r)
      BY <1>2 DEF ClientStep, RequestShape
    <3>2. CASE s = r \/ s = Idle
      BY <3>1, <3>2 DEF SlotInv, Installing, IsOver, Idle
    <3>3. CASE Alike(r, s) /\ s.phase = r.phase /\ s.phase \in Busy
      BY <3>1, <3>3 DEF SlotInv, IsBusy, Alike
    <3>4. CASE DOMAIN s = RequestFields /\ s.phase = "arrived"
      BY <3>4 DEF SlotInv, Installing, IsBusy, Busy, Phases
    <3> QED
      BY <3>1, <3>2, <3>3, <3>4 DEF ClientMove
  <2> QED
    BY <1>2, <2>1 DEF ClientStep, RequestShape
<1>3. ASSUME RecordExecution \/ OtherAdministrator \/ Tick \/ UNCHANGED vars
      PROVE  UNCHANGED requests
  BY <1>3 DEF RecordExecution, OtherAdministrator, Tick, elsewhere, vars, api
<1> QED
  BY <1>1, <1>2, <1>3, StepKinds, ServeKeepsShape

(***************************************************************************)
(* Every slot holds a request that is well formed, or none: what a handler *)
(* reads of its caller, its route and its clock was there before it        *)
(* (http-api.ts:85-219).                                                   *)
(***************************************************************************)
LEMMA RequestsAreShaped == Spec => []RequestShape
<1>1. Init => RequestShape
  BY DEF Init, RequestShape, SlotInv, Installing, IsOver, Idle
<1>2. RequestShape /\ [Next]_vars => RequestShape'
  BY NextKeepsShape
<1> QED
  BY <1>1, <1>2, PTL DEF Spec

-----------------------------------------------------------------------------
(* The limit of changes.                                                    *)

(***************************************************************************)
(* What counts in a bucket: changes that took effect and those that still  *)
(* may, by the window they were counted in.                                *)
(***************************************************************************)
Held(b) ==
    {e \in effects : e.bucket = b}
    \cup {effectOf(requests[c]) : c \in {d \in Slots : IsPending(requests[d]) /\ bucketOf(requests[d]) = b}}

AtStart(b, t) == {e \in Held(b) : e.start = t}

(***************************************************************************)
(* The windows of a bucket are a length apart, none holds more than the    *)
(* limit, and the one that is open no more than the record counts.         *)
(***************************************************************************)
WindowsApart(b) ==
    \A e \in Held(b) :
        /\ b \in DOMAIN buckets /\ e.start \in Nat
        /\ e.start = buckets[b].start \/ e.start + Window <= buckets[b].start
        /\ \A f \in Held(b) : f.start <= e.start \/ f.start >= e.start + Window

WindowsFull(b) ==
    /\ \A e \in Held(b) : IsFiniteSet(AtStart(b, e.start)) /\ Cardinality(AtStart(b, e.start)) <= Limit
    /\ b \in DOMAIN buckets =>
         /\ IsFiniteSet(AtStart(b, buckets[b].start))
         /\ Cardinality(AtStart(b, buckets[b].start)) <= buckets[b].count

Counters == [start : Nat, count : 1..Limit]

WindowInv ==
    /\ clock \in Nat
    /\ \A b \in DOMAIN buckets : buckets[b] \in Counters
    /\ \A c \in Slots : requests[c].phase = "reserving" => requests[c].now \in Nat
    /\ \A b : b \notin late => WindowsApart(b) /\ WindowsFull(b)

LEMMA Fewer ==
  ASSUME NEW S, NEW T, NEW n \in Nat, S \subseteq T, IsFiniteSet(T), Cardinality(T) <= n
  PROVE  IsFiniteSet(S) /\ Cardinality(S) <= n
<1>1. IsFiniteSet(S) /\ Cardinality(S) <= Cardinality(T)
  BY FS_Subset
<1>2. Cardinality(S) \in Nat /\ Cardinality(T) \in Nat
  BY <1>1, FS_CardinalityType
<1> QED
  BY <1>1, <1>2

(***************************************************************************)
(* A bucket whose record stays and that holds nothing new.                 *)
(***************************************************************************)
LEMMA WindowsShrink ==
  ASSUME NEW b, WindowsApart(b), WindowsFull(b), Held(b)' \subseteq Held(b),
         b \in DOMAIN buckets => /\ buckets[b] \in Counters
                                 /\ b \in DOMAIN buckets' /\ buckets'[b] = buckets[b],
         b \notin DOMAIN buckets => b \notin DOMAIN buckets'
  PROVE  WindowsApart(b)' /\ WindowsFull(b)'
<1>1. WindowsApart(b)'
  BY DEF WindowsApart
<1>2. ASSUME NEW t
      PROVE  AtStart(b, t)' \subseteq AtStart(b, t)
  BY DEF AtStart
<1>3. Limit \in Nat
  BY LimitAssumption
<1>4. ASSUME NEW e \in Held(b)'
      PROVE  IsFiniteSet(AtStart(b, e.start)') /\ Cardinality(AtStart(b, e.start)') <= Limit
  <2>1. IsFiniteSet(AtStart(b, e.start)) /\ Cardinality(AtStart(b, e.start)) <= Limit
    BY DEF WindowsFull
  <2> QED
    BY <1>2, <1>3, <2>1, Fewer
<1>5. ASSUME b \in DOMAIN buckets', NEW t, t = buckets'[b].start
      PROVE  IsFiniteSet(AtStart(b, t)') /\ Cardinality(AtStart(b, t)') <= buckets'[b].count
  <2>1. IsFiniteSet(AtStart(b, t)) /\ Cardinality(AtStart(b, t)) <= buckets[b].count
    BY <1>5 DEF WindowsFull
  <2>2. buckets[b].count \in Nat
    BY <1>3, <1>5 DEF Counters
  <2>3. IsFiniteSet(AtStart(b, t)') /\ Cardinality(AtStart(b, t)') <= buckets[b].count
    BY <1>2, <2>1, <2>2, Fewer
  <2> QED
    BY <1>5, <2>3
<1> QED
  BY <1>1, <1>4, <1>5 DEF WindowsFull

(***************************************************************************)
(* A bucket that starts a window, or counts one more in the open one.      *)
(***************************************************************************)
LEMMA WindowOpens ==
  ASSUME NEW b, WindowsApart(b), WindowsFull(b), NEW x, NEW now \in Nat,
         Held(b)' \subseteq Held(b) \cup {x}, x.start = now,
         b \in DOMAIN buckets => buckets[b] \in Counters /\ now >= buckets[b].start + Window,
         b \in DOMAIN buckets', buckets'[b] = [start |-> now, count |-> 1]
  PROVE  WindowsApart(b)' /\ WindowsFull(b)'
<1>1. Limit \in Nat /\ Limit >= 1 /\ Window \in Nat /\ Window > 0
  BY LimitAssumption
<1>2. ASSUME NEW e \in Held(b)
      PROVE  e.start \in Nat /\ e.start + Window <= now
  <2>1. /\ b \in DOMAIN buckets /\ e.start \in Nat
        /\ e.start = buckets[b].start \/ e.start + Window <= buckets[b].start
    BY DEF WindowsApart
  <2>2. buckets[b].start \in Nat
    BY <2>1 DEF Counters
  <2> QED
    BY <1>1, <2>1, <2>2
<1>3. buckets'[b].start = now /\ buckets'[b].count = 1
  OBVIOUS
<1>4. ASSUME NEW e \in Held(b)'
      PROVE  /\ e.start \in Nat /\ (e.start = now \/ e.start + Window <= now)
             /\ \A f \in Held(b)' : f.start <= e.start \/ f.start >= e.start + Window
  <2>1. e.start \in Nat /\ (e.start = now \/ e.start + Window <= now)
    BY <1>1, <1>2
  <2>2. ASSUME NEW f \in Held(b)'
        PROVE  f.start <= e.start \/ f.start >= e.start + Window
    <3>1. CASE f \in Held(b) /\ e \in Held(b)
      BY <3>1 DEF WindowsApart
    <3>2. CASE e.start = now
      BY <1>1, <1>2, <3>2
    <3>3. CASE f.start = now /\ e \in Held(b)
      BY <1>1, <1>2, <3>3
    <3> QED
      BY <3>1, <3>2, <3>3
  <2> QED
    BY <2>1, <2>2
<1>5. WindowsApart(b)'
  BY <1>3, <1>4 DEF WindowsApart
<1>6. IsFiniteSet({x}) /\ Cardinality({x}) = 1
  BY FS_Singleton
<1>7. IsFiniteSet(AtStart(b, now)') /\ Cardinality(AtStart(b, now)') <= 1
  <2>1. AtStart(b, now)' \subseteq {x}
    BY <1>1, <1>2 DEF AtStart
  <2> QED
    BY <1>6, <2>1, Fewer
<1>8. ASSUME NEW e \in Held(b)'
      PROVE  IsFiniteSet(AtStart(b, e.start)') /\ Cardinality(AtStart(b, e.start)') <= Limit
  <2>1. CASE e.start = now
    <3>1. Cardinality(AtStart(b, now)') \in Nat
      BY <1>7, FS_CardinalityType
    <3> QED
      BY <1>1, <1>7, <2>1, <3>1
  <2>2. CASE e.start # now
    <3>1. e \in Held(b)
      BY <2>2
    <3>2. AtStart(b, e.start)' \subseteq AtStart(b, e.start)
      BY <2>2 DEF AtStart
    <3>3. IsFiniteSet(AtStart(b, e.start)) /\ Cardinality(AtStart(b, e.start)) <= Limit
      BY <3>1 DEF WindowsFull
    <3> QED
      BY <1>1, <3>2, <3>3, Fewer
  <2> QED
    BY <2>1, <2>2
<1> QED
  BY <1>3, <1>5, <1>7, <1>8 DEF WindowsFull

LEMMA WindowCounts ==
  ASSUME NEW b, WindowsApart(b), WindowsFull(b), NEW x,
         Held(b)' \subseteq Held(b) \cup {x}, x.start = buckets[b].start,
         b \in DOMAIN buckets, buckets[b] \in Counters, buckets[b].count < Limit,
         b \in DOMAIN buckets', buckets'[b].start = buckets[b].start,
         buckets'[b].count = buckets[b].count + 1
  PROVE  WindowsApart(b)' /\ WindowsFull(b)'
<1> DEFINE old == buckets[b].start
           n == buckets[b].count
<1>1. Limit \in Nat /\ Window \in Nat /\ Window > 0 /\ old \in Nat /\ n \in Nat /\ n + 1 <= Limit
  BY LimitAssumption DEF Counters
<1>2. ASSUME NEW e \in Held(b)'
      PROVE  /\ e.start \in Nat /\ (e.start = old \/ e.start + Window <= old)
             /\ \A f \in Held(b)' : f.start <= e.start \/ f.start >= e.start + Window
  <2>1. \A f \in Held(b)' : f.start \in Nat /\ (f.start = old \/ f.start + Window <= old)
    BY <1>1 DEF WindowsApart
  <2>2. ASSUME NEW f \in Held(b)'
        PROVE  f.start <= e.start \/ f.start >= e.start + Window
    <3>1. CASE f \in Held(b) /\ e \in Held(b)
      BY <3>1 DEF WindowsApart
    <3>2. CASE e.start = old \/ f.start = old
      BY <1>1, <2>1, <3>2
    <3> QED
      BY <3>1, <3>2
  <2> QED
    BY <2>1, <2>2
<1>3. WindowsApart(b)'
  BY <1>2 DEF WindowsApart
<1>4. ASSUME NEW t, t = old
      PROVE  IsFiniteSet(AtStart(b, t)') /\ Cardinality(AtStart(b, t)') <= n + 1
  <2>1. IsFiniteSet(AtStart(b, t)) /\ Cardinality(AtStart(b, t)) <= n
    BY <1>4 DEF WindowsFull
  <2>2. AtStart(b, t)' \subseteq AtStart(b, t) \cup {x}
    BY DEF AtStart
  <2>3. /\ IsFiniteSet(AtStart(b, t) \cup {x})
        /\ Cardinality(AtStart(b, t) \cup {x}) <= Cardinality(AtStart(b, t)) + 1
    <3>1. Cardinality(AtStart(b, t)) \in Nat
      BY <2>1, FS_CardinalityType
    <3>2. /\ IsFiniteSet(AtStart(b, t) \cup {x})
          /\ \/ Cardinality(AtStart(b, t) \cup {x}) = Cardinality(AtStart(b, t))
             \/ Cardinality(AtStart(b, t) \cup {x}) = Cardinality(AtStart(b, t)) + 1
      BY <2>1, FS_AddElement
    <3> QED
      BY <3>1, <3>2
  <2>4. Cardinality(AtStart(b, t) \cup {x}) <= n + 1
    <3>1. Cardinality(AtStart(b, t)) \in Nat /\ Cardinality(AtStart(b, t) \cup {x}) \in Nat
      BY <2>1, <2>3, FS_CardinalityType
    <3> QED
      BY <1>1, <2>1, <2>3, <3>1
  <2> HIDE DEF n
  <2> QED
    BY <1>1, <2>2, <2>3, <2>4, Fewer
<1>5. ASSUME NEW e \in Held(b)'
      PROVE  IsFiniteSet(AtStart(b, e.start)') /\ Cardinality(AtStart(b, e.start)') <= Limit
  <2>1. CASE e.start = old
    <3>1. IsFiniteSet(AtStart(b, e.start)') /\ Cardinality(AtStart(b, e.start)') <= n + 1
      BY <1>4, <2>1
    <3>2. Cardinality(AtStart(b, e.start)') \in Nat
      BY <3>1, FS_CardinalityType
    <3> QED
      BY <1>1, <3>1, <3>2
  <2>2. CASE e.start # old
    <3>1. e \in Held(b)
      BY <1>2, <2>2 DEF WindowsApart
    <3>2. AtStart(b, e.start)' \subseteq AtStart(b, e.start)
      BY <2>2 DEF AtStart
    <3>3. IsFiniteSet(AtStart(b, e.start)) /\ Cardinality(AtStart(b, e.start)) <= Limit
      BY <3>1 DEF WindowsFull
    <3> QED
      BY <1>1, <3>2, <3>3, Fewer
  <2> QED
    BY <2>1, <2>2
<1> QED
  BY <1>3, <1>4, <1>5 DEF WindowsFull

LEMMA EffectBucket == \A r : effectOf(r).bucket = bucketOf(r) /\ effectOf(r).start = r.start
BY DEF effectOf, bucketOf

LEMMA ChangesAreCounted ==
  ASSUME NEW r, r.route \in ChangeRoutes
  PROVE  handlerOf(r).family # None
<1>1. None \notin AdminMutationFamily
  BY FamilyAssumption
<1>2. runInstallationCommand.family # None
  BY <1>1 DEF runInstallationCommand, Change, Handler, AdminMutationFamily
<1>3. runInstall.family # None
  BY <1>1 DEF runInstall, Change, Handler, AdminMutationFamily
<1>4. runInstallRequest.family # None
  BY <1>1 DEF runInstallRequest, Change, Handler, AdminMutationFamily
<1>5. runRollback.family # None
  BY <1>1 DEF runRollback, Change, Handler, AdminMutationFamily
<1>6. runApprovalDecision.family # None
  BY <1>1 DEF runApprovalDecision, Change, Handler, AdminMutationFamily
<1>7. runServiceTokenIssue.family # None
  BY <1>1 DEF runServiceTokenIssue, Change, Handler, AdminMutationFamily
<1>8. runServiceTokenRevoke.family # None
  BY <1>1 DEF runServiceTokenRevoke, Change, Handler, AdminMutationFamily
<1>9. runSlackOAuthInstallStart.family # None
  BY <1>1 DEF runSlackOAuthInstallStart, Change, Handler, AdminMutationFamily
<1> QED
  BY <1>2, <1>3, <1>4, <1>5, <1>6, <1>7, <1>8, <1>9 DEF handlerOf, ChangeRoutes

(***************************************************************************)
(* A step that counts nothing: what may still take effect could before.    *)
(***************************************************************************)
NothingNew ==
    /\ \A c \in Slots : IsPending(requests'[c]) =>
          IsPending(requests[c]) /\ effectOf(requests'[c]) = effectOf(requests[c])
    /\ \A e \in effects' : e \in effects \/ \E c \in Slots : IsPending(requests[c]) /\ e = effectOf(requests[c])

LEMMA NothingNewHeld ==
  ASSUME NothingNew, NEW b
  PROVE  Held(b)' \subseteq Held(b)
BY EffectBucket DEF NothingNew, Held

LEMMA NotPending == \A q : IsOver(q) => ~IsPending(q)
BY DEF IsOver, IsPending, Idle

LEMMA ClientBringsNothing ==
  ASSUME ClientStep, UNCHANGED effects
  PROVE  NothingNew
<1>1. ASSUME NEW c \in Slots, IsPending(requests'[c])
      PROVE  IsPending(requests[c]) /\ effectOf(requests'[c]) = effectOf(requests[c])
  <2> DEFINE r == requests[c]
             s == requests'[c]
  <2>1. s # Idle /\ s.phase # "arrived"
    BY <1>1 DEF IsPending, Idle
  <2>2. s = r \/ (Alike(r, s) /\ s.phase = r.phase)
    BY <2>1 DEF ClientStep, ClientMove
  <2> QED
    BY <1>1, <2>2, SameEffect DEF IsPending
<1> QED
  BY <1>1 DEF NothingNew

LEMMA ServeBringsNothing ==
  ASSUME NEW c \in Slots, RequestShape, Serve(c), ~reserveAdminMutation(c)
  PROVE  NothingNew /\ UNCHANGED <<clock, buckets, late>>
<1> DEFINE r == requests[c]
           s == requests'[c]
<1>0. ASSUME OnlySlot(c), IsPending(s) => IsPending(r) /\ effectOf(s) = effectOf(r),
             UNCHANGED effects \/ (effect(r) /\ IsPending(r))
      PROVE  NothingNew
  <2>1. \A d \in Slots : d # c => requests'[d] = requests[d]
    BY <1>0 DEF OnlySlot
  <2> QED
    BY <1>0, <2>1 DEF NothingNew, effect
<1>1. IsOver(s) \/ s.phase \in Early => ~IsPending(s)
  BY NotPending DEF IsPending, Early
<1>2. SameCaller(r, s) => handlerOf(s) = handlerOf(r) /\ effectOf(s) = effectOf(r)
  BY SameEffect, CallerAlike
<1>3. CASE Fetch(c)
  BY <1>0, <1>1, <1>3, FetchStep DEF Early, untouched
<1>4. CASE resolveRequestDatabase(c)
  BY <1>0, <1>1, <1>4, RouteStep DEF Early, untouched
<1>5. CASE Handle(c)
  BY <1>0, <1>1, <1>5, HandleStep DEF Early, untouched
<1>6. CASE resolveAdminIdentity(c)
  <2>1. IsOver(s) \/ (SameForm(r, s) /\ (s.phase = "reserving" \/ handlerOf(r).family = None))
    BY <1>6, AdmitStep
  <2>2. SameForm(r, s) => handlerOf(s) = handlerOf(r)
    BY DEF SameForm, handlerOf
  <2>3. ~IsPending(s)
    BY <1>1, <2>1, <2>2 DEF IsPending, Early
  <2> QED
    BY <1>0, <1>6, <2>3, AdmitStep DEF untouched
<1>7. CASE Reading(c)
  BY <1>0, <1>1, <1>2, <1>7, ReadStep DEF IsPending, reads
<1>8. CASE Leaves(c)
  <2>1. IsPending(s) => IsPending(r) /\ effectOf(s) = effectOf(r)
    BY <1>1, <1>2, <1>8 DEF Leaves, IsPending, Working, Installing
  <2> QED
    BY <1>0, <1>8, <2>1 DEF Leaves, unchanged, stable
<1>9. CASE TakesEffect(c)
  <2>1. IsPending(r)
    BY <1>9, ChangesAreCounted DEF TakesEffect, IsPending
  <2>2. ~IsPending(s)
    BY <1>1, <1>9 DEF TakesEffect, IsPending
  <2> QED
    BY <1>0, <1>9, <2>1, <2>2 DEF TakesEffect, stable
<1> QED
  BY <1>3, <1>4, <1>5, <1>6, <1>7, <1>8, <1>9, ChangeStep
     DEF Serve, TakesKey, TakesNoKey, Issues, Revokes

(***************************************************************************)
(* The record a reservation leaves, and what its bucket holds with it.     *)
(***************************************************************************)
LEMMA ReservedBucket ==
  ASSUME NEW k, NEW now \in Nat, NEW x, NEW ev,
         k \in DOMAIN buckets => buckets[k] \in Counters,
         ev = evaluateFixedWindowReservation(windowOf(k), now),
         k \in DOMAIN buckets', buckets'[k] = ev.record
  PROVE  /\ ev.record \in Counters
         /\ /\ WindowsApart(k) /\ WindowsFull(k)
            /\ k \in DOMAIN buckets => ~(buckets[k].start > now)
            /\ \/ Held(k)' \subseteq Held(k)
               \/ /\ Held(k)' \subseteq Held(k) \cup {x}
                  /\ x.start = ev.record.start /\ ~(ev.count > Limit)
            => WindowsApart(k)' /\ WindowsFull(k)'
<1> SUFFICES ASSUME NEW known, known <=> k \in DOMAIN buckets,
                    NEW old, known => old = buckets[k]
             PROVE  /\ ev.record \in Counters
                    /\ /\ WindowsApart(k) /\ WindowsFull(k)
                       /\ k \in DOMAIN buckets => ~(buckets[k].start > now)
                       /\ \/ Held(k)' \subseteq Held(k)
                          \/ /\ Held(k)' \subseteq Held(k) \cup {x}
                             /\ x.start = ev.record.start /\ ~(ev.count > Limit)
                       => WindowsApart(k)' /\ WindowsFull(k)'
  OBVIOUS
<1>1. Limit \in Nat /\ Limit >= 1 /\ Window \in Nat /\ Window > 0
  BY LimitAssumption
<1>2. \A q \in Counters : q # None
  BY LimitAssumption DEF Counters
<1>3. known => old \in Counters /\ windowOf(k) = old /\ windowOf(k) # None
  BY <1>2 DEF windowOf
<1>4. ~known => windowOf(k) = None
  BY DEF windowOf
<1>5. known => old.start \in Nat /\ old.count \in Nat /\ old.count <= Limit /\ old = [start |-> old.start, count |-> old.count]
  BY <1>1, <1>3 DEF Counters
<1>6. CASE ~known \/ old.start > now \/ now >= old.start + Window
  <2>1. ev = [record |-> [start |-> now, count |-> 1], count |-> 1]
    BY <1>3, <1>4, <1>6 DEF evaluateFixedWindowReservation
  <2>2. ev.record = [start |-> now, count |-> 1] /\ ev.record \in Counters
    BY <1>1, <2>1 DEF Counters
  <2>3. ASSUME WindowsApart(k), WindowsFull(k), known => ~(old.start > now),
               NEW y, y.start = now, Held(k)' \subseteq Held(k) \cup {y}
        PROVE  WindowsApart(k)' /\ WindowsFull(k)'
    <3>1. k \in DOMAIN buckets => buckets[k] \in Counters /\ now >= buckets[k].start + Window
      BY <1>6, <2>3
    <3>2. k \in DOMAIN buckets' /\ buckets'[k] = [start |-> now, count |-> 1]
      BY <2>2
    <3> QED
      BY <2>3, <3>1, <3>2, WindowOpens
  <2>4. \E y : y.start = now
    <3>1. [start |-> now].start = now
      OBVIOUS
    <3> QED
      BY <3>1
  <2>5. PICK y : y.start = now
    BY <2>4
  <2>6. x.start = ev.record.start => x.start = now
    BY <2>2
  <2>7. Held(k)' \subseteq Held(k) => Held(k)' \subseteq Held(k) \cup {y}
    OBVIOUS
  <2> QED
    BY <2>2, <2>3, <2>5, <2>6, <2>7
<1>7. CASE known /\ ~(old.start > now) /\ ~(now >= old.start + Window) /\ old.count >= Limit
  <2>1. ev = [record |-> old, count |-> Limit + 1]
    BY <1>3, <1>7 DEF evaluateFixedWindowReservation
  <2>2. ev.record = old /\ ev.record \in Counters /\ ev.count > Limit
    BY <1>1, <1>3, <1>7, <2>1
  <2>3. ASSUME WindowsApart(k), WindowsFull(k), Held(k)' \subseteq Held(k)
        PROVE  WindowsApart(k)' /\ WindowsFull(k)'
    <3>1. k \in DOMAIN buckets /\ buckets[k] \in Counters /\ buckets'[k] = buckets[k]
      BY <1>7, <2>2
    <3> QED
      BY <2>3, <3>1, WindowsShrink
  <2> QED
    BY <2>2, <2>3
<1>8. CASE known /\ ~(old.start > now) /\ ~(now >= old.start + Window) /\ ~(old.count >= Limit)
  <2>1. ev = [record |-> [old EXCEPT !.count = @ + 1], count |-> old.count + 1]
    BY <1>3, <1>8 DEF evaluateFixedWindowReservation
  <2>2. ev.record = [start |-> old.start, count |-> old.count + 1]
    BY <1>5, <1>8, <2>1
  <2>3. ev.record \in Counters /\ ev.record.start = old.start /\ ev.record.count = old.count + 1
    BY <1>1, <1>5, <1>8, <2>2 DEF Counters
  <2>4. ASSUME WindowsApart(k), WindowsFull(k),
               NEW y, y.start = old.start, Held(k)' \subseteq Held(k) \cup {y}
        PROVE  WindowsApart(k)' /\ WindowsFull(k)'
    <3>1. k \in DOMAIN buckets /\ buckets[k] \in Counters /\ buckets[k].count < Limit /\ y.start = buckets[k].start
      BY <1>1, <1>5, <1>8, <2>4
    <3>2. /\ k \in DOMAIN buckets' /\ buckets'[k].start = buckets[k].start
          /\ buckets'[k].count = buckets[k].count + 1
      BY <1>8, <2>3
    <3> QED
      BY <2>4, <3>1, <3>2, WindowCounts
  <2>5. PICK y : y = old
    OBVIOUS
  <2>6. x.start = ev.record.start => x.start = old.start
    BY <2>3
  <2>7. Held(k)' \subseteq Held(k) => Held(k)' \subseteq Held(k) \cup {y}
    OBVIOUS
  <2> QED
    BY <2>3, <2>4, <2>5, <2>6, <2>7
<1> QED
  BY <1>6, <1>7, <1>8

LEMMA ReserveKeepsWindows ==
  ASSUME NEW c \in Slots, RequestShape, WindowInv, reserveAdminMutation(c)
  PROVE  /\ \A b \in DOMAIN buckets' : buckets'[b] \in Counters
         /\ \A b : b \notin late' => WindowsApart(b)' /\ WindowsFull(b)'
<1> DEFINE r == requests[c]
           s == requests'[c]
<1>1. PICK k, now, ev, x :
         k = bucketOf(r) /\ now = r.now /\ ev = evaluated(r) /\ x = effectOf(s)
  OBVIOUS
<1>2. /\ UNCHANGED effects /\ OnlySlot(c) /\ r.phase = "reserving"
      /\ \/ IsOver(s) /\ UNCHANGED <<buckets, late>>
         \/ /\ buckets' = [b \in DOMAIN buckets \cup {k} |-> IF b = k THEN ev.record ELSE buckets[b]]
            /\ late' = late \cup {b \in {k} : windowOf(k) # None /\ windowOf(k).start > now}
            /\ \/ IsOver(s)
               \/ ~(ev.count > Limit) /\ SameForm(r, s) /\ s.who = r.who /\ s.start = ev.record.start
  BY <1>1, ReserveStep
<1>3. now \in Nat
  BY <1>1, <1>2 DEF WindowInv
<1>4. \A d \in Slots : d # c => requests'[d] = requests[d]
  BY <1>2 DEF OnlySlot
<1>5. ASSUME NEW b, IsOver(s)
      PROVE  Held(b)' \subseteq Held(b)
  BY <1>2, <1>4, <1>5, NotPending DEF Held
<1>6. ASSUME NEW b
      PROVE  Held(b)' \subseteq Held(b) \cup {x}
  BY <1>1, <1>2, <1>4, EffectBucket DEF Held
<1>7. ASSUME NEW b, b # k, SameForm(r, s) /\ s.who = r.who
      PROVE  Held(b)' \subseteq Held(b)
  <2>1. bucketOf(s) = k
    BY <1>1, <1>7 DEF bucketOf, SameForm, handlerOf
  <2> QED
    BY <1>2, <1>4, <1>7, <2>1 DEF Held
<1>8. CASE UNCHANGED <<buckets, late>> /\ IsOver(s)
  <2>1. ASSUME NEW b, b \notin late'
        PROVE  WindowsApart(b)' /\ WindowsFull(b)'
    BY <1>5, <1>8, <2>1, WindowsShrink DEF WindowInv
  <2> QED
    BY <1>8, <2>1 DEF WindowInv
<1>9. CASE /\ buckets' = [b \in DOMAIN buckets \cup {k} |-> IF b = k THEN ev.record ELSE buckets[b]]
           /\ late' = late \cup {b \in {k} : windowOf(k) # None /\ windowOf(k).start > now}
           /\ \/ IsOver(s)
              \/ ~(ev.count > Limit) /\ SameForm(r, s) /\ s.who = r.who /\ s.start = ev.record.start
  <2>1. k \in DOMAIN buckets' /\ buckets'[k] = ev.record
    BY <1>9
  <2>2. ASSUME NEW b, b # k
        PROVE  /\ b \in DOMAIN buckets' <=> b \in DOMAIN buckets
               /\ b \in DOMAIN buckets => buckets'[b] = buckets[b]
    BY <1>9, <2>2
  <2>3. ASSUME NEW b, b # k, b \notin late'
        PROVE  WindowsApart(b)' /\ WindowsFull(b)'
    <3>1. Held(b)' \subseteq Held(b)
      BY <1>5, <1>7, <1>9, <2>3
    <3>2. b \notin late
      BY <1>9, <2>3
    <3> QED
      BY <2>2, <2>3, <3>1, <3>2, WindowsShrink DEF WindowInv
  <2>4. k \in DOMAIN buckets => buckets[k] \in Counters
    BY DEF WindowInv
  <2>5. ev = evaluateFixedWindowReservation(windowOf(k), now)
    BY <1>1 DEF evaluated
  <2>6. ev.record \in Counters
    BY <1>3, <2>1, <2>4, <2>5, ReservedBucket
  <2>7. ASSUME k \notin late'
        PROVE  WindowsApart(k)' /\ WindowsFull(k)'
    <3>1. WindowsApart(k) /\ WindowsFull(k)
      BY <1>9, <2>7 DEF WindowInv
    <3>2. k \in DOMAIN buckets => ~(buckets[k].start > now)
      <4>1. \A q \in Counters : q # None
        BY LimitAssumption DEF Counters
      <4> QED
        BY <1>9, <2>4, <2>7, <4>1 DEF windowOf
    <3>3. ASSUME ~IsOver(s)
          PROVE  x.start = ev.record.start /\ ~(ev.count > Limit)
      BY <1>1, <1>9, <3>3, EffectBucket
    <3>4. \/ Held(k)' \subseteq Held(k)
          \/ /\ Held(k)' \subseteq Held(k) \cup {x}
             /\ x.start = ev.record.start /\ ~(ev.count > Limit)
      BY <1>5, <1>6, <3>3
    <3> QED
      BY <1>3, <2>1, <2>4, <2>5, <3>1, <3>2, <3>4, ReservedBucket
  <2> QED
    BY <2>1, <2>2, <2>3, <2>6, <2>7 DEF WindowInv
<1> QED
  BY <1>2, <1>8, <1>9

LEMMA NextKeepsWindows ==
  ASSUME RequestShape, WindowInv, [Next]_vars
  PROVE  WindowInv'
<1>1. CASE \E c \in Slots : reserveAdminMutation(c)
  <2>1. PICK c \in Slots : reserveAdminMutation(c)
    BY <1>1
  <2>2. /\ UNCHANGED clock /\ OnlySlot(c)
        /\ IsOver(requests'[c]) \/ requests'[c].phase = "working"
    BY <2>1, ReserveStep
  <2>3. ASSUME NEW d \in Slots, requests'[d].phase = "reserving"
        PROVE  requests'[d].now \in Nat
    BY <2>2, <2>3 DEF OnlySlot, IsOver, Idle, WindowInv
  <2> QED
    BY <2>1, <2>2, <2>3, ReserveKeepsWindows DEF WindowInv
<1>2. ASSUME NothingNew, UNCHANGED <<buckets, late>>, clock' \in Nat,
             \A d \in Slots : requests'[d].phase = "reserving" => requests'[d].now \in Nat
      PROVE  WindowInv'
  <2>1. ASSUME NEW b, b \notin late'
        PROVE  WindowsApart(b)' /\ WindowsFull(b)'
    BY <1>2, <2>1, NothingNewHeld, WindowsShrink DEF WindowInv
  <2> QED
    BY <1>2, <2>1 DEF WindowInv
<1>3. ASSUME NEW c \in Slots, Serve(c), ~reserveAdminMutation(c)
      PROVE  WindowInv'
  <2> DEFINE r == requests[c]
             s == requests'[c]
  <2>1. NothingNew /\ UNCHANGED <<clock, buckets, late>>
    BY <1>3, ServeBringsNothing
  <2>2. OnlySlot(c)
    BY <1>3, FetchStep, RouteStep, HandleStep, AdmitStep, ReadStep, ChangeStep
       DEF Serve, TakesKey, TakesNoKey, Issues, Revokes, TakesEffect, Leaves
  <2>3. s.phase = "reserving" => s.now = clock
    BY <1>3, FetchStep, RouteStep, HandleStep, AdmitStep, ReadStep, ChangeStep
       DEF Serve, TakesKey, TakesNoKey, Issues, Revokes, TakesEffect, Leaves, IsOver, Idle, Working, Installing
  <2>4. \A d \in Slots : requests'[d].phase = "reserving" => requests'[d].now \in Nat
    BY <2>2, <2>3 DEF OnlySlot, WindowInv
  <2> QED
    BY <1>2, <2>1, <2>4 DEF WindowInv
<1>4. CASE ClientStep /\ quiet
  <2>1. NothingNew
    BY <1>4, ClientBringsNothing DEF quiet
  <2>2. \A d \in Slots : requests'[d].phase = "reserving" => requests'[d].now \in Nat
    BY <1>4 DEF ClientStep, ClientMove, Alike, Idle, WindowInv
  <2> QED
    BY <1>2, <1>4, <2>1, <2>2 DEF quiet, WindowInv
<1>5. CASE RecordExecution \/ OtherAdministrator \/ Tick \/ UNCHANGED vars
  <2>1. UNCHANGED <<requests, effects, buckets, late>>
    BY <1>5 DEF RecordExecution, OtherAdministrator, Tick, elsewhere, vars, api, access
  <2>2. clock' = clock \/ clock' = clock + 1
    BY <1>5 DEF RecordExecution, OtherAdministrator, Tick, vars, access
  <2>3. NothingNew
    BY <2>1 DEF NothingNew
  <2> QED
    BY <1>2, <2>1, <2>2, <2>3 DEF WindowInv
<1> QED
  BY <1>1, <1>3, <1>4, <1>5, StepKinds

(***************************************************************************)
(* No window of a bucket lets more than Limit changes through and windows  *)
(* do not overlap, for any number of requests at a time: a reservation     *)
(* counts before its change is made, and what it counted stays one change  *)
(* (admin-mutation-rate-limit.ts, evaluateFixedWindowReservation).         *)
(***************************************************************************)
THEOREM WindowsBoundChanges == Spec => []WindowBoundsChanges
<1>1. Init => WindowInv
  <2> SUFFICES ASSUME Init PROVE WindowInv
    OBVIOUS
  <2>1. clock \in Nat /\ DOMAIN buckets = {}
    BY DEF Init
  <2>2. \A c \in Slots : requests[c] = Idle
    BY DEF Init
  <2>3. \A b : Held(b) = {}
    BY <2>2 DEF Init, Held, IsPending, Idle
  <2> QED
    BY <2>1, <2>2, <2>3 DEF WindowInv, WindowsApart, WindowsFull, Idle
<1>2. RequestShape /\ WindowInv /\ [Next]_vars => WindowInv'
  BY NextKeepsWindows
<1>3. WindowInv => WindowBoundsChanges
  <2> SUFFICES ASSUME WindowInv, NEW e \in effects, e.bucket \notin late
               PROVE  LET alike == {f \in effects : f.bucket = e.bucket} IN
                      /\ Cardinality({f \in alike : f.start = e.start}) <= Limit
                      /\ \A f \in alike : f.start <= e.start \/ f.start >= e.start + Window
    BY DEF WindowBoundsChanges
  <2> DEFINE alike == {f \in effects : f.bucket = e.bucket}
             b == e.bucket
  <2>1. alike \subseteq Held(b) /\ e \in Held(b) /\ WindowsApart(b) /\ WindowsFull(b)
    BY DEF Held, WindowInv
  <2>2. {f \in alike : f.start = e.start} \subseteq AtStart(b, e.start)
    BY <2>1 DEF AtStart
  <2>3. IsFiniteSet(AtStart(b, e.start)) /\ Cardinality(AtStart(b, e.start)) <= Limit /\ Limit \in Nat
    BY <2>1, LimitAssumption DEF WindowsFull
  <2>4. Cardinality({f \in alike : f.start = e.start}) <= Limit
    BY <2>2, <2>3, Fewer
  <2>5. \A f \in alike : f.start <= e.start \/ f.start >= e.start + Window
    BY <2>1 DEF WindowsApart
  <2> QED
    BY <2>4, <2>5
<1> QED
  BY <1>1, <1>2, <1>3, RequestsAreShaped, PTL DEF Spec
-----------------------------------------------------------------------------
(* Who makes a change, and in which database.                               *)

(***************************************************************************)
(* Tokens have a credential of their own and scopes that are operations.   *)
(***************************************************************************)
TokenInv ==
    /\ \A row \in tokens : /\ DOMAIN row = TokenFields /\ row.credential = ServiceCredential(row.id)
                           /\ row.scopes \subseteq RBAC_OPERATIONS
    /\ \A a, b \in tokens : a.id = b.id => a = b

LEMMA OneHolder ==
  ASSUME TokenInv, NEW a \in tokens, NEW b \in tokens, a.credential = b.credential
  PROVE  a = b
<1>1. ServiceCredential(a.id) = ServiceCredential(b.id)
  BY DEF TokenInv
<1>2. a.id = b.id
  <2>1. ServiceCredential(a.id).n = a.id /\ ServiceCredential(b.id).n = b.id
    BY DEF ServiceCredential
  <2> QED
    BY <1>1, <2>1
<1> QED
  BY <1>2 DEF TokenInv

(***************************************************************************)
(* Whose a credential is.                                                  *)
(***************************************************************************)
BelongsTo(credential, app) ==
    IF deployment.db /\ isServiceTokenCredential(credential)
    THEN \E row \in tokens : row.credential = credential /\ row.app = app
    ELSE credential \in DOMAIN Bootstrap /\ Bootstrap[credential].app = app

LEMMA OneApp ==
  ASSUME TokenInv, NEW credential, NEW a, NEW b, BelongsTo(credential, a), BelongsTo(credential, b)
  PROVE  a = b
BY OneHolder DEF BelongsTo

(***************************************************************************)
(* What resolving a credential finds.                                      *)
(***************************************************************************)
LEMMA Resolved ==
  ASSUME NEW credential, NEW found \in identify(credential), found.kind = "identity"
  PROVE  IF deployment.db /\ isServiceTokenCredential(credential)
         THEN \E row \in tokens :
                 /\ row.credential = credential /\ serviceTokenFromRow(row) /\ LiveToken(row)
                 /\ found.who.role = row.role /\ found.who.app = row.app /\ found.who.tenant = row.tenant
                 /\ found.who.allowed = row.scopes
         ELSE credential \in DOMAIN Bootstrap /\ found.who = Bootstrap[credential]
<1>1. NotFound.kind # "identity" /\ Thrown.kind # "identity"
  BY DEF NotFound, Thrown
<1>2. CASE deployment.db /\ isServiceTokenCredential(credential)
  <2>1. found = createServiceTokenIdentityResolver(credential)
    BY <1>1, <1>2 DEF identify, resolveToken
  <2> DEFINE found2 == findByTokenHash(credential)
             row == CHOOSE r \in found2 : TRUE
             subject == "service-token:" \o ToString(row.id)
  <2>2. found2 # {} /\ row \in found2
    BY <1>1, <2>1 DEF createServiceTokenIdentityResolver
  <2>3. /\ serviceTokenFromRow(row) /\ LiveToken(row)
        /\ found = Found(Identity(subject, row.role, row.app, row.tenant, row.scopes))
    BY <1>1, <2>1 DEF createServiceTokenIdentityResolver
  <2>4. row \in tokens /\ row.credential = credential
    BY <2>2 DEF findByTokenHash
  <2> HIDE DEF row, subject
  <2> QED
    BY <1>2, <2>3, <2>4 DEF Found, Identity
<1>3. CASE ~(deployment.db /\ isServiceTokenCredential(credential))
  <2>1. found = createStaticTokenIdentityResolver(credential)
    BY <1>1, <1>3 DEF identify, resolveToken
  <2> QED
    BY <1>1, <1>3, <2>1 DEF createStaticTokenIdentityResolver, Found
<1> QED
  BY <1>2, <1>3

LEMMA FoundBelongs ==
  ASSUME NEW credential, NEW found \in identify(credential), found.kind = "identity"
  PROVE  BelongsTo(credential, found.who.app)
BY Resolved DEF BelongsTo

(***************************************************************************)
(* A caller that is admitted now may make the change.                      *)
(***************************************************************************)
LEMMA FoundMay ==
  ASSUME TokenInv, NEW e, NEW found \in identify(e.credential), found.kind = "identity",
         found.who.app = e.app, found.who.tenant = e.tenant, e.identified = clock,
         requireRbac(found.who, e.operation), e.spent => isRevoked(e.credential)
  PROVE  holderMay(e)
<1>1. CASE deployment.db /\ isServiceTokenCredential(e.credential)
  <2>1. PICK row \in tokens :
               /\ row.credential = e.credential /\ serviceTokenFromRow(row) /\ LiveToken(row)
               /\ found.who.role = row.role /\ found.who.app = row.app /\ found.who.tenant = row.tenant
               /\ found.who.allowed = row.scopes
    BY <1>1, Resolved
  <2>2. row.scopes # None
    BY ScopesAssumption DEF TokenInv
  <2>3. canRolePerform(row.role, e.operation) /\ e.operation \in row.scopes
    BY <2>1, <2>2 DEF requireRbac
  <2>4. ~e.spent
    BY <2>1, OneHolder DEF isRevoked, findByTokenHash, LiveToken
  <2> QED
    BY <1>1, <2>1, <2>3, <2>4 DEF holderMay, LiveToken
<1>2. CASE ~(deployment.db /\ isServiceTokenCredential(e.credential))
  BY <1>2, Resolved DEF holderMay
<1> QED
  BY <1>1, <1>2

(***************************************************************************)
(* Tokens stay what they are, but for a revocation.                        *)
(***************************************************************************)
TokensGrow ==
    \A row \in tokens : \E new \in tokens' :
        /\ new.id = row.id /\ new.credential = row.credential /\ new.role = row.role /\ new.app = row.app
        /\ new.tenant = row.tenant /\ new.scopes = row.scopes /\ new.expiresAt = row.expiresAt
        /\ new.revokedAt = row.revokedAt \/ row.revokedAt = None

LEMMA BelongsStill ==
  ASSUME TokensGrow, UNCHANGED deployment, NEW credential, NEW app, BelongsTo(credential, app)
  PROVE  BelongsTo(credential, app)'
BY DEF TokensGrow, BelongsTo

LEMMA SpentStill ==
  ASSUME TokensGrow, NEW credential, isRevoked(credential)
  PROVE  isRevoked(credential)'
BY DEF TokensGrow, isRevoked, findByTokenHash

LEMMA MayStill ==
  ASSUME TokensGrow, UNCHANGED deployment, NEW e, holderMay(e)
  PROVE  holderMay(e)'
<1>1. CASE deployment.db /\ isServiceTokenCredential(e.credential)
  <2>1. PICK row \in tokens :
            /\ row.credential = e.credential /\ row.app = e.app /\ row.tenant = e.tenant
            /\ row.expiresAt > e.identified
            /\ canRolePerform(row.role, e.operation) /\ e.operation \in row.scopes
    BY <1>1 DEF holderMay
  <2>2. PICK new \in tokens' :
        /\ new.credential = row.credential /\ new.role = row.role /\ new.app = row.app
        /\ new.tenant = row.tenant /\ new.scopes = row.scopes /\ new.expiresAt = row.expiresAt
    BY DEF TokensGrow
  <2>3. ~e.spent
    BY <1>1 DEF holderMay
  <2> QED
    BY <1>1, <2>1, <2>2, <2>3 DEF holderMay
<1>2. CASE ~(deployment.db /\ isServiceTokenCredential(e.credential))
  BY <1>2 DEF holderMay
<1> QED
  BY <1>1, <1>2

(***************************************************************************)
(* What a row says of its issuer and its rights.                           *)
(***************************************************************************)
StaysWithin(row) ==
    /\ \A o \in row.scopes : canRolePerform(row.role, o) /\ o \notin forbiddenMachineScopes
    /\ row.expiresAt \in (row.createdAt + 1)..(row.createdAt + MaxLifetime)
    /\ \E credential \in DOMAIN Bootstrap :
          LET issuer == Bootstrap[credential] IN
          /\ ~isServiceTokenCredential(credential) /\ issuer.subject = row.by
          /\ row.app = issuer.app /\ row.tenant = issuer.tenant
          /\ requireRbac(issuer, "service-token:issue")
          /\ \A o \in RBAC_OPERATIONS : canRolePerform(row.role, o) => canRolePerform(issuer.role, o)

(***************************************************************************)
(* A caller who may issue tokens is one of the bootstrap identities.       *)
(***************************************************************************)
Issuer(who) ==
    \E credential \in DOMAIN Bootstrap :
        /\ ~isServiceTokenCredential(credential) /\ Bootstrap[credential] = who
        /\ requireRbac(who, "service-token:issue")

LEMMA Issued ==
  ASSUME TokenInv, clock \in Nat, NEW who, NEW asked, Issuer(who), assertValidIssue(who, asked) = None,
         asked.expiresAt \in Int, asked.scopes \subseteq RBAC_OPERATIONS, unusedTokenIds # {},
         tokens' = tokens \cup {tokenRecord(who, asked)}
  PROVE  TokensGrow /\ TokenInv' /\ StaysWithin(tokenRecord(who, asked))
<1>1. PICK id : id = generateId
  OBVIOUS
<1>2. id \in unusedTokenIds
  BY <1>1 DEF generateId
<1>3. \A row \in tokens : row.id # id
  BY <1>2 DEF unusedTokenIds
<1>4. PICK new : new = tokenRecord(who, asked)
  OBVIOUS
<1>5. /\ DOMAIN new = TokenFields /\ new.id = id /\ new.credential = ServiceCredential(id)
      /\ new.scopes = asked.scopes
  BY <1>1, <1>4 DEF tokenRecord, TokenFields
<1>6. /\ new.role = asked.role /\ new.app = who.app /\ new.tenant = who.tenant
      /\ new.by = who.subject /\ new.createdAt = clock /\ new.expiresAt = asked.expiresAt
  BY <1>4 DEF tokenRecord
<1>7. TokensGrow
  BY DEF TokensGrow
<1>8. TokenInv'
  BY <1>3, <1>4, <1>5 DEF TokenInv
<1>9. /\ ~(asked.expiresAt <= clock) /\ ~(asked.expiresAt - clock > MaxLifetime)
      /\ \A o \in RBAC_OPERATIONS : canRolePerform(asked.role, o) => canRolePerform(who.role, o)
      /\ \A s \in asked.scopes : s \notin forbiddenMachineScopes /\ canRolePerform(asked.role, s)
  <2>1. ~(asked.expiresAt <= clock \/ asked.expiresAt - clock > MaxLifetime \/ asked.scopes = {})
    BY NoneAssumption DEF assertValidIssue
  <2>2. ~(\/ ~canRolePerform(who.role, "service-token:issue")
          \/ \E o \in RBAC_OPERATIONS : canRolePerform(asked.role, o) /\ ~canRolePerform(who.role, o))
    BY <2>1, NoneAssumption DEF assertValidIssue
  <2>3. ~(\E s \in asked.scopes : s \in forbiddenMachineScopes \/ ~canRolePerform(asked.role, s))
    BY <2>1, <2>2, NoneAssumption DEF assertValidIssue
  <2> QED
    BY <2>1, <2>2, <2>3
<1>10. new.expiresAt \in (new.createdAt + 1)..(new.createdAt + MaxLifetime)
  BY <1>6, <1>9, LimitAssumption
<1>11. StaysWithin(new)
  BY <1>5, <1>6, <1>9, <1>10 DEF StaysWithin, Issuer
<1> QED
  BY <1>4, <1>7, <1>8, <1>11

LEMMA Revoked ==
  ASSUME TokenInv, NEW id, NEW who, NEW time, revokeToken(id, who, time)
  PROVE  /\ TokensGrow /\ TokenInv'
         /\ \A new \in tokens' : \E row \in tokens : new.id = row.id /\ (StaysWithin(row) => StaysWithin(new))
<1> DEFINE hit(row) == row.id = id /\ row.app = who.app /\ row.tenant = who.tenant /\ row.revokedAt = None
           after(row) == IF hit(row) THEN [row EXCEPT !.revokedAt = time, !.revokedBy = who.subject] ELSE row
<1>1. tokens' = {after(row) : row \in tokens}
  BY DEF revokeToken
<1>2. ASSUME NEW row \in tokens
      PROVE  LET new == after(row) IN
             /\ DOMAIN new = TokenFields
             /\ new.id = row.id /\ new.credential = row.credential /\ new.role = row.role /\ new.app = row.app
             /\ new.tenant = row.tenant /\ new.scopes = row.scopes /\ new.expiresAt = row.expiresAt
             /\ new.by = row.by /\ new.createdAt = row.createdAt
             /\ new.revokedAt = row.revokedAt \/ row.revokedAt = None
  <2>1. DOMAIN row = TokenFields
    BY DEF TokenInv
  <2>2. CASE hit(row)
    <3>1. after(row) = [row EXCEPT !.revokedAt = time, !.revokedBy = who.subject]
      BY <2>2
    <3> HIDE DEF after
    <3> QED
      BY <2>1, <2>2, <3>1 DEF TokenFields
  <2>3. CASE ~hit(row)
    BY <2>1, <2>3
  <2> QED
    BY <2>2, <2>3
<1> HIDE DEF after
<1>3. TokensGrow
  BY <1>1, <1>2 DEF TokensGrow
<1>4. TokenInv'
  BY <1>1, <1>2 DEF TokenInv
<1>5. ASSUME NEW new \in tokens'
      PROVE  \E row \in tokens : new.id = row.id /\ (StaysWithin(row) => StaysWithin(new))
  <2>1. PICK row \in tokens : new = after(row)
    BY <1>1
  <2>2. StaysWithin(row) => StaysWithin(new)
    BY <1>2, <2>1 DEF StaysWithin
  <2> QED
    BY <1>2, <2>1, <2>2
<1> QED
  BY <1>3, <1>4, <1>5

(***************************************************************************)
(* The database of an app, as this deployment places it.                   *)
(***************************************************************************)
home(app) == homeOf(deployment, app)

Placed(q) ==
    IF deployment.routes = None THEN q.database = IF deployment.db THEN Default ELSE None
    ELSE /\ deployment.routes = "valid"
         /\ routable(q) => \E app : /\ BelongsTo(q.credential, app)
                                    /\ app # None => q.database = databaseOf(app) /\ q.database # None

AdmittedPhases == {"reserving"} \cup Working

IssueRoute(q) == q.route = "serviceTokenCollection" /\ q.method = "POST"

LimitIsValid(q) == isDashboard(q) => validLimit(q)

(***************************************************************************)
(* What is known of an admitted request, and of what it changed.           *)
(***************************************************************************)
MayChange(e) ==
    /\ e.identified \in Nat /\ e.identified <= clock
    /\ holderMay(e)
    /\ e.database = home(e.app)
    /\ deployment.routes # None => e.database # None

CallerInv(q) ==
    /\ q.phase = "routing" => deployment.routes = "valid"
    /\ q.phase \in {"handling", "identifying"} => Placed(q)
    /\ q.phase = "identifying" => routable(q) /\ serviceBound(q) /\ (q.spent => isRevoked(q.credential))
    /\ q.phase \in {"identifying"} \cup AdmittedPhases => LimitIsValid(q)
    /\ q.phase \in AdmittedPhases =>
         /\ q.now \in Nat
         /\ \A e : e = effectOf(q) => MayChange(e)
         /\ handlerOf(q).service = "database" => q.database # None
         /\ IssueRoute(q) => /\ Issuer(q.who) /\ q.command.expiresAt \in Int
                             /\ q.command.scopes \subseteq RBAC_OPERATIONS

LEMMA ChangeStays ==
  ASSUME TokensGrow, UNCHANGED deployment, clock \in Nat, clock' \in Nat, clock <= clock',
         NEW e, MayChange(e)
  PROVE  MayChange(e)'
<1>1. holderMay(e)'
  BY MayStill DEF MayChange
<1>2. e.identified <= clock'
  BY DEF MayChange
<1>3. e.database = home(e.app)' /\ (deployment'.routes # None => e.database # None)
  BY DEF MayChange, home, homeOf
<1> QED
  BY <1>1, <1>2, <1>3 DEF MayChange

LEMMA CallerStays ==
  ASSUME TokensGrow, UNCHANGED deployment, clock \in Nat, clock' \in Nat, clock <= clock',
         NEW q, CallerInv(q)
  PROVE  CallerInv(q)'
<1>1. ASSUME Placed(q)
      PROVE  Placed(q)'
  <2>1. routable(q)' => routable(q)
    BY DEF routable, originAllowed
  <2> QED
    BY <1>1, <2>1, BelongsStill DEF Placed
<1>2. routable(q) /\ serviceBound(q) => routable(q)' /\ serviceBound(q)'
  BY DEF routable, originAllowed, serviceBound
<1>4. isRevoked(q.credential) => isRevoked(q.credential)'
  BY SpentStill
<1>3. ASSUME q.phase \in AdmittedPhases, NEW e, e = effectOf(q)
      PROVE  MayChange(e)'
  BY <1>3, ChangeStays DEF CallerInv
<1> QED
  BY <1>1, <1>2, <1>3, <1>4 DEF CallerInv

LEMMA CallerCopies ==
  ASSUME NEW r, NEW s, Alike(r, s), CallerInv(r),
         s.phase = r.phase \/ (s.phase \in AdmittedPhases /\ r.phase \in AdmittedPhases)
  PROVE  CallerInv(s)
<1>1. handlerOf(s) = handlerOf(r) /\ effectOf(s) = effectOf(r)
  BY SameEffect
<1>2. routable(s) <=> routable(r)
  BY DEF Alike, routable, matchAdminHttpEndpoint, methodAllowed, originAllowed
<1>3. serviceBound(s) <=> serviceBound(r)
  BY <1>1 DEF Alike, serviceBound
<1>4. Placed(s) <=> Placed(r)
  BY <1>2 DEF Alike, Placed
<1>5. s.phase \in {"routing", "handling", "identifying"} => s.phase = r.phase
  BY DEF AdmittedPhases, Working, Installing
<1>6. s.phase \in AdmittedPhases => r.phase \in AdmittedPhases
  OBVIOUS
<1>7. IssueRoute(s) <=> IssueRoute(r)
  BY DEF Alike, IssueRoute
<1>8. /\ s.now = r.now /\ s.database = r.database /\ s.who = r.who /\ s.command = r.command
      /\ s.spent = r.spent /\ s.credential = r.credential
  BY DEF Alike
<1>9. LimitIsValid(s) <=> LimitIsValid(r)
  BY DEF Alike, LimitIsValid, isDashboard, validLimit
<1> QED
  BY <1>1, <1>2, <1>3, <1>4, <1>5, <1>6, <1>7, <1>8, <1>9 DEF CallerInv

(***************************************************************************)
(* What an issue that is not refused asks for.                             *)
(***************************************************************************)
LEMMA IssueParsed ==
  ASSUME NEW r, IssueRoute(r), badRequest(r) = None
  PROVE  r.command.expiresAt \in Int /\ r.command.scopes \subseteq RBAC_OPERATIONS
<1>1. handlerOf(r) = runServiceTokenIssue
  BY DEF IssueRoute, handlerOf
<1>2. /\ runServiceTokenIssue.family = "service-token-issue" /\ runServiceTokenRevoke.family = "service-token-revoke"
      /\ runServiceTokenIssue.invalid = "invalid_service_token"
  BY DEF runServiceTokenIssue, runServiceTokenRevoke, Change, Handler
<1>3. runServiceTokenIssue # runServiceTokenRevoke /\ runServiceTokenIssue.family # None
  BY <1>2, FamilyAssumption DEF AdminMutationFamily
<1>4. parseBody(r, "invalid_service_token") = None
  BY <1>1, <1>2, <1>3 DEF badRequest, IssueRoute
<1>5. wellFormed(r)
  BY <1>4, NoneAssumption DEF parseBody, readBoundedUtf8Body
<1> QED
  BY <1>5 DEF wellFormed, IssueRoute, parseServiceTokenIssue

LEMMA Unrefused ==
  ASSUME NEW r, createControlPlaneHttpHandler(r) = NoRefusal
  PROVE  routable(r) /\ serviceBound(r) /\ (isDashboard(r) => validLimit(r))
<1>1. \A status, code, value : Answer(status, code, value).status = status
  BY DEF Answer
<1>2. NoRefusal.status = 0
  BY <1>1 DEF NoRefusal
<1>3. originAllowed(r)
  BY <1>1, <1>2 DEF createControlPlaneHttpHandler
<1>4. matchAdminHttpEndpoint(r)
  BY <1>1, <1>2, <1>3 DEF createControlPlaneHttpHandler
<1>5. r.method # "OPTIONS"
  BY <1>1, <1>2, <1>3, <1>4 DEF createControlPlaneHttpHandler
<1>6. methodAllowed(r)
  BY <1>1, <1>2, <1>3, <1>4, <1>5 DEF createControlPlaneHttpHandler
<1>7. serviceBound(r)
  BY <1>1, <1>2, <1>3, <1>4, <1>5, <1>6 DEF createControlPlaneHttpHandler
<1>8. isDashboard(r) => validLimit(r)
  BY <1>1, <1>2, <1>3, <1>4, <1>5, <1>6, <1>7 DEF createControlPlaneHttpHandler
<1> QED
  BY <1>3, <1>4, <1>5, <1>6, <1>7, <1>8 DEF routable

Granted == \A row \in tokens : row.id \notin {old.id : old \in scenario.tokens} => StaysWithin(row)

AuthInv ==
    /\ clock \in Nat
    /\ TokenInv /\ Granted
    /\ \A c \in Slots : \A q : q = requests[c] => CallerInv(q)
    /\ \A e \in effects : MayChange(e)

LEMMA OverIsFine == \A q : IsOver(q) \/ q.phase = "arrived" => CallerInv(q)
BY DEF IsOver, Idle, CallerInv, AdmittedPhases, Working, Installing

LEMMA SameRouting ==
  ASSUME NEW r, NEW s, SameForm(r, s)
  PROVE  /\ (routable(s) <=> routable(r)) /\ handlerOf(s) = handlerOf(r) /\ (IssueRoute(s) <=> IssueRoute(r))
         /\ LimitIsValid(s) <=> LimitIsValid(r)
<1>1. s.route = r.route /\ s.query = r.query
  BY DEF SameForm
<1>2. LimitIsValid(s) <=> LimitIsValid(r)
  BY <1>1 DEF LimitIsValid, isDashboard, validLimit
<1> QED
  BY <1>2 DEF SameForm, routable, matchAdminHttpEndpoint, methodAllowed, originAllowed, handlerOf, IssueRoute

LEMMA FetchPlaces ==
  ASSUME NEW c \in Slots, RequestShape, Fetch(c), NEW s, s = requests'[c]
  PROVE  CallerInv(s)
<1> DEFINE r == requests[c]
<1>1. CASE IsOver(s)
  BY <1>1, OverIsFine
<1>2. CASE s.phase = "routing" /\ deployment.routes = "valid"
  BY <1>2 DEF CallerInv, AdmittedPhases, Working, Installing
<1>3. CASE s.phase = "handling" /\ Placed(s)
  BY <1>3 DEF CallerInv, AdmittedPhases, Working, Installing
<1>4. CASE SameForm(r, s) /\ s.phase = "handling" /\ deployment.routes = "valid" /\ ~routable(r)
  <2>1. Placed(s)
    BY <1>4, SameRouting, NoneAssumption DEF Placed
  <2> QED
    BY <1>3, <1>4, <2>1
<1>5. CASE /\ s.phase = "handling" /\ deployment.routes = None
           /\ s.database = IF deployment.db THEN Default ELSE None
  BY <1>3, <1>5 DEF Placed
<1> QED
  BY <1>1, <1>2, <1>4, <1>5, FetchStep

LEMMA RoutePlaces ==
  ASSUME NEW c \in Slots, RequestShape, resolveRequestDatabase(c), NEW s, s = requests'[c],
         NEW r, r = requests[c], CallerInv(r)
  PROVE  CallerInv(s)
<1>1. CASE IsOver(s)
  BY <1>1, OverIsFine
<1>2. CASE /\ SameForm(r, s) /\ s.phase = "handling"
           /\ \E found \in identify(r.credential) :
                 /\ found.kind = "identity"
                 /\ found.who.app # None => s.database = databaseOf(found.who.app) /\ s.database # None
  <2>1. PICK found \in identify(r.credential) :
                 /\ found.kind = "identity"
                 /\ found.who.app # None => s.database = databaseOf(found.who.app) /\ s.database # None
    BY <1>2
  <2>2. BelongsTo(s.credential, found.who.app)
    BY <1>2, <2>1, FoundBelongs DEF SameForm
  <2>3. deployment.routes = "valid"
    BY RouteStep DEF CallerInv
  <2>4. Placed(s)
    BY <2>1, <2>2, <2>3, NoneAssumption DEF Placed
  <2> QED
    BY <1>2, <2>4 DEF CallerInv, AdmittedPhases, Working, Installing
<1> QED
  BY <1>1, <1>2, RouteStep

LEMMA HandlePlaces ==
  ASSUME NEW c \in Slots, RequestShape, Handle(c), NEW s, s = requests'[c],
         NEW r, r = requests[c], CallerInv(r)
  PROVE  CallerInv(s)
<1>1. CASE IsOver(s)
  BY <1>1, OverIsFine
<1>2. CASE /\ SameForm(r, s) /\ s.phase = "identifying" /\ s.database = r.database
           /\ s.spent = isRevoked(r.credential) /\ createControlPlaneHttpHandler(r) = NoRefusal
  <2>1. routable(r) /\ serviceBound(r) /\ LimitIsValid(r)
    BY <1>2, Unrefused DEF LimitIsValid
  <2>2. Placed(r)
    BY HandleStep DEF CallerInv
  <2>3. routable(s) /\ serviceBound(s) /\ LimitIsValid(s)
    BY <1>2, <2>1, SameRouting DEF serviceBound
  <2>4. Placed(s)
    BY <1>2, <2>1, <2>2 DEF Placed, SameForm
  <2>5. s.spent => isRevoked(s.credential)
    BY <1>2 DEF SameForm
  <2> QED
    BY <1>2, <2>3, <2>4, <2>5 DEF CallerInv, AdmittedPhases, Working, Installing
<1> QED
  BY <1>1, <1>2, HandleStep

(***************************************************************************)
(* The second resolution finds the caller whose database the first one     *)
(* found: a credential has one holder.                                     *)
(***************************************************************************)
LEMMA AdmitPlaces ==
  ASSUME NEW c \in Slots, RequestShape, resolveAdminIdentity(c), NEW s, s = requests'[c],
         NEW r, r = requests[c], CallerInv(r), TokenInv, clock \in Nat
  PROVE  CallerInv(s)
<1>1. CASE IsOver(s)
  BY <1>1, OverIsFine
<1>2. CASE ~IsOver(s)
  <2>1. /\ r.phase = "identifying"
        /\ SameForm(r, s) /\ s.database = r.database /\ s.spent = r.spent /\ s.identified = clock /\ s.now = clock
        /\ s.phase = IF handlerOf(r).family = None THEN "working" ELSE "reserving"
        /\ \E found \in identify(r.credential) : found.kind = "identity" /\ s.who = found.who
        /\ isTenantScopedAdminIdentity(s.who) /\ requireRbac(s.who, handlerOf(r).operation)
        /\ badRequest(r) = None
    BY <1>2, AdmitStep
  <2>2. PICK found \in identify(r.credential) : found.kind = "identity" /\ s.who = found.who
    BY <2>1
  <2>3. handlerOf(s) = handlerOf(r) /\ (IssueRoute(s) <=> IssueRoute(r)) /\ s.credential = r.credential
    BY <2>1, SameRouting DEF SameForm
  <2>4. Placed(r) /\ routable(r) /\ serviceBound(r) /\ LimitIsValid(r) /\ (r.spent => isRevoked(r.credential))
    BY <2>1 DEF CallerInv
  <2>5. s.who.app # None
    BY <2>1 DEF isTenantScopedAdminIdentity
  <2>6. /\ s.database = home(s.who.app)
        /\ deployment.routes # None => s.database # None
    <3>1. CASE deployment.routes = None
      BY <2>1, <2>4, <3>1 DEF Placed, home, homeOf
    <3>2. CASE deployment.routes # None
      <4>1. PICK app : /\ BelongsTo(r.credential, app)
                       /\ app # None => r.database = databaseOf(app) /\ r.database # None
        BY <2>4, <3>2 DEF Placed
      <4>2. app = s.who.app
        BY <2>2, <4>1, FoundBelongs, OneApp
      <4> QED
        BY <2>1, <2>5, <3>2, <4>1, <4>2 DEF home, homeOf
    <3> QED
      BY <3>1, <3>2
  <2>7. ASSUME NEW e, e = effectOf(s)
        PROVE  MayChange(e)
    <3>1. /\ e.credential = r.credential /\ e.app = s.who.app /\ e.tenant = s.who.tenant
          /\ e.identified = clock /\ e.database = s.database /\ e.operation = handlerOf(r).operation
          /\ e.spent = r.spent
      BY <2>1, <2>3, <2>7 DEF effectOf
    <3>2. holderMay(e)
      BY <2>1, <2>2, <2>4, <3>1, FoundMay
    <3> QED
      BY <2>6, <3>1, <3>2 DEF MayChange
  <2>8. handlerOf(s).service = "database" => s.database # None
    BY <2>1, <2>3, <2>4 DEF serviceBound
  <2>9. ASSUME IssueRoute(s)
        PROVE  /\ Issuer(s.who) /\ s.command.expiresAt \in Int
               /\ s.command.scopes \subseteq RBAC_OPERATIONS
    <3>1. handlerOf(r) = runServiceTokenIssue
      BY <2>3, <2>9 DEF IssueRoute, handlerOf
    <3>2. handlerOf(r).service = "tokens" /\ handlerOf(r).operation = "service-token:issue"
      BY <3>1 DEF runServiceTokenIssue, Change, Handler
    <3>3. deployment.db
      BY <2>4, <3>2 DEF serviceBound
    <3>4. requireRbac(s.who, "service-token:issue")
      BY <2>1, <3>2
    <3>5. ASSUME isServiceTokenCredential(r.credential)
          PROVE  FALSE
      <4>1. PICK row \in tokens : serviceTokenFromRow(row) /\ s.who.allowed = row.scopes
        BY <2>2, <3>3, <3>5, Resolved
      <4>2. row.scopes # None
        BY ScopesAssumption DEF TokenInv
      <4>3. "service-token:issue" \in row.scopes
        BY <3>4, <4>1, <4>2 DEF requireRbac
      <4> QED
        BY <4>1, <4>3 DEF serviceTokenFromRow, forbiddenMachineScopes, TokenChanges
    <3>6. r.credential \in DOMAIN Bootstrap /\ Bootstrap[r.credential] = s.who
      BY <2>2, <3>5, Resolved
    <3>7. Issuer(s.who)
      BY <3>4, <3>5, <3>6 DEF Issuer
    <3>8. r.command.expiresAt \in Int /\ r.command.scopes \subseteq RBAC_OPERATIONS
      BY <2>1, <2>3, <2>9, IssueParsed
    <3> QED
      BY <2>1, <3>7, <3>8 DEF SameForm
  <2>10. s.phase \in {"working", "reserving"} /\ s.now \in Nat /\ LimitIsValid(s)
    BY <2>1, <2>4, SameRouting
  <2> QED
    BY <2>7, <2>8, <2>9, <2>10 DEF CallerInv
<1> QED
  BY <1>1, <1>2

LEMMA ReservePlaces ==
  ASSUME NEW c \in Slots, RequestShape, reserveAdminMutation(c), NEW s, s = requests'[c],
         NEW r, r = requests[c], CallerInv(r), clock \in Nat
  PROVE  CallerInv(s)
<1>1. CASE IsOver(s)
  BY <1>1, OverIsFine
<1>2. CASE ~IsOver(s)
  <2>1. /\ r.phase = "reserving" /\ s.now = clock
        /\ SameForm(r, s) /\ s.phase = "working" /\ s.who = r.who /\ s.identified = r.identified
        /\ s.database = r.database /\ s.spent = r.spent
    BY <1>2, ReserveStep
  <2>2. handlerOf(s) = handlerOf(r) /\ (IssueRoute(s) <=> IssueRoute(r)) /\ (LimitIsValid(s) <=> LimitIsValid(r))
    BY <2>1, SameRouting
  <2>3. r.phase \in AdmittedPhases
    BY <2>1 DEF AdmittedPhases
  <2>4. ASSUME NEW e, e = effectOf(s)
        PROVE  MayChange(e)
    <3>1. PICK d : d = effectOf(r)
      OBVIOUS
    <3>2. MayChange(d)
      BY <2>3, <3>1 DEF CallerInv
    <3>3. /\ e.credential = d.credential /\ e.app = d.app /\ e.tenant = d.tenant
          /\ e.identified = d.identified /\ e.database = d.database /\ e.operation = d.operation
          /\ e.spent = d.spent
      BY <2>1, <2>2, <2>4, <3>1 DEF effectOf, SameForm
    <3> QED
      BY <3>2, <3>3 DEF MayChange, holderMay
  <2>5. s.command = r.command
    BY <2>1 DEF SameForm
  <2> QED
    BY <2>1, <2>2, <2>3, <2>4, <2>5 DEF CallerInv
<1> QED
  BY <1>1, <1>2

(***************************************************************************)
(* The tokens after a step of the Worker.                                  *)
(***************************************************************************)
LEMMA ServeTokens ==
  ASSUME NEW c \in Slots, RequestShape, AuthInv, Serve(c), UNCHANGED scenario
  PROVE  /\ TokensGrow /\ TokenInv' /\ Granted' /\ UNCHANGED <<clock, deployment>> /\ OnlySlot(c)
<1> DEFINE r == requests[c]
<1>0. UNCHANGED <<clock, deployment>> /\ OnlySlot(c)
  BY FetchStep, RouteStep, HandleStep, AdmitStep, ReserveStep, ReadStep, ChangeStep
     DEF Serve, TakesKey, TakesNoKey, Issues, Revokes, TakesEffect, Leaves, untouched, reads, unchanged, stable
<1>1. CASE UNCHANGED tokens
  BY <1>0, <1>1 DEF TokensGrow, TokenInv, Granted, AuthInv
<1>2. CASE Issues(c)
  <2>1. r.phase \in AdmittedPhases /\ IssueRoute(r)
    <3>1. r.phase \in {"working", "revoking", "writing"} /\ IssueRoute(r)
      BY <1>2 DEF Issues, TakesEffect, IssueRoute
    <3> QED
      BY <3>1 DEF AdmittedPhases, Working, Installing
  <2>2. PICK who, asked : who = r.who /\ asked = r.command
    OBVIOUS
  <2>3. Issuer(who) /\ asked.expiresAt \in Int /\ asked.scopes \subseteq RBAC_OPERATIONS
    BY <2>1, <2>2 DEF AuthInv, CallerInv
  <2>4. PICK new : new = tokenRecord(who, asked)
    OBVIOUS
  <2>5. TokensGrow /\ TokenInv' /\ StaysWithin(new) /\ tokens' = tokens \cup {new}
    BY <1>2, <2>2, <2>3, <2>4, Issued DEF Issues, AuthInv
  <2> QED
    BY <1>0, <2>5 DEF Granted, AuthInv
<1>3. CASE Revokes(c)
  <2>1. PICK id, who, time : revokeToken(id, who, time)
    BY <1>3 DEF Revokes
  <2>2. /\ TokensGrow /\ TokenInv'
        /\ \A new \in tokens' : \E row \in tokens : new.id = row.id /\ (StaysWithin(row) => StaysWithin(new))
    BY <2>1, Revoked DEF AuthInv
  <2> QED
    BY <1>0, <2>2 DEF Granted, AuthInv
<1> QED
  BY <1>1, <1>2, <1>3, FetchStep, RouteStep, HandleStep, AdmitStep, ReserveStep, ReadStep, ChangeStep
     DEF Serve, TakesKey, TakesNoKey, TakesEffect, Leaves, untouched, reads, unchanged

LEMMA ServePlaces ==
  ASSUME NEW c \in Slots, RequestShape, AuthInv, Serve(c), NEW s, s = requests'[c]
  PROVE  CallerInv(s)
<1>1. PICK r : r = requests[c]
  OBVIOUS
<1>2. CallerInv(r) /\ clock \in Nat /\ TokenInv
  BY <1>1 DEF AuthInv
<1>3. CASE IsOver(s)
  BY <1>3, OverIsFine
<1>4. CASE SameCaller(r, s) /\ r.phase \in AdmittedPhases /\ s.phase \in AdmittedPhases
  BY <1>2, <1>4, CallerAlike, CallerCopies
<1>5. CASE Fetch(c)
  BY <1>5, FetchPlaces
<1>6. CASE resolveRequestDatabase(c)
  BY <1>1, <1>2, <1>6, RoutePlaces
<1>7. CASE Handle(c)
  BY <1>1, <1>2, <1>7, HandlePlaces
<1>8. CASE resolveAdminIdentity(c)
  BY <1>1, <1>2, <1>8, AdmitPlaces
<1>9. CASE reserveAdminMutation(c)
  BY <1>1, <1>2, <1>9, ReservePlaces
<1>10. CASE Reading(c)
  BY <1>1, <1>3, <1>4, <1>10, ReadStep DEF AdmittedPhases, Working, Installing
<1>11. CASE Leaves(c)
  BY <1>1, <1>3, <1>4, <1>11 DEF Leaves, AdmittedPhases, Working, Installing
<1>12. CASE TakesEffect(c)
  BY <1>1, <1>3, <1>4, <1>12 DEF TakesEffect, AdmittedPhases, Working, Installing
<1> QED
  BY <1>5, <1>6, <1>7, <1>8, <1>9, <1>10, <1>11, <1>12, ChangeStep
     DEF Serve, TakesKey, TakesNoKey, Issues, Revokes

(***************************************************************************)
(* What a step of the Worker adds to what was changed.                     *)
(***************************************************************************)
LEMMA ServeEffects ==
  ASSUME NEW c \in Slots, RequestShape, Serve(c)
  PROVE  \/ UNCHANGED effects
         \/ effect(requests[c]) /\ requests[c].phase \in AdmittedPhases
BY FetchStep, RouteStep, HandleStep, AdmitStep, ReserveStep, ReadStep, ChangeStep
   DEF Serve, TakesKey, TakesNoKey, Issues, Revokes, TakesEffect, Leaves, untouched, reads, unchanged,
       AdmittedPhases, Working, Installing

LEMMA NextKeepsAuth ==
  ASSUME RequestShape, AuthInv, [Next]_vars
  PROVE  AuthInv'
<1>1. ASSUME TokensGrow, UNCHANGED deployment, clock' \in Nat, clock <= clock', TokenInv', Granted',
             UNCHANGED effects, \A c \in Slots : \A q : q = requests'[c] => CallerInv(q)
      PROVE  AuthInv'
  <2>1. \A c \in Slots : \A q : q = requests'[c] => CallerInv(q)'
    BY <1>1, CallerStays DEF AuthInv
  <2>2. \A e \in effects' : MayChange(e)'
    BY <1>1, ChangeStays DEF AuthInv
  <2> QED
    BY <1>1, <2>1, <2>2 DEF AuthInv
<1>2. ASSUME UNCHANGED <<tokens, deployment, scenario>>
      PROVE  TokensGrow /\ TokenInv' /\ Granted'
  BY <1>2 DEF TokensGrow, TokenInv, Granted, AuthInv
<1>3. ASSUME NEW c \in Slots, Serve(c), UNCHANGED console
      PROVE  AuthInv'
  <2>1. /\ TokensGrow /\ TokenInv' /\ Granted' /\ UNCHANGED <<clock, deployment>> /\ OnlySlot(c)
    BY <1>3, ServeTokens DEF console
  <2>2. clock \in Nat /\ clock' \in Nat /\ clock <= clock'
    BY <2>1 DEF AuthInv
  <2>3. ASSUME NEW d \in Slots, NEW q, q = requests'[d]
        PROVE  CallerInv(q)'
    <3>1. CallerInv(q)
      BY <1>3, <2>1, <2>3, ServePlaces DEF OnlySlot, AuthInv
    <3> QED
      BY <2>1, <2>2, <3>1, CallerStays
  <2>4. ASSUME NEW e \in effects'
        PROVE  MayChange(e)'
    <3>1. MayChange(e)
      <4>1. CASE e \in effects
        BY <4>1 DEF AuthInv
      <4>2. CASE e = effectOf(requests[c]) /\ requests[c].phase \in AdmittedPhases
        <5>1. PICK q : q = requests[c]
          OBVIOUS
        <5>2. CallerInv(q)
          BY <5>1 DEF AuthInv
        <5> QED
          BY <4>2, <5>1, <5>2 DEF CallerInv
      <4> QED
        BY <1>3, <4>1, <4>2, ServeEffects DEF effect
    <3> QED
      BY <2>1, <2>2, <3>1, ChangeStays
  <2> QED
    BY <2>1, <2>2, <2>3, <2>4 DEF AuthInv
<1>4. CASE ClientStep /\ quiet
  <2>1. ASSUME NEW c \in Slots, NEW q, q = requests'[c]
        PROVE  CallerInv(q)
    <3>1. PICK r : r = requests[c]
      OBVIOUS
    <3>2. CallerInv(r) /\ ClientMove(r, q)
      BY <1>4, <2>1, <3>1 DEF AuthInv, ClientStep
    <3> QED
      BY <3>2, OverIsFine, CallerCopies DEF ClientMove, IsOver
  <2>2. clock' \in Nat /\ clock <= clock' /\ UNCHANGED <<tokens, deployment, scenario, effects>>
    BY <1>4 DEF quiet, AuthInv
  <2> QED
    BY <1>1, <1>2, <2>1, <2>2
<1>5. CASE RecordExecution \/ OtherAdministrator \/ Tick \/ UNCHANGED vars
  <2>1. UNCHANGED <<requests, effects, tokens, deployment, scenario>>
    BY <1>5 DEF RecordExecution, OtherAdministrator, Tick, elsewhere, vars, api, access, console
  <2>2. clock' = clock \/ clock' = clock + 1
    BY <1>5 DEF RecordExecution, OtherAdministrator, Tick, vars, access
  <2>3. \A c \in Slots : \A q : q = requests'[c] => CallerInv(q)
    BY <2>1 DEF AuthInv
  <2>4. clock' \in Nat /\ clock <= clock'
    BY <2>2 DEF AuthInv
  <2> QED
    BY <1>1, <1>2, <2>1, <2>3, <2>4
<1> QED
  BY <1>3, <1>4, <1>5, StepKinds

(***************************************************************************)
(* Every change is its caller's to make, in the database of the caller's   *)
(* app, whatever was revoked, expired or issued while it was on its way:   *)
(* the router and the handler resolve the credential one after the other   *)
(* (worker-entry.ts:373, http-api.ts:1825).                                *)
(***************************************************************************)
LEMMA AuthIsKept == Spec => []AuthInv
<1>1. Init => AuthInv
  <2> SUFFICES ASSUME Init PROVE AuthInv
    OBVIOUS
  <2>1. scenario \in Scenarios /\ tokens = scenario.tokens /\ clock = 0 /\ effects = {}
    BY DEF Init
  <2>2. TokenInv /\ Granted
    BY <2>1, ScenarioAssumption DEF TokenInv, Granted
  <2>3. ASSUME NEW c \in Slots, NEW q, q = requests[c]
        PROVE  CallerInv(q)
    <3>1. q = Idle
      BY <2>3 DEF Init
    <3> QED
      BY <3>1, OverIsFine DEF IsOver
  <2> QED
    BY <2>1, <2>2, <2>3 DEF AuthInv
<1>2. RequestShape /\ AuthInv /\ [Next]_vars => AuthInv'
  BY NextKeepsAuth
<1> QED
  BY <1>1, <1>2, RequestsAreShaped, PTL DEF Spec

-----------------------------------------------------------------------------
(* Idempotency keys.                                                        *)

(***************************************************************************)
(* The record a change with a key left, or a later one of that key.        *)
(***************************************************************************)
Recorded(e) ==
    /\ e.now \in Nat /\ e.database \in DOMAIN keys
    /\ \E k \in keys[e.database] :
          /\ k.kind = kindOf(e.route) /\ k.app = e.app /\ k.tenant = e.tenant /\ k.key = e.key
          /\ k.expires >= e.now + KeyLifetime

KeyInv ==
    /\ scenario \in Scenarios /\ DOMAIN keys = DOMAIN scenario.rows
    /\ \A d \in DOMAIN keys : \A k \in keys[d] : k.expires \in Nat
    /\ \A e \in effects : e.key # None => Recorded(e)
    /\ KeyActsOnce

LEMMA HomeIsThere ==
  ASSUME scenario \in Scenarios, NEW app, home(app) # None
  PROVE  home(app) \in DOMAIN scenario.rows
<1>1. {Default} \cup {route.database : route \in AppRoutes} \subseteq DOMAIN scenario.rows
  BY ScenarioAssumption
<1>2. CASE deployment.routes = None
  BY <1>1, <1>2 DEF home, homeOf
<1>3. CASE deployment.routes # None
  <2>1. home(app) = databaseOf(app)
    BY <1>3 DEF home, homeOf
  <2> DEFINE route == CHOOSE x \in AppRoutes : x.app = app
  <2>2. (\E x \in AppRoutes : x.app = app) /\ databaseOf(app) = route.database
    BY <2>1 DEF databaseOf
  <2>3. route \in AppRoutes
    BY <2>2
  <2> QED
    BY <1>1, <2>1, <2>2, <2>3
<1> QED
  BY <1>2, <1>3

(***************************************************************************)
(* Only the three keyed routes leave a key with their change.              *)
(***************************************************************************)
LEMMA KeysOfRoutes ==
  ASSUME NEW r
  PROVE  /\ r.route \in KeyedRoutes => effectOf(r).key = r.key /\ handlerOf(r).service = "database"
         /\ r.route \in ChangeRoutes \ KeyedRoutes => effectOf(r).key = None
<1>1. ASSUME r.route \in KeyedRoutes
      PROVE  handlerOf(r).keyed = TRUE /\ handlerOf(r).service = "database"
  BY <1>1 DEF KeyedRoutes, handlerOf, runInstall, runInstallRequest, runRollback, Change, Handler
<1>2. ASSUME r.route \in ChangeRoutes \ KeyedRoutes
      PROVE  handlerOf(r).keyed = FALSE
  BY <1>2 DEF KeyedRoutes, ChangeRoutes, handlerOf, runInstallationCommand, runApprovalDecision,
     runServiceTokenIssue, runServiceTokenRevoke, runSlackOAuthInstallStart, Change, Handler
<1> QED
  BY <1>1, <1>2 DEF effectOf

LEMMA KeyTaken ==
  ASSUME KeyInv, NEW r, UNCHANGED scenario, r.now \in Nat, r.database \in DOMAIN keys, effect(r),
         effectOf(r).key = r.key, NEW row,
         \A e \in effects : e.key # None /\ e.app = r.who.app => e.database = r.database,
         recordOf(r.database, kindOf(r.route), r.who, r.key, r.now) = {},
         remember(r.database, kindOf(r.route), r.who, r.key, r.command, row, r.now)
  PROVE  KeyInv'
<1> DEFINE d == r.database
           kind == kindOf(r.route)
           alike(k) == k.kind = kind /\ k.app = r.who.app /\ k.tenant = r.who.tenant /\ k.key = r.key
           new == [kind |-> kind, app |-> r.who.app, tenant |-> r.who.tenant, key |-> r.key,
                   hash |-> r.command, row |-> row, expires |-> r.now + KeyLifetime]
<1>1. KeyLifetime \in Nat /\ KeyLifetime > 0
  BY LifetimeAssumption
<1>2. /\ DOMAIN keys' = DOMAIN keys
      /\ \A b \in DOMAIN keys : b # d => keys'[b] = keys[b]
      /\ keys'[d] = {k \in keys[d] : ~alike(k) \/ k.expires > r.now} \cup {new}
  BY DEF remember
<1>3. alike(new) /\ new.expires = r.now + KeyLifetime /\ new \in keys'[d]
  BY <1>2
<1>4. \A k \in keys[d] : alike(k) => ~(k.expires > r.now)
  BY DEF recordOf
<1> HIDE DEF new
<1>5. ASSUME NEW b \in DOMAIN keys', NEW k \in keys'[b]
      PROVE  k.expires \in Nat
  <2>1. CASE k = new
    BY <1>1, <1>3, <2>1
  <2>2. CASE k \in keys[b]
    BY <1>2, <2>2 DEF KeyInv
  <2> QED
    BY <1>2, <1>5, <2>1, <2>2
<1>6. ASSUME NEW e, Recorded(e)
      PROVE  Recorded(e)'
  <2>1. PICK k \in keys[e.database] :
          /\ k.kind = kindOf(e.route) /\ k.app = e.app /\ k.tenant = e.tenant /\ k.key = e.key
          /\ k.expires >= e.now + KeyLifetime
    BY <1>6 DEF Recorded
  <2>2. e.now \in Nat /\ e.database \in DOMAIN keys /\ k.expires \in Nat
    BY <1>6, <2>1 DEF Recorded, KeyInv
  <2>3. CASE k \in keys'[e.database]
    BY <1>2, <2>1, <2>2, <2>3 DEF Recorded
  <2>4. CASE k \notin keys'[e.database]
    <3>1. e.database = d /\ alike(k) /\ ~(k.expires > r.now)
      BY <1>2, <2>1, <2>2, <2>4
    <3>2. new.expires >= e.now + KeyLifetime
      BY <1>1, <1>3, <2>1, <2>2, <3>1
    <3>3. new.kind = kindOf(e.route) /\ new.app = e.app /\ new.tenant = e.tenant /\ new.key = e.key
      BY <1>3, <2>1, <3>1
    <3> QED
      BY <1>2, <1>3, <2>2, <3>1, <3>2, <3>3 DEF Recorded
  <2> QED
    BY <2>3, <2>4
<1> PICK x : x = effectOf(r)
  OBVIOUS
<1>7. /\ x.now = r.now /\ x.database = d /\ x.app = r.who.app /\ x.tenant = r.who.tenant
      /\ x.key = r.key /\ x.route = r.route
  BY DEF effectOf
<1>8. effects' = effects \cup {x}
  BY DEF effect
<1> HIDE DEF d, kind
<1>9. Recorded(x)'
  <2>1. new.expires >= x.now + KeyLifetime
    BY <1>1, <1>3, <1>7
  <2>2. d \in DOMAIN keys' /\ new \in keys'[d]
    BY <1>2, <1>3 DEF d
  <2>3. new.kind = kindOf(x.route) /\ new.app = x.app /\ new.tenant = x.tenant /\ new.key = x.key
    BY <1>3, <1>7 DEF kind
  <2> QED
    BY <1>7, <2>1, <2>2, <2>3 DEF Recorded
<1>10. \A e \in effects' : e.key # None => Recorded(e)'
  BY <1>6, <1>8, <1>9 DEF KeyInv
<1>11. ASSUME NEW e \in effects, x.key # None, e.key = x.key, e.route = x.route, e.app = x.app, e.tenant = x.tenant
       PROVE  x.now \in Nat /\ e.now \in Nat /\ x.now >= e.now + KeyLifetime
  <2>1. Recorded(e) /\ e.database = d
    BY <1>7, <1>11 DEF KeyInv, d
  <2>2. PICK k \in keys[d] :
          /\ k.kind = kindOf(e.route) /\ k.app = e.app /\ k.tenant = e.tenant /\ k.key = e.key
          /\ k.expires >= e.now + KeyLifetime
    BY <2>1 DEF Recorded
  <2>3. ~(k.expires > r.now)
    BY <1>4, <1>7, <1>11, <2>2 DEF kind
  <2>4. k.expires \in Nat /\ e.now \in Nat
    BY <2>1, <2>2 DEF KeyInv, Recorded
  <2> QED
    BY <1>1, <1>7, <2>2, <2>3, <2>4
<1>12. KeyActsOnce'
  <2>1. ASSUME NEW e \in effects', NEW f \in effects',
               e.key # None, e.key = f.key, e.route = f.route, e.app = f.app, e.tenant = f.tenant,
               f.now \in e.now..(e.now + KeyLifetime - 1)
        PROVE  e = f
    <3>1. CASE e \in effects /\ f \in effects
      BY <2>1, <3>1 DEF KeyInv, KeyActsOnce
    <3>2. CASE e \in effects /\ f = x
      BY <1>1, <1>11, <2>1, <3>2
    <3>3. CASE e = x /\ f \in effects
      BY <1>1, <1>11, <2>1, <3>3
    <3> QED
      BY <1>8, <2>1, <3>1, <3>2, <3>3
  <2> QED
    BY <2>1 DEF KeyActsOnce
<1> QED
  BY <1>2, <1>5, <1>10, <1>12 DEF KeyInv

LEMMA KeysStay ==
  ASSUME KeyInv, UNCHANGED <<keys, scenario>>, \A e \in effects' : e \in effects \/ e.key = None
  PROVE  KeyInv'
<1>1. KeyActsOnce'
  BY DEF KeyInv, KeyActsOnce
<1>2. \A e : Recorded(e) => Recorded(e)'
  BY DEF Recorded
<1> QED
  BY <1>1, <1>2 DEF KeyInv

LEMMA NextKeepsKeys ==
  ASSUME RequestShape, AuthInv, KeyInv, [Next]_vars
  PROVE  KeyInv'
<1>1. ASSUME NEW c \in Slots, Serve(c), UNCHANGED console
      PROVE  KeyInv'
  <2>1. PICK r : r = requests[c]
    OBVIOUS
  <2>2. UNCHANGED scenario /\ CallerInv(r)
    BY <1>1, <2>1 DEF console, AuthInv
  <2>3. CASE UNCHANGED <<keys, effects>>
    BY <2>2, <2>3, KeysStay
  <2>4. CASE TakesKey(c)
    <3>1. /\ effect(r) /\ r.phase \in AdmittedPhases /\ r.route \in KeyedRoutes
          /\ recordOf(r.database, kindOf(r.route), r.who, r.key, r.now) = {}
          /\ \E row : remember(r.database, kindOf(r.route), r.who, r.key, r.command, row, r.now)
      BY <2>1, <2>4 DEF TakesKey, TakesEffect, AdmittedPhases, Working, Installing
    <3>2. effectOf(r).key = r.key /\ r.database # None /\ r.now \in Nat
      BY <2>2, <3>1, KeysOfRoutes DEF CallerInv
    <3>3. PICK x : x = effectOf(r)
      OBVIOUS
    <3>4. r.database = home(r.who.app)
      <4>1. MayChange(x)
        BY <2>2, <3>1, <3>3 DEF CallerInv
      <4>2. x.database = r.database /\ x.app = r.who.app
        BY <3>3 DEF effectOf
      <4> QED
        BY <4>1, <4>2 DEF MayChange
    <3>5. r.database \in DOMAIN keys
      BY <3>2, <3>4, HomeIsThere DEF KeyInv
    <3>6. \A e \in effects : e.app = r.who.app => e.database = r.database
      BY <3>4 DEF AuthInv, MayChange
    <3> QED
      BY <2>2, <3>1, <3>2, <3>5, <3>6, KeyTaken
  <2>5. CASE effect(r) /\ UNCHANGED keys /\ r.route \in ChangeRoutes \ KeyedRoutes
    BY <2>2, <2>5, KeysOfRoutes, KeysStay DEF effect
  <2>6. CASE TakesNoKey(c) \/ Issues(c) \/ Revokes(c)
    <3>1. effect(r) /\ UNCHANGED keys /\ r.route \in ChangeRoutes \ KeyedRoutes
      BY <2>1, <2>6 DEF TakesNoKey, Issues, Revokes, TakesEffect, KeyedRoutes, ChangeRoutes
    <3> QED
      BY <2>5, <3>1
  <2> QED
    BY <1>1, <2>3, <2>4, <2>6, FetchStep, RouteStep, HandleStep, AdmitStep, ReserveStep, ReadStep, ChangeStep
       DEF Serve, Leaves, untouched, reads, unchanged
<1>2. ASSUME UNCHANGED <<keys, effects, scenario>>
      PROVE  KeyInv'
  BY <1>2, KeysStay
<1>3. CASE ClientStep /\ quiet
  BY <1>2, <1>3 DEF quiet
<1>4. CASE RecordExecution \/ OtherAdministrator \/ Tick \/ UNCHANGED vars
  <2>1. UNCHANGED <<keys, effects, scenario>>
    BY <1>4 DEF RecordExecution, OtherAdministrator, Tick, elsewhere, vars, api, stores, console
  <2> QED
    BY <1>2, <2>1
<1> QED
  BY <1>1, <1>3, <1>4, StepKinds

(***************************************************************************)
(* A key acts once, however often its form is sent and however the answers *)
(* are lost: while the record of the key lasts no change of it is made     *)
(* (admin-install-flow.ts:196-259, admin-rollbacks.ts, App.tsx:1373).        *)
(***************************************************************************)
THEOREM KeysActOnce == Spec => []KeyActsOnce
<1>1. Init => KeyInv
  BY DEF Init, KeyInv, KeyActsOnce
<1>2. RequestShape /\ AuthInv /\ KeyInv /\ [Next]_vars => KeyInv'
  BY NextKeepsKeys
<1>3. KeyInv => KeyActsOnce
  BY DEF KeyInv
<1> QED
  BY <1>1, <1>2, <1>3, RequestsAreShaped, AuthIsKept, PTL DEF Spec

-----------------------------------------------------------------------------
(* Pages and tables.                                                        *)

(***************************************************************************)
(* Rows that are listed together: of one section, told apart by their ids. *)
(***************************************************************************)
Listed(found) ==
    /\ IsFiniteSet(found) /\ \A r \in found : SoundRow(r)
    /\ \A a, b \in found : a.section = b.section /\ (a.id = b.id => a = b)

LEMMA PrecedesIsAnOrder ==
  ASSUME NEW found, Listed(found), NEW a \in found, NEW b \in found, NEW c \in found
  PROVE  /\ ~precedes(a, a)
         /\ a # b => precedes(a, b) \/ precedes(b, a)
         /\ precedes(a, b) /\ precedes(b, c) => precedes(a, c)
<1>1. /\ a.section = b.section /\ b.section = c.section
      /\ a.id \in Nat /\ b.id \in Nat /\ c.id \in Nat /\ a.at \in Nat /\ b.at \in Nat /\ c.at \in Nat
      /\ a # b => a.id # b.id
  BY DEF Listed, SoundRow
<1> QED
  BY <1>1 DEF precedes

(***************************************************************************)
(* Every place of the order is taken.                                      *)
(***************************************************************************)
LEMMA InOrder ==
  ASSUME NEW found, Listed(found)
  PROVE  inOrder(found) \in Seq(found)
<1> DEFINE n == Cardinality(found)
           before(r) == {x \in found : precedes(x, r)}
           rank == [r \in found |-> Cardinality(before(r))]
<1>1. IsFiniteSet(found) /\ n \in Nat
  BY FS_CardinalityType DEF Listed
<1>2. ASSUME NEW r \in found
      PROVE  IsFiniteSet(before(r)) /\ rank[r] \in 0..(n - 1)
  <2>1. before(r) \in SUBSET found /\ r \notin before(r)
    BY PrecedesIsAnOrder
  <2>2. /\ IsFiniteSet(before(r)) /\ Cardinality(before(r)) <= n
        /\ Cardinality(before(r)) # n
    BY <1>1, <2>1, FS_Subset
  <2>3. Cardinality(before(r)) \in Nat
    BY <2>2, FS_CardinalityType
  <2> QED
    BY <1>1, <2>2, <2>3
<1>3. ASSUME NEW a \in found, NEW b \in found, precedes(a, b)
      PROVE  rank[a] < rank[b]
  <2>1. before(a) \in SUBSET before(b) /\ a \in before(b) /\ a \notin before(a)
    BY <1>3, PrecedesIsAnOrder
  <2>2. Cardinality(before(a)) <= Cardinality(before(b)) /\ Cardinality(before(a)) # Cardinality(before(b))
    BY <1>2, <2>1, FS_Subset
  <2>3. Cardinality(before(a)) \in Nat /\ Cardinality(before(b)) \in Nat
    BY <1>2, FS_CardinalityType
  <2> QED
    BY <2>2, <2>3
<1>4. rank \in [found -> 0..(n - 1)]
  BY <1>2
<1>5. \A a, b \in found : rank[a] = rank[b] => a = b
  <2> SUFFICES ASSUME NEW a \in found, NEW b \in found, rank[a] = rank[b], a # b
               PROVE  FALSE
    OBVIOUS
  <2>1. rank[a] \in Int /\ rank[b] \in Int
    BY <1>4
  <2>2. precedes(a, b) \/ precedes(b, a)
    BY PrecedesIsAnOrder
  <2> QED
    BY <1>3, <2>1, <2>2
<1> HIDE DEF rank
<1>6. rank \in Surjection(found, 0..(n - 1))
  <2>1. IsFiniteSet(0..(n - 1)) /\ Cardinality(0..(n - 1)) = n
    BY <1>1, FS_Interval
  <2>2. rank \in Injection(found, 0..(n - 1))
    BY <1>4, <1>5 DEF Injection, IsInjective
  <2> QED
    BY <2>1, <2>2, FS_Injection
<1>7. ASSUME NEW i \in 1..n
      PROVE  \E r \in found : Cardinality(before(r)) = i - 1
  <2>1. i - 1 \in 0..(n - 1)
    BY <1>1
  <2>2. PICK r \in found : rank[r] = i - 1
    BY <1>6, <2>1 DEF Surjection
  <2> QED
    BY <2>2 DEF rank
<1>8. inOrder(found) \in [1..n -> found]
  BY <1>7 DEF inOrder
<1> QED
  BY <1>1, <1>8

(***************************************************************************)
(* A page holds rows of those that were found.                             *)
(***************************************************************************)
LEMMA PageHolds ==
  ASSUME NEW sorted, NEW found, sorted \in Seq(found), NEW limit \in Nat
  PROVE  keysetPage(sorted, limit).items \in Seq(found)
<1> DEFINE k == IF Len(sorted) < limit THEN Len(sorted) ELSE limit
<1>1. k \in 0..Len(sorted)
  BY LenProperties
<1>2. SubSeq(sorted, 1, k) \in Seq(found)
  BY <1>1, SubSeqProperties, LenProperties
<1> QED
  BY <1>2 DEF keysetPage

(***************************************************************************)
(* A row that takes the place of another keeps what is shown of it, or has *)
(* a later revision.                                                       *)
(***************************************************************************)
Later(old, new) ==
    old.revision < new.revision
    \/ (old.revision = new.revision /\ new.state = old.state /\ new.priority = old.priority)

(***************************************************************************)
(* Rows that may be written.                                               *)
(***************************************************************************)
Fits(d, new) ==
    /\ IsFiniteSet(new) /\ \A r \in new : SoundRow(r)
    /\ \A a, b \in new : a.section = b.section /\ a.id = b.id => a = b
    /\ \A n \in new : n.section = "installations" =>
          \A r \in rows[d] : r.section = "installations" /\ r.id = n.id => Later(r, n)

(***************************************************************************)
(* What a step does to the tables.                                         *)
(***************************************************************************)
RowsGrow ==
    /\ DOMAIN rows' = DOMAIN rows
    /\ \A d \in DOMAIN rows : \A r \in rows[d] : r.section = "installations" =>
          \E n \in rows'[d] : n.section = "installations" /\ n.id = r.id /\ Later(r, n)

RowsInv ==
    /\ scenario \in Scenarios /\ DOMAIN rows = DOMAIN scenario.rows
    /\ \A d \in DOMAIN rows : SoundTable(rows[d])

LEMMA RowsKept ==
  ASSUME RowsInv, UNCHANGED <<scenario, rows>>
  PROVE  RowsInv' /\ RowsGrow
BY DEF RowsInv, RowsGrow, Later, SoundTable, SoundRow

LEMMA WriteKeeps ==
  ASSUME RowsInv, UNCHANGED scenario, NEW d \in DOMAIN rows, NEW new, Fits(d, new), write(d, new)
  PROVE  RowsInv' /\ RowsGrow
<1> DEFINE kept == {r \in rows[d] : \A n \in new : n.section # r.section \/ n.id # r.id}
<1>1. /\ DOMAIN rows' = DOMAIN rows /\ rows'[d] = kept \cup new
      /\ \A x \in DOMAIN rows : x # d => rows'[x] = rows[x]
  BY DEF write
<1>2. SoundTable(rows[d])
  BY DEF RowsInv
<1>3. SoundTable(kept \cup new)
  <2>1. IsFiniteSet(kept \cup new)
    BY <1>2, FS_Subset, FS_Union DEF SoundTable, Fits
  <2> QED
    BY <1>2, <2>1 DEF SoundTable, Fits
<1>4. ASSUME NEW x \in DOMAIN rows, NEW r \in rows[x], r.section = "installations"
      PROVE  \E n \in rows'[x] : n.section = "installations" /\ n.id = r.id /\ Later(r, n)
  <2>1. CASE r \in rows'[x]
    BY <1>4, <2>1 DEF Later
  <2>2. CASE r \notin rows'[x]
    <3>1. x = d /\ r \notin kept
      BY <1>1, <2>2
    <3>2. PICK n \in new : n.section = r.section /\ n.id = r.id
      BY <3>1
    <3> QED
      BY <1>1, <1>4, <3>1, <3>2 DEF Fits
  <2> QED
    BY <2>1, <2>2
<1> QED
  BY <1>1, <1>3, <1>4 DEF RowsInv, RowsGrow

LEMMA FreshIds ==
  ASSUME NEW d, NEW section, NEW id \in freshIds(d, section)
  PROVE  id \in Nat /\ \A r \in rows[d] : r.section = section => r.id # id
BY PageAssumption DEF freshIds

(***************************************************************************)
(* A changed installation and its audit event.                             *)
(***************************************************************************)
LEMMA WrittenFits ==
  ASSUME NEW d, freshIds(d, "auditEvents") # {}, clock \in Nat,
         NEW row, SoundRow(row), row.section = "installations",
         \A r \in rows[d] : r.section = "installations" /\ r.id = row.id => Later(r, row),
         NEW action
  PROVE  Fits(d, Written(d, row, action).new)
<1> DEFINE event == auditEvent(d, row, action)
<1>1. PICK id : id = CHOOSE n \in freshIds(d, "auditEvents") : TRUE
  OBVIOUS
<1>2. id \in freshIds(d, "auditEvents")
  BY <1>1
<1>3. id \in Nat
  BY <1>2, FreshIds
<1>4. event = [row EXCEPT !.section = "auditEvents", !.state = action, !.at = clock, !.of = row.id, !.id = id]
  BY <1>1 DEF auditEvent
<1>5. SoundRow(event) /\ event.section = "auditEvents"
  BY <1>3, <1>4 DEF SoundRow, RowFields
<1>6. Written(d, row, action).new = {row, event}
  BY DEF Written
<1> HIDE DEF event
<1>7. IsFiniteSet({row, event})
  <2>1. IsFiniteSet({row} \cup {event})
    BY FS_Singleton, FS_AddElement
  <2>2. {row, event} = {row} \cup {event}
    OBVIOUS
  <2> QED
    BY <2>1, <2>2
<1> QED
  BY <1>5, <1>6, <1>7 DEF Fits

LEMMA NothingFits == \A d : Fits(d, {})
BY FS_EmptySet DEF Fits

LEMMA OneFits ==
  ASSUME NEW d, NEW row, SoundRow(row),
         row.section = "installations" =>
            \A r \in rows[d] : r.section = "installations" /\ r.id = row.id => Later(r, row)
  PROVE  Fits(d, {row})
<1>1. IsFiniteSet({row})
  BY FS_Singleton
<1> QED
  BY <1>1 DEF Fits

(***************************************************************************)
(* The installation a command or a rollback finds is the one of its id.    *)
(***************************************************************************)
LEMMA NextRevision ==
  ASSUME NEW d, SoundTable(rows[d]), NEW before \in rows[d], NEW row, before.section = "installations",
         DOMAIN row = RowFields, row.section = "installations", row.id = before.id, row.at = before.at,
         row.revision = before.revision + 1
  PROVE  SoundRow(row) /\ \A r \in rows[d] : r.section = "installations" /\ r.id = row.id => Later(r, row)
<1>1. before.id \in Nat /\ before.at \in Nat /\ before.revision \in Nat
  BY DEF SoundTable, SoundRow
<1>2. SoundRow(row)
  BY <1>1 DEF SoundRow
<1>3. ASSUME NEW r \in rows[d], r.section = "installations", r.id = row.id
      PROVE  Later(r, row)
  <2>1. r = before
    BY <1>3 DEF SoundTable
  <2> QED
    BY <1>1, <2>1 DEF Later
<1> QED
  BY <1>2, <1>3

LEMMA CommandFits ==
  ASSUME NEW d, SoundTable(rows[d]), clock \in Nat, NEW who, NEW c,
         NEW result, result = updateInstallation(d, who, c), result.outcome = "done"
  PROVE  /\ freshIds(d, "auditEvents") # {} => Fits(d, result.new)
         /\ result.row.section = "installations" /\ SoundRow(result.row)
         /\ result.new = {} => result.row \in rows[d]
         /\ result.new # {} => result.row \in result.new
<1> DEFINE found == {r \in readInstallations(d, who) : r.id = c.id}
           before == CHOOSE r \in found : TRUE
           after == [before EXCEPT !.state = IF c.state = None THEN @ ELSE c.state,
                                   !.priority = IF c.priority = None THEN @ ELSE c.priority]
           next == [after EXCEPT !.revision = @ + 1]
<1>1. \A outcome : Refused(outcome).outcome = outcome
  BY DEF Refused
<1>2. found # {} /\ before \in found
  BY <1>1 DEF updateInstallation
<1>3. before \in rows[d] /\ before.section = "installations"
  BY <1>2 DEF readInstallations, ownRows, rowsOf
<1>4. SoundRow(before)
  BY <1>3 DEF SoundTable
<1>5. \/ result = [outcome |-> "done", row |-> before, new |-> {}]
      \/ result = Written(d, next, "command")
  BY <1>1, <1>2 DEF updateInstallation
<1>6. /\ DOMAIN next = RowFields /\ next.section = "installations" /\ next.id = before.id
      /\ next.at = before.at /\ next.revision = before.revision + 1
  BY <1>3, <1>4 DEF SoundRow, RowFields
<1> HIDE DEF before, next
<1>7. /\ SoundRow(next)
      /\ \A r \in rows[d] : r.section = "installations" /\ r.id = next.id => Later(r, next)
  BY <1>3, <1>6, NextRevision
<1>8. freshIds(d, "auditEvents") # {} => Fits(d, Written(d, next, "command").new)
  BY <1>6, <1>7, WrittenFits
<1>9. Written(d, next, "command").row = next /\ next \in Written(d, next, "command").new
  BY DEF Written
<1>10. CASE result = [outcome |-> "done", row |-> before, new |-> {}]
  BY <1>3, <1>4, <1>10, NothingFits
<1>11. CASE result = Written(d, next, "command")
  BY <1>6, <1>7, <1>8, <1>9, <1>11
<1> QED
  BY <1>5, <1>10, <1>11

LEMMA RollbackFits ==
  ASSUME NEW d, SoundTable(rows[d]), freshIds(d, "auditEvents") # {}, clock \in Nat, NEW who, NEW c,
         NEW result, result = rollback(d, who, c), result.outcome = "done"
  PROVE  Fits(d, result.new)
<1> DEFINE found == {r \in readInstallations(d, who) : r.id = c.id /\ Versions[c.version].plugin = r.plugin}
           current == CHOOSE r \in found : TRUE
           next == [current EXCEPT !.version = c.version, !.revision = @ + 1]
<1>1. \A outcome : Refused(outcome).outcome = outcome
  BY DEF Refused
<1>2. found # {} /\ current \in found
  BY <1>1 DEF rollback
<1>3. current \in rows[d] /\ current.section = "installations"
  BY <1>2 DEF readInstallations, ownRows, rowsOf
<1>4. SoundRow(current)
  BY <1>3 DEF SoundTable
<1>5. result = Written(d, next, "rollback")
  BY <1>1, <1>2 DEF rollback
<1>6. /\ DOMAIN next = RowFields /\ next.section = "installations" /\ next.id = current.id
      /\ next.at = current.at /\ next.revision = current.revision + 1
  BY <1>3, <1>4 DEF SoundRow, RowFields
<1> HIDE DEF current, next
<1>7. /\ SoundRow(next)
      /\ \A r \in rows[d] : r.section = "installations" /\ r.id = next.id => Later(r, next)
  BY <1>3, <1>6, NextRevision
<1> QED
  BY <1>5, <1>6, <1>7, WrittenFits

LEMMA NewRow ==
  ASSUME NEW section, NEW id \in Nat, NEW tenant, NEW version, NEW state, clock \in Nat,
         section # "pluginVersions"
  PROVE  LET row == Row(section, id, tenant, version, state) IN
         SoundRow(row) /\ row.section = section /\ row.id = id
BY DEF Row, SoundRow, RowFields

LEMMA NewProposal ==
  ASSUME NEW section, NEW id \in Nat, NEW who, NEW c, NEW state, clock \in Nat, section # "pluginVersions"
  PROVE  LET row == proposedRow(section, id, who, c, state) IN
         SoundRow(row) /\ row.section = section /\ row.id = id
BY DEF Row, proposedRow, SoundRow, RowFields

LEMMA RequestFits ==
  ASSUME NEW d, clock \in Nat, NEW id \in Nat, NEW who, NEW c,
         NEW result, result = requestInstallation(id, who, c), result.outcome = "done"
  PROVE  Fits(d, result.new)
<1>1. \A outcome : Refused(outcome).outcome = outcome /\ Refused(outcome).new = {}
  BY DEF Refused
<1> DEFINE approval == proposedRow("approvals", id, who, c, "pending")
<1>2. SoundRow(approval) /\ approval.section = "approvals"
  BY NewProposal
<1> HIDE DEF approval
<1>3. Fits(d, {approval})
  BY <1>2, OneFits
<1> QED
  BY <1>1, <1>3, NothingFits DEF requestInstallation, approval

LEMMA InstallFits ==
  ASSUME NEW d, freshIds(d, "auditEvents") # {}, clock \in Nat, NEW id \in freshIds(d, "installations"),
         NEW who, NEW c, NEW state
  PROVE  Fits(d, Written(d, proposedRow("installations", id, who, c, state), "install").new)
<1>1. id \in Nat /\ \A r \in rows[d] : r.section = "installations" => r.id # id
  BY FreshIds
<1> DEFINE installation == proposedRow("installations", id, who, c, state)
<1>2. SoundRow(installation) /\ installation.section = "installations" /\ installation.id = id
  BY <1>1, NewProposal
<1> HIDE DEF installation
<1>3. Fits(d, Written(d, installation, "install").new)
  BY <1>1, <1>2, WrittenFits
<1> QED
  BY <1>3 DEF installation

LEMMA DecisionFits ==
  ASSUME NEW d, SoundTable(rows[d]), freshIds(d, "auditEvents") # {}, clock \in Nat,
         NEW id \in freshIds(d, "installations"), NEW who, NEW c,
         NEW result, result = decide(d, id, who, c), result.outcome = "done"
  PROVE  Fits(d, result.new)
<1> DEFINE found == {r \in readApprovals(d, who) : r.id = c.id}
           approval == CHOOSE r \in found : TRUE
           decided == [approval EXCEPT !.state = c.decision]
           installation == [approval EXCEPT !.section = "installations", !.id = id, !.at = clock,
                                            !.state = "enabled", !.of = id]
           more == Written(d, installation, "install.approved").new
<1>1. \A outcome : Refused(outcome).outcome = outcome
  BY DEF Refused
<1>2. found # {} /\ approval \in found
  BY <1>1 DEF decide
<1>3. approval \in rows[d] /\ approval.section = "approvals"
  BY <1>2 DEF readApprovals, ownRows, rowsOf
<1>4. SoundRow(approval)
  BY <1>3 DEF SoundTable
<1>5. result.new = {decided} \cup IF c.decision = "approved" THEN more ELSE {}
  BY <1>1, <1>2 DEF decide
<1>6. id \in Nat /\ \A r \in rows[d] : r.section = "installations" => r.id # id
  BY FreshIds
<1>7. SoundRow(decided) /\ decided.section = "approvals"
  BY <1>3, <1>4 DEF SoundRow, RowFields
<1>8. SoundRow(installation) /\ installation.section = "installations" /\ installation.id = id
  BY <1>4, <1>6 DEF SoundRow, RowFields
<1> HIDE DEF approval, decided, installation
<1>9. Fits(d, more)
  BY <1>6, <1>8, WrittenFits
<1>10. \A r \in more : r.section \in {"installations", "auditEvents"}
  <2>1. auditEvent(d, installation, "install.approved").section = "auditEvents"
    BY <1>8 DEF auditEvent, SoundRow, RowFields
  <2> QED
    BY <1>8, <2>1 DEF Written
<1> HIDE DEF more
<1>11. Fits(d, {decided})
  BY <1>7, OneFits
<1>12. Fits(d, {decided} \cup more)
  <2>1. IsFiniteSet({decided} \cup more)
    BY <1>9, <1>11, FS_Union DEF Fits
  <2> QED
    BY <1>7, <1>9, <1>10, <1>11, <2>1 DEF Fits
<1> QED
  BY <1>5, <1>11, <1>12

(***************************************************************************)
(* A handler that asks for its database works on that of its caller's app. *)
(***************************************************************************)
LEMMA WorksThere ==
  ASSUME RequestShape, AuthInv, RowsInv, NEW c \in Slots, NEW r, r = requests[c],
         r.phase \in AdmittedPhases, handlerOf(r).service = "database"
  PROVE  /\ r.database = home(r.who.app) /\ r.database \in DOMAIN rows
         /\ BelongsTo(r.credential, r.who.app)
<1>1. CallerInv(r)
  BY DEF AuthInv
<1>2. PICK e : e = effectOf(r)
  OBVIOUS
<1>3. MayChange(e) /\ r.database # None
  BY <1>1, <1>2 DEF CallerInv
<1>4. e.database = r.database /\ e.app = r.who.app /\ e.credential = r.credential
  BY <1>2 DEF effectOf
<1>5. r.database = home(r.who.app)
  BY <1>3, <1>4 DEF MayChange
<1>6. BelongsTo(r.credential, r.who.app)
  BY <1>3, <1>4 DEF MayChange, holderMay, BelongsTo
<1> QED
  BY <1>3, <1>5, <1>6, HomeIsThere DEF RowsInv

LEMMA ChangeGrows ==
  ASSUME RowsInv, UNCHANGED scenario, NEW c \in Slots, NEW result, requests[c].database \in DOMAIN rows,
         change(c, result),
         freshIds(requests[c].database, "auditEvents") # {} => Fits(requests[c].database, result.new)
  PROVE  RowsInv' /\ RowsGrow
BY WriteKeeps DEF change

LEMMA ServeGrows ==
  ASSUME RequestShape, AuthInv, RowsInv, NEW c \in Slots, Serve(c), UNCHANGED scenario
  PROVE  RowsInv' /\ RowsGrow
<1>1. CASE UNCHANGED rows
  BY <1>1, RowsKept
<1>2. clock \in Nat /\ \A d \in DOMAIN rows : SoundTable(rows[d])
  BY DEF AuthInv, RowsInv
<1> PICK r : r = requests[c]
  OBVIOUS
<1>3. ASSUME r.phase \in {"working", "writing"},
             r.route \in {"installationCommand", "approvalDecisionCreate", "rollbackCreate", "installCreate",
                          "installRequestCreate"}
      PROVE  r.database \in DOMAIN rows
  <2>1. handlerOf(r).service = "database"
    BY <1>3 DEF handlerOf, runInstall, runInstallRequest, runRollback, runInstallationCommand,
       runApprovalDecision, Change, Handler
  <2>2. r.phase \in AdmittedPhases
    BY <1>3 DEF AdmittedPhases, Working, Installing
  <2> QED
    BY <2>1, <2>2, WorksThere
<1>4. CASE installationCommandStore_updateInstallation(c)
  <2> DEFINE result == updateInstallation(r.database, r.who, r.command)
  <2>1. r.phase = "working" /\ r.route = "installationCommand" /\ unkeyed(c, result, "conflict")
    BY <1>4 DEF installationCommandStore_updateInstallation, working, at
  <2>2. freshIds(r.database, "auditEvents") # {} /\ result.outcome = "done" => Fits(r.database, result.new)
    BY <1>2, <1>3, <2>1, CommandFits
  <2> HIDE DEF result
  <2> QED
    BY <1>1, <1>3, <2>1, <2>2, ChangeGrows DEF unkeyed, unchanged
<1>5. CASE approvalDecisionStore_decide(c)
  <2>1. PICK id \in freshIds(r.database, "installations") :
           unkeyed(c, decide(r.database, id, r.who, r.command), "approval_already_decided")
    BY <1>5 DEF approvalDecisionStore_decide
  <2> DEFINE result == decide(r.database, id, r.who, r.command)
  <2>2. r.phase = "working" /\ r.route = "approvalDecisionCreate"
    BY <1>5 DEF approvalDecisionStore_decide, working, at
  <2>3. freshIds(r.database, "auditEvents") # {} /\ result.outcome = "done" => Fits(r.database, result.new)
    BY <1>2, <1>3, <2>1, <2>2, DecisionFits
  <2> HIDE DEF result
  <2> QED
    BY <1>1, <1>3, <2>1, <2>2, <2>3, ChangeGrows DEF unkeyed, unchanged, result
<1>6. CASE rollbackStore_rollback(c)
  <2> DEFINE result == rollback(r.database, r.who, r.command)
  <2>1. r.phase = "working" /\ r.route = "rollbackCreate" /\ keyedChange(c, "rollback", 200, result)
    BY <1>6 DEF rollbackStore_rollback, working, at
  <2>2. freshIds(r.database, "auditEvents") # {} /\ result.outcome = "done" => Fits(r.database, result.new)
    BY <1>2, <1>3, <2>1, RollbackFits
  <2> HIDE DEF result
  <2> QED
    BY <1>1, <1>3, <2>1, <2>2, ChangeGrows DEF keyedChange, unchanged
<1>7. CASE installRequestStore_requestInstallation(c)
  <2>1. PICK id \in freshIds(r.database, "approvals") :
           keyedChange(c, "request", 201, requestInstallation(id, r.who, r.command))
    BY <1>7 DEF installRequestStore_requestInstallation
  <2> DEFINE result == requestInstallation(id, r.who, r.command)
  <2>2. r.phase = "working" /\ r.route = "installRequestCreate"
    BY <1>7 DEF installRequestStore_requestInstallation, working, at
  <2>3. id \in Nat
    BY <2>1, FreshIds
  <2>4. result.outcome = "done" => Fits(r.database, result.new)
    BY <1>2, <2>3, RequestFits
  <2> HIDE DEF result
  <2> QED
    BY <1>1, <1>3, <2>1, <2>2, <2>4, ChangeGrows DEF keyedChange, unchanged, result
<1>8. CASE install_Write(c)
  <2>1. r.phase = "writing" /\ r.route = "installCreate"
    BY <1>8 DEF install_Write, at, RequestShape, SlotInv, Installing
  <2>2. CASE unchanged
    BY <1>1, <2>2 DEF unchanged
  <2>3. ASSUME NEW id \in freshIds(r.database, "installations"), installBatch(c, id)
        PROVE  RowsInv' /\ RowsGrow
    <3> DEFINE state == IF r.command.enabled THEN "enabled" ELSE "disabled"
               result == Written(r.database, proposedRow("installations", id, r.who, r.command, state), "install")
    <3>1. change(c, result)
      BY <2>3 DEF installBatch
    <3>2. freshIds(r.database, "auditEvents") # {} => Fits(r.database, result.new)
      BY <1>2, InstallFits
    <3> HIDE DEF result
    <3> QED
      BY <1>3, <2>1, <3>1, <3>2, ChangeGrows
  <2> QED
    BY <1>8, <2>2, <2>3 DEF install_Write
<1>9. CASE \/ install(c) \/ install_Propose(c) \/ install_Recover(c)
           \/ serviceTokenManager_issue(c) \/ serviceTokenManager_revoke(c) \/ revoke_Update(c)
           \/ slackOAuthInstallStartService_start(c)
  <2>1. UNCHANGED rows
    BY <1>9 DEF install, install_Propose, install_Recover, serviceTokenManager_issue,
       serviceTokenManager_revoke, revoke_Update, slackOAuthInstallStartService_start, unchanged, stores
  <2> QED
    BY <1>1, <2>1
<1>10. CASE Changing(c)
  BY <1>4, <1>5, <1>6, <1>7, <1>8, <1>9, <1>10 DEF Changing
<1> QED
  BY <1>1, <1>10, FetchStep, RouteStep, HandleStep, AdmitStep, ReserveStep, ReadStep
     DEF Serve, untouched, reads

LEMMA RecordGrows ==
  ASSUME RowsInv, clock \in Nat, RecordExecution
  PROVE  RowsInv' /\ RowsGrow
<1> DEFINE d == scenario.database
<1>1. d \in DOMAIN rows
  BY ScenarioAssumption DEF RowsInv
<1>2. UNCHANGED scenario
  BY DEF RecordExecution, elsewhere, console
<1>3. PICK id \in freshIds(d, "executions") :
          rows' = [rows EXCEPT ![d] = @ \cup {Row("executions", id, scenario.tenant, scenario.version, "timeout")}]
  BY DEF RecordExecution
<1>4. id \in Nat /\ \A r \in rows[d] : r.section = "executions" => r.id # id
  BY <1>3, FreshIds
<1> DEFINE row == Row("executions", id, scenario.tenant, scenario.version, "timeout")
<1>5. SoundRow(row) /\ row.section = "executions" /\ row.id = id
  BY <1>4, NewRow
<1> HIDE DEF row
<1>6. Fits(d, {row})
  BY <1>5, OneFits
<1>7. write(d, {row})
  <2>1. rows[d] = {r \in rows[d] : \A n \in {row} : n.section # r.section \/ n.id # r.id}
    BY <1>4, <1>5
  <2> QED
    BY <1>3, <2>1 DEF write, row
<1> QED
  BY <1>1, <1>2, <1>6, <1>7, WriteKeeps

LEMMA OthersGrow ==
  ASSUME RowsInv, OtherAdministrator
  PROVE  RowsInv' /\ RowsGrow
<1> DEFINE d == scenario.database
<1>1. d \in DOMAIN rows
  BY ScenarioAssumption DEF RowsInv
<1>2. UNCHANGED scenario
  BY DEF OtherAdministrator, elsewhere, console
<1>3. PICK before, version :
          /\ before \in rowsOf(d, "installations")
          /\ write(d, {[before EXCEPT !.version = version, !.revision = @ + 1,
                                      !.priority = IF version = before.version THEN @ + 1 ELSE @]})
  BY DEF OtherAdministrator
<1> DEFINE row == [before EXCEPT !.version = version, !.revision = @ + 1,
                                 !.priority = IF version = before.version THEN @ + 1 ELSE @]
<1>4. before \in rows[d] /\ before.section = "installations" /\ SoundTable(rows[d])
  BY <1>1, <1>3 DEF rowsOf, RowsInv
<1>5. SoundRow(before)
  BY <1>4 DEF SoundTable
<1>6. /\ DOMAIN row = RowFields /\ row.section = "installations" /\ row.id = before.id
      /\ row.at = before.at /\ row.revision = before.revision + 1
  BY <1>4, <1>5 DEF SoundRow, RowFields
<1>7. write(d, {row})
  BY <1>3
<1> HIDE DEF row
<1>8. Fits(d, {row})
  BY <1>4, <1>6, NextRevision, OneFits
<1> QED
  BY <1>1, <1>2, <1>7, <1>8, WriteKeeps

LEMMA NextGrows ==
  ASSUME RequestShape, AuthInv, RowsInv, [Next]_vars
  PROVE  RowsInv' /\ RowsGrow
<1>1. ASSUME UNCHANGED <<scenario, rows>>
      PROVE  RowsInv' /\ RowsGrow
  BY <1>1, RowsKept
<1>2. CASE \E c \in Slots : Serve(c) /\ UNCHANGED console
  BY <1>2, ServeGrows DEF console
<1>3. CASE ClientStep /\ quiet
  BY <1>1, <1>3 DEF quiet
<1>4. CASE Tick \/ UNCHANGED vars
  BY <1>1, <1>4 DEF Tick, vars, stores, console
<1> QED
  BY <1>2, <1>3, <1>4, StepKinds, RecordGrows, OthersGrow DEF AuthInv

LEMMA RowsAreSound == Spec => []RowsInv
<1>1. Init => RowsInv
  BY ScenarioAssumption DEF Init, RowsInv
<1>2. RequestShape /\ AuthInv /\ RowsInv /\ [Next]_vars => RowsInv'
  BY NextGrows
<1> QED
  BY <1>1, <1>2, RequestsAreShaped, AuthIsKept, PTL DEF Spec

(***************************************************************************)
(* A row that was shown is the one the table has, or an earlier revision   *)
(* of it.                                                                  *)
(***************************************************************************)
Seen(d, s) ==
    /\ {"id", "state", "priority", "revision"} \subseteq DOMAIN s
    /\ s.revision \in Nat /\ d \in DOMAIN rows
    /\ \E r \in rows[d] : /\ r.section = "installations" /\ r.id = s.id /\ s.revision <= r.revision
                          /\ s.revision = r.revision => s.state = r.state /\ s.priority = r.priority

LEMMA SeenStays ==
  ASSUME RowsInv, RowsInv', RowsGrow, NEW d, NEW s, Seen(d, s)
  PROVE  Seen(d, s)'
<1>1. PICK r \in rows[d] : /\ r.section = "installations" /\ r.id = s.id /\ s.revision <= r.revision
                           /\ s.revision = r.revision => s.state = r.state /\ s.priority = r.priority
  BY DEF Seen
<1>2. d \in DOMAIN rows /\ d \in DOMAIN rows' /\ s.revision \in Nat
  BY DEF Seen, RowsGrow
<1>3. PICK n \in rows'[d] : n.section = "installations" /\ n.id = r.id /\ Later(r, n)
  BY <1>1, <1>2 DEF RowsGrow
<1>4. r.revision \in Nat /\ n.revision \in Nat
  BY <1>2 DEF RowsInv, SoundTable, SoundRow
<1>5. s.revision <= n.revision /\ (s.revision = n.revision => s.state = n.state /\ s.priority = n.priority)
  BY <1>1, <1>2, <1>3, <1>4 DEF Later
<1> QED
  BY <1>1, <1>2, <1>3, <1>5 DEF Seen

LEMMA RowIsSeen ==
  ASSUME RowsInv, NEW d \in DOMAIN rows, NEW r \in rows[d], r.section = "installations"
  PROVE  Seen(d, r)
<1>1. SoundRow(r)
  BY DEF RowsInv, SoundTable
<1> QED
  BY <1>1 DEF SoundRow, RowFields, Seen

-----------------------------------------------------------------------------
(* Answers.                                                                 *)

(***************************************************************************)
(* What a caller may be given of a section.                                *)
(***************************************************************************)
IsCallers(section, who, row) == IF section = "pluginVersions" THEN row.app = who.app ELSE row.tenant = who.tenant

LEMMA Selected ==
  ASSUME RowsInv, NEW d \in DOMAIN rows, NEW who, NEW section \in Sections, NEW filters
  PROVE  /\ selected(d, who, section, filters) \in SUBSET rowsOf(d, section)
         /\ \A r \in selected(d, who, section, filters) : IsCallers(section, who, r)
<1>1. \A r \in rows[d] : SoundRow(r)
  BY DEF RowsInv, SoundTable
<1>2. CASE section = "installations"
  BY <1>2 DEF selected, readInstallations, ownRows, IsCallers
<1>3. CASE section = "pluginVersions"
  BY <1>1, <1>3 DEF selected, readPluginVersions, rowsOf, SoundRow, IsCallers
<1>4. CASE section = "approvals"
  BY <1>4 DEF selected, readApprovals, ownRows, IsCallers
<1>5. CASE section = "executions"
  BY <1>5 DEF selected, readExecutions, ownRows, IsCallers
<1>6. CASE section = "auditEvents"
  BY <1>6 DEF selected, readAuditEvents, ownRows, IsCallers
<1> QED
  BY <1>2, <1>3, <1>4, <1>5, <1>6 DEF Sections

(***************************************************************************)
(* A page holds rows of its section that are the caller's.                 *)
(***************************************************************************)
LEMMA SectionRows ==
  ASSUME RowsInv, NEW d \in DOMAIN rows, NEW who, NEW section \in Sections, NEW filters,
         NEW limit \in Nat, NEW position
  PROVE  readSection(d, who, section, limit, position, filters).items
           \in Seq({r \in rowsOf(d, section) : IsCallers(section, who, r)})
<1> DEFINE found == {r \in selected(d, who, section, filters) : beyond(position, r)}
           mine == {r \in rowsOf(d, section) : IsCallers(section, who, r)}
<1>1. found \in SUBSET mine
  BY Selected
<1>2. SoundTable(rows[d]) /\ mine \in SUBSET rows[d] /\ \A r \in mine : r.section = section
  BY DEF RowsInv, rowsOf
<1> HIDE DEF mine
<1>3. Listed(found)
  <2>1. IsFiniteSet(found)
    BY <1>1, <1>2, FS_Subset DEF SoundTable
  <2> QED
    BY <1>1, <1>2, <2>1 DEF Listed, SoundTable
<1> HIDE DEF found
<1>4. keysetPage(inOrder(found), limit).items \in Seq(found)
  BY <1>3, InOrder, PageHolds
<1>5. Seq(found) \subseteq Seq(mine)
  BY <1>1
<1> QED
  BY <1>4, <1>5 DEF readSection, found, mine

(***************************************************************************)
(* Rows that a credential's holder was shown of the app's database.        *)
(***************************************************************************)
RowKnown(credential, s) == \E app : BelongsTo(credential, app) /\ Seen(home(app), s)

ListKnown(credential, list) == \E known : list \in Seq(known) /\ \A s \in known : RowKnown(credential, s)

LEMMA PageKnown ==
  ASSUME RowsInv, NEW credential, NEW app, BelongsTo(credential, app), home(app) \in DOMAIN rows,
         NEW who, NEW filters, NEW limit \in Nat, NEW position
  PROVE  ListKnown(credential, readSection(home(app), who, "installations", limit, position, filters).items)
<1> DEFINE d == home(app)
           mine == {r \in rowsOf(d, "installations") : IsCallers("installations", who, r)}
<1>1. readSection(d, who, "installations", limit, position, filters).items \in Seq(mine)
  BY SectionRows DEF Sections
<1>2. ASSUME NEW s \in mine
      PROVE  RowKnown(credential, s)
  <2>1. s \in rows[d] /\ s.section = "installations"
    BY DEF rowsOf
  <2>2. Seen(d, s)
    BY <2>1, RowIsSeen
  <2> QED
    BY <2>2 DEF RowKnown
<1> QED
  BY <1>1, <1>2 DEF ListKnown

LEMMA KnownStays ==
  ASSUME RowsInv, RowsInv', RowsGrow, TokensGrow, UNCHANGED deployment, NEW credential
  PROVE  /\ \A s : RowKnown(credential, s) => RowKnown(credential, s)'
         /\ \A list : ListKnown(credential, list) => ListKnown(credential, list)'
<1>1. ASSUME NEW s, RowKnown(credential, s)
      PROVE  RowKnown(credential, s)'
  <2>1. PICK app : BelongsTo(credential, app) /\ Seen(home(app), s)
    BY <1>1 DEF RowKnown
  <2>2. home(app)' = home(app)
    BY DEF home, homeOf
  <2>3. PICK d : d = home(app)
    OBVIOUS
  <2>4. Seen(d, s)'
    BY <2>1, <2>3, SeenStays
  <2>5. BelongsTo(credential, app)'
    BY <2>1, BelongsStill
  <2> QED
    BY <2>2, <2>3, <2>4, <2>5 DEF RowKnown
<1> QED
  BY <1>1 DEF ListKnown

(***************************************************************************)
(* What an answer of the Worker promises. The row of a command is the one  *)
(* the store has after it.                                                 *)
(***************************************************************************)
Honest(r, answer) ==
    /\ ok(answer) /\ r.method # "OPTIONS" =>
         /\ r.route = "dashboard" =>
              r.phase \in AdmittedPhases /\ r.step = {} /\ answer.value.sections = r.pages
         /\ r.route = "installations" => ListKnown(r.credential, answer.value.items)
         /\ r.route = "installationCommand" => RowKnown(r.credential, answer.value)'
    /\ answer.status = 200 /\ r.route \in Sections =>
         \A i \in DOMAIN answer.value.items : IsCallers(r.route, r.who, answer.value.items[i])

Replies(c, r) == \E answer : Respond(c, answer) /\ Honest(r, answer)

PageThere(credential, pages) ==
    "installations" \in DOMAIN pages /\ ListKnown(credential, pages["installations"].items)

(***************************************************************************)
(* The request goes on; a dashboard has the page of the installations, is  *)
(* given it, or has it to come.                                            *)
(***************************************************************************)
Continues(r, s) ==
    /\ SameForm(r, s) /\ s.phase \in Busy
    /\ s.phase \in AdmittedPhases /\ s.route = "dashboard" =>
         \/ "installations" \in s.step
         \/ /\ r.phase \in AdmittedPhases /\ "installations" \notin r.step
            /\ PageThere(r.credential, r.pages) => PageThere(r.credential, s.pages)
         \/ PageThere(r.credential, s.pages)

LEMMA RefusalIsHonest ==
  ASSUME NEW r, NEW answer, answer.status \notin {200, 201, 204}
  PROVE  Honest(r, answer)
BY DEF Honest, ok

LEMMA SilentIsHonest ==
  ASSUME NEW r, r.route \notin Sections \cup {"dashboard", "installationCommand"}, NEW answer
  PROVE  Honest(r, answer)
BY DEF Honest, Sections

LEMMA FailIsHonest ==
  ASSUME NEW c, NEW r
  PROVE  /\ \A status, code : Fail(c, status, code) /\ status \notin {200, 201, 204} => Replies(c, r)
         /\ internalError(c) \/ unavailable(c) => Replies(c, r)
         /\ \A outcome : refuse(c, outcome) => Replies(c, r)
<1>1. ASSUME NEW status, NEW code, Fail(c, status, code), status \notin {200, 201, 204}
      PROVE  Replies(c, r)
  <2>1. PICK answer : answer = Answer(status, code, None)
    OBVIOUS
  <2>2. Respond(c, answer) /\ answer.status = status
    BY <1>1, <2>1 DEF Fail, Answer
  <2> QED
    BY <1>1, <2>2, RefusalIsHonest DEF Replies
<1>2. \A outcome : refusalStatus(outcome) \notin {200, 201, 204}
  BY DEF refusalStatus
<1> QED
  BY <1>1, <1>2 DEF internalError, unavailable, refuse

LEMMA EarlyAnswers ==
  ASSUME RequestShape, NEW c \in Slots, NEW r, r = requests[c],
         Fetch(c) \/ resolveRequestDatabase(c) \/ Handle(c)
  PROVE  Replies(c, r) \/ (OnlySlot(c) /\ Continues(r, requests'[c]))
<1>0. \A status, code : Fail(c, status, code) /\ status \notin {200, 201, 204} => Replies(c, r)
  BY FailIsHonest
<1>1. ASSUME OnlySlot(c), SameForm(r, requests'[c]), requests'[c].phase \in {"routing", "handling", "identifying"}
      PROVE  OnlySlot(c) /\ Continues(r, requests'[c])
  BY <1>1 DEF Continues, AdmittedPhases, Working, Installing, Busy, Phases
<1>2. ~IsOver(requests'[c]) => SameForm(r, requests'[c]) /\ requests'[c].phase \in {"routing", "handling", "identifying"}
  BY FetchStep, RouteStep, HandleStep DEF SameCaller
<1>3. OnlySlot(c)
  BY FetchStep, RouteStep, HandleStep
<1>4. ASSUME Advance(c, "handling") \/ Advance(c, "routing")
      PROVE  ~IsOver(requests'[c])
  <2>1. requests[c].phase \in Busy
    BY FetchStep, RouteStep, HandleStep DEF Busy, Phases
  <2>2. requests'[c].phase \in {"handling", "routing"}
    BY <1>4, <2>1, AdvanceMoves DEF Busy, Phases
  <2> QED
    BY <2>2 DEF IsOver, Idle
<1>5. ASSUME NEW d, requests' = [requests EXCEPT ![c].phase = "handling", ![c].database = d]
      PROVE  ~IsOver(requests'[c])
  <2>1. requests' = [requests EXCEPT ![c] = Relocated(r, "handling", d)]
    BY <1>5 DEF Relocated
  <2>2. requests'[c] = Relocated(r, "handling", d)
    BY <2>1, Moved
  <2>3. DOMAIN r = RequestFields
    BY PhaseTells, FetchStep, RouteStep, HandleStep DEF Busy, Phases
  <2>4. requests'[c].phase = "handling"
    BY <2>2, <2>3, Located
  <2> QED
    BY <2>4 DEF IsOver, Idle
<1>6. CASE Fetch(c)
  BY <1>0, <1>1, <1>2, <1>3, <1>4, <1>5, <1>6 DEF Fetch
<1>7. CASE resolveRequestDatabase(c)
  BY <1>0, <1>1, <1>2, <1>3, <1>4, <1>5, <1>7 DEF resolveRequestDatabase
<1>8. CASE Handle(c)
  <2>3. ASSUME requests' = [requests EXCEPT ![c].phase = "identifying",
                                            ![c].spent = isRevoked(requests[c].credential)]
        PROVE  ~IsOver(requests'[c])
    <3>1. requests' = [requests EXCEPT ![c] = Handed(r)]
      BY <2>3 DEF Handed
    <3>2. requests'[c] = Handed(r)
      BY <3>1, Moved
    <3>3. DOMAIN r = RequestFields
      BY <1>8, PhaseTells, HandleStep DEF Busy, Phases
    <3>4. requests'[c].phase = "identifying"
      BY <3>2, <3>3, HandedOn
    <3> QED
      BY <3>4 DEF IsOver, Idle
  <2>1. CASE Fail(c, 503, "admin_configuration_unavailable")
    BY <1>0, <2>1
  <2>2. ASSUME NEW refusal, refusal = createControlPlaneHttpHandler(r), refusal # NoRefusal, Respond(c, refusal)
        PROVE  Replies(c, r)
    <3>1. \A status, code, value : Answer(status, code, value).status = status
      BY DEF Answer
    <3>2. refusal.status \notin {200, 201, 204} \/ (r.method = "OPTIONS" /\ refusal.status = 204)
      BY <2>2, <3>1 DEF createControlPlaneHttpHandler
    <3>3. CASE r.method = "OPTIONS" /\ refusal.status = 204
      BY <3>3, <2>2 DEF Replies, Honest
    <3> QED
      BY <2>2, <3>2, <3>3, RefusalIsHonest DEF Replies
  <2> QED
    BY <1>1, <1>2, <1>3, <1>8, <2>1, <2>2, <2>3 DEF Handle
<1> QED
  BY <1>6, <1>7, <1>8

LEMMA AdmitAnswers ==
  ASSUME RequestShape, NEW c \in Slots, NEW r, r = requests[c], resolveAdminIdentity(c)
  PROVE  Replies(c, r) \/ (OnlySlot(c) /\ Continues(r, requests'[c]))
<1> DEFINE q == requests[c]
           handler == handlerOf(q)
           p == IF handler.family = None THEN "working" ELSE "reserving"
           t == IF q.route = "dashboard" THEN Sections \ {"auditEvents"} ELSE None
<1>0. \A status, code : Fail(c, status, code) /\ status \notin {200, 201, 204} => Replies(c, r)
  BY FailIsHonest
<1>1. PICK found \in identify(q.credential) :
          \/ found = Thrown /\ Fail(c, 500, "internal_error")
          \/ found = NotFound /\ Fail(c, 401, "unauthorized")
          \/ /\ found.kind = "identity"
             /\ IF ~isTenantScopedAdminIdentity(found.who) THEN Fail(c, 403, "admin_scope_forbidden")
                ELSE IF ~requireRbac(found.who, handler.operation) THEN Fail(c, 403, handler.forbidden)
                ELSE IF badRequest(q) # None THEN Fail(c, statusOf(badRequest(q)), badRequest(q))
                ELSE IF isDashboard(q) /\ dashboardRefusal(q, found.who) # None
                     THEN Respond(c, dashboardRefusal(q, found.who))
                ELSE IF q.route = "session" THEN Respond(c, Answer(200, None, found.who))
                ELSE requests' = [requests EXCEPT ![c].who = found.who, ![c].identified = clock, ![c].now = clock,
                                ![c].phase = p, ![c].step = t]
  BY DEF resolveAdminIdentity
<1>2. \A code : statusOf(code) \notin {200, 201, 204}
  BY DEF statusOf
<1>3. CASE isDashboard(r) /\ dashboardRefusal(r, found.who) # None /\ Respond(c, dashboardRefusal(r, found.who))
  <2>1. PICK answer : answer = dashboardRefusal(r, found.who)
    OBVIOUS
  <2>2. answer.status \in {503, 400}
    BY <1>3, <2>1 DEF dashboardRefusal, Answer
  <2> QED
    BY <1>3, <2>1, <2>2, RefusalIsHonest DEF Replies
<1>4. CASE r.route = "session" /\ Respond(c, Answer(200, None, found.who))
  BY <1>4, SilentIsHonest DEF Replies, Sections
<1>5. CASE requests' = [requests EXCEPT ![c].who = found.who, ![c].identified = clock, ![c].now = clock,
                                ![c].phase = p, ![c].step = t]
  <2> HIDE DEF p, t
  <2>1. requests' = [requests EXCEPT ![c] = Admission(r, found.who, p, t)]
    BY <1>5 DEF Admission
  <2>2. OnlySlot(c) /\ requests'[c] = Admission(r, found.who, p, t)
    BY <2>1, Moved
  <2>3. DOMAIN r = RequestFields
    BY PhaseTells, AdmitStep DEF Busy, Phases
  <2>4. SameForm(r, requests'[c]) /\ requests'[c].phase = p /\ requests'[c].step = t
    BY <2>2, <2>3, Admitted
  <2>5. p \in Busy /\ (requests'[c].route = "dashboard" => "installations" \in t)
    BY <2>4 DEF p, t, Busy, Phases, Sections, SameForm
  <2> QED
    BY <2>2, <2>4, <2>5 DEF Continues
<1> HIDE DEF p, t, handler
<1> QED
  BY <1>0, <1>1, <1>2, <1>3, <1>4, <1>5

LEMMA ReserveAnswers ==
  ASSUME RequestShape, NEW c \in Slots, NEW r, r = requests[c], reserveAdminMutation(c), AuthInv
  PROVE  Replies(c, r) \/ (OnlySlot(c) /\ Continues(r, requests'[c]))
<1>1. r.phase = "reserving" /\ OnlySlot(c)
  BY ReserveStep
<1>2. \/ unavailable(c)
      \/ \E code, after : Respond(c, Answer(429, code, after))
      \/ ~IsOver(requests'[c])
  <2>1. \/ unavailable(c)
        \/ \E code, after : Respond(c, Answer(429, code, after))
        \/ requests' = [requests EXCEPT ![c].phase = "working", ![c].now = clock,
                          ![c].start = evaluateFixedWindowReservation(windowOf(rateLimitBucketId(r.who, handlerOf(r).family)), r.now).record.start]
    BY DEF reserveAdminMutation
  <2>2. ASSUME NEW start, requests' = [requests EXCEPT ![c].phase = "working", ![c].now = clock, ![c].start = start]
        PROVE  ~IsOver(requests'[c])
    <3>1. requests' = [requests EXCEPT ![c] = Reserved(r, start)]
      BY <2>2 DEF Reserved
    <3>2. requests'[c] = Reserved(r, start)
      BY <3>1, Moved
    <3>3. DOMAIN r = RequestFields
      BY <1>1, PhaseTells DEF Busy, Phases
    <3>4. requests'[c].phase = "working"
      BY <3>2, <3>3, Counted
    <3> QED
      BY <3>4 DEF IsOver, Idle
  <2> QED
    BY <2>1, <2>2
<1>3. ASSUME NEW code, NEW after, Respond(c, Answer(429, code, after))
      PROVE  Replies(c, r)
  <2>1. PICK answer : answer = Answer(429, code, after)
    OBVIOUS
  <2>2. answer.status = 429
    BY <2>1 DEF Answer
  <2> QED
    BY <1>3, <2>1, <2>2, RefusalIsHonest DEF Replies
<1>4. CASE ~IsOver(requests'[c])
  <2>1. SameForm(r, requests'[c]) /\ requests'[c].phase = "working" /\ requests'[c].step = r.step /\ requests'[c].pages = r.pages
    BY <1>4, ReserveStep
  <2>2. r.phase \in AdmittedPhases /\ "working" \in Busy
    BY <1>1 DEF AdmittedPhases, Busy, Phases
  <2> QED
    BY <1>1, <2>1, <2>2 DEF Continues
<1> QED
  BY <1>1, <1>2, <1>3, <1>4, FailIsHonest

LEMMA SectionAnswers ==
  ASSUME RequestShape, NEW c \in Slots, NEW r, r = requests[c], AuthInv, RowsInv, RowsInv', RowsGrow,
         ReadSection(c)
  PROVE  Replies(c, r)
<1>1. r.phase = "working" /\ r.route \in Sections /\ r.phase \in AdmittedPhases
  BY DEF ReadSection, at, AdmittedPhases, Working, Installing
<1>2. handlerOf(r).service = "database"
  BY <1>1 DEF handlerOf, Sections, resolveDashboard, Handler
<1>3. /\ r.database = home(r.who.app) /\ r.database \in DOMAIN rows
      /\ BelongsTo(r.credential, r.who.app)
  BY <1>1, <1>2, WorksThere
<1>4. dashboardLimit(r.query.limit) \in Nat
  <2>1. LimitIsValid(r)
    BY <1>1 DEF AuthInv, CallerInv
  <2>2. r.query.limit = None \/ r.query.limit \in Nat \ {0}
    BY <1>1, <2>1 DEF LimitIsValid, isDashboard, validLimit
  <2> QED
    BY <2>2, PageAssumption DEF dashboardLimit
<1> DEFINE filters == IF r.route = "executions" THEN r.query.filters ELSE NoFilters
           position == IF r.query.cursor = None THEN None ELSE r.query.cursor.position
           page == readSection(r.database, r.who, r.route, dashboardLimit(r.query.limit), position, filters)
           mine == {x \in rowsOf(r.database, r.route) : IsCallers(r.route, r.who, x)}
<1>5. page.items \in Seq(mine)
  BY <1>1, <1>3, <1>4, SectionRows
<1>6. \A i \in DOMAIN page.items : IsCallers(r.route, r.who, page.items[i])
  BY <1>5
<1>7. r.route = "installations" => ListKnown(r.credential, page.items)
  BY <1>3, <1>4, PageKnown
<1>8. internalError(c) \/ Respond(c, Answer(200, None, serializeSectionPage(page, r.who, r.route, executionFilterQuery(filters))))
  BY DEF ReadSection
<1> HIDE DEF page, filters
<1>9. ASSUME NEW answer, answer = Answer(200, None, serializeSectionPage(page, r.who, r.route, executionFilterQuery(filters)))
      PROVE  Honest(r, answer)
  <2>1. answer.value.items = page.items
    BY <1>9 DEF Answer, serializeSectionPage
  <2> QED
    BY <1>1, <1>6, <1>7, <2>1 DEF Honest, Sections
<1> QED
  BY <1>8, <1>9, FailIsHonest DEF Replies

LEMMA DashboardAnswers ==
  ASSUME RequestShape, NEW c \in Slots, NEW r, r = requests[c], AuthInv, RowsInv, ReadDashboard(c)
  PROVE  Replies(c, r) \/ (OnlySlot(c) /\ Continues(r, requests'[c]))
<1>1. r.phase = "working" /\ r.route = "dashboard" /\ r.phase \in AdmittedPhases /\ r.phase \in Busy
  BY DEF ReadDashboard, working, at, AdmittedPhases, Working, Installing, Busy, Phases
<1>2. handlerOf(r).service = "database"
  BY <1>1 DEF handlerOf, resolveDashboard, Handler
<1>3. /\ r.database = home(r.who.app) /\ r.database \in DOMAIN rows
      /\ BelongsTo(r.credential, r.who.app)
  BY <1>1, <1>2, WorksThere
<1>4. dashboardLimit(r.query.limit) \in Nat
  <2>1. LimitIsValid(r)
    BY <1>1 DEF AuthInv, CallerInv
  <2>2. r.query.limit = None \/ r.query.limit \in Nat \ {0}
    BY <1>1, <2>1 DEF LimitIsValid, isDashboard, validLimit
  <2> QED
    BY <2>2, PageAssumption DEF dashboardLimit
<1> DEFINE page(section) == readSection(r.database, r.who, section, dashboardLimit(r.query.limit), None, NoFilters)
           given(section) == serializeSectionPage(page(section), r.who, section, None)
           all == [sections |-> r.pages, usage |-> readUsageSummary(r.database, r.who, r.now),
                   migrations |-> canReadAppWideSchemaMigrations(r.who)]
<1>5. ListKnown(r.credential, given("installations").items)
  <2>1. given("installations").items = page("installations").items
    BY DEF serializeSectionPage
  <2> QED
    BY <1>3, <1>4, <2>1, PageKnown
<1>6. \/ internalError(c)
      \/ \E section \in r.step : requests' = [requests EXCEPT ![c].step = @ \ {section},
                                                ![c].pages = withPage(@, section, given(section))]
      \/ r.step = {} /\ Respond(c, Answer(200, None, all))
  BY DEF ReadDashboard
<1> HIDE DEF given, all
<1>7. CASE r.step = {} /\ Respond(c, Answer(200, None, all))
  <2>1. PICK answer : answer = Answer(200, None, all)
    OBVIOUS
  <2>2. answer.value.sections = r.pages
    BY <2>1 DEF Answer, all
  <2> QED
    BY <1>1, <1>7, <2>1, <2>2 DEF Replies, Honest, Sections
<1>8. ASSUME NEW section, requests' = [requests EXCEPT ![c].step = @ \ {section},
                                         ![c].pages = withPage(@, section, given(section))]
      PROVE  OnlySlot(c) /\ Continues(r, requests'[c])
  <2> DEFINE p == withPage(r.pages, section, given(section))
             s == Paged(r, r.step \ {section}, p)
  <2>1. OnlySlot(c) /\ requests'[c] = s
    BY <1>1, <1>8, PagedMoves
  <2>2. DOMAIN r = RequestFields
    BY <1>1, PhaseTells
  <2>3. SameForm(r, s) /\ s.phase = r.phase /\ s.step = r.step \ {section} /\ s.pages = p
    BY <2>2, Pages DEF SameCaller
  <2>4. DOMAIN p = DOMAIN r.pages \cup {section} /\ \A x \in DOMAIN p : p[x] = IF x = section THEN given(section) ELSE r.pages[x]
    BY DEF withPage
  <2> HIDE DEF s, p
  <2>5. CASE section = "installations"
    <3>1. PageThere(r.credential, s.pages)
      BY <1>5, <2>3, <2>4, <2>5 DEF PageThere
    <3> QED
      BY <1>1, <2>1, <2>3, <3>1 DEF Continues
  <2>6. CASE section # "installations"
    <3>1. PageThere(r.credential, r.pages) => PageThere(r.credential, s.pages)
      BY <2>3, <2>4, <2>6 DEF PageThere
    <3> QED
      BY <1>1, <2>1, <2>3, <2>6, <3>1 DEF Continues
  <2> QED
    BY <2>5, <2>6
<1> QED
  BY <1>6, <1>7, <1>8, FailIsHonest

LEMMA CommandAnswers ==
  ASSUME RequestShape, NEW c \in Slots, NEW r, r = requests[c], AuthInv, RowsInv, RowsInv', RowsGrow,
         TokensGrow, UNCHANGED deployment, installationCommandStore_updateInstallation(c)
  PROVE  Replies(c, r)
<1>1. r.phase = "working" /\ r.route = "installationCommand" /\ r.phase \in AdmittedPhases
  BY DEF installationCommandStore_updateInstallation, working, at, AdmittedPhases, Working, Installing
<1>2. handlerOf(r).service = "database"
  BY <1>1 DEF handlerOf, runInstallationCommand, Change, Handler
<1>3. /\ r.database = home(r.who.app) /\ r.database \in DOMAIN rows
      /\ BelongsTo(r.credential, r.who.app)
  BY <1>1, <1>2, WorksThere
<1> PICK d : d = r.database
  OBVIOUS
<1> PICK result : result = updateInstallation(r.database, r.who, r.command)
  OBVIOUS
<1>4. unkeyed(c, result, "conflict")
  BY DEF installationCommandStore_updateInstallation
<1>5. clock \in Nat /\ SoundTable(rows[d])
  BY <1>3 DEF AuthInv, RowsInv
<1>6. home(r.who.app)' = d /\ BelongsTo(r.credential, r.who.app)'
  <2>1. home(r.who.app)' = home(r.who.app)
    BY DEF home, homeOf
  <2> QED
    BY <1>3, <2>1, BelongsStill
<1>7. ASSUME RowKnown(r.credential, result.row)', Respond(c, Answer(200, None, result.row))
      PROVE  Replies(c, r)
  <2>1. PICK answer : answer = Answer(200, None, result.row)
    OBVIOUS
  <2>2. answer.value = result.row
    BY <2>1 DEF Answer
  <2> QED
    BY <1>1, <1>7, <2>1, <2>2 DEF Replies, Honest, Sections
<1>8. CASE result.outcome = "done" /\ result.new = {} /\ Respond(c, Answer(200, None, result.row)) /\ unchanged
  <2>1. result.row \in rows[d] /\ result.row.section = "installations"
    BY <1>5, <1>8, CommandFits
  <2>2. RowKnown(r.credential, result.row)
    BY <1>3, <2>1, RowIsSeen DEF RowKnown
  <2> QED
    BY <1>7, <1>8, <2>2, KnownStays
<1>9. CASE /\ result.outcome = "done" /\ result.new # {} /\ change(c, result)
           /\ Respond(c, Answer(200, None, result.row))
  <2>1. freshIds(d, "auditEvents") # {} /\ write(d, result.new)
    BY <1>9 DEF change
  <2>2. result.row \in result.new /\ result.row.section = "installations" /\ SoundRow(result.row)
    BY <1>5, <1>9, <2>1, CommandFits
  <2>3. result.row \in rows'[d] /\ d \in DOMAIN rows'
    BY <1>3, <2>1, <2>2 DEF write
  <2>4. Seen(d, result.row)'
    BY <2>2, <2>3 DEF Seen, SoundRow, RowFields
  <2>5. RowKnown(r.credential, result.row)'
    BY <1>6, <2>4 DEF RowKnown
  <2> QED
    BY <1>7, <1>9, <2>5
<1> QED
  BY <1>4, <1>8, <1>9, FailIsHonest DEF unkeyed

LEMMA SilentAnswers ==
  ASSUME RequestShape, NEW c \in Slots, NEW r, r = requests[c],
         ReadDetail(c) \/ (Changing(c) /\ ~installationCommandStore_updateInstallation(c))
  PROVE  Replies(c, r) \/ (OnlySlot(c) /\ Continues(r, requests'[c]))
<1> DEFINE loud == Sections \cup {"dashboard", "installationCommand"}
           responds == \E answer : Respond(c, answer)
<1>1. r.phase \in Busy
  BY ReadStep, ChangeStep DEF Reading, TakesKey, TakesNoKey, Issues, Revokes, TakesEffect, Leaves,
     Working, Installing, Busy, Phases
<1>2. ASSUME r.route \notin loud, responds
      PROVE  Replies(c, r)
  BY <1>2, SilentIsHonest DEF Replies
<1>3. ASSUME r.route \in {"installCreate", "serviceTokenCollection"}, NEW p \in {"revoking"} \cup Installing,
             Advance(c, p)
      PROVE  OnlySlot(c) /\ Continues(r, requests'[c])
  <2>1. p \in Busy
    BY DEF Busy, Phases, Installing
  <2>2. OnlySlot(c) /\ SameForm(r, requests'[c]) /\ requests'[c].phase = p
    BY <1>1, <1>3, <2>1, AdvanceMoves DEF SameCaller
  <2> QED
    BY <1>3, <2>1, <2>2 DEF Continues, SameForm
<1>4. /\ \A status, code : Fail(c, status, code) => responds
      /\ internalError(c) => responds
      /\ \A outcome : refuse(c, outcome) => responds
  BY DEF Fail, internalError, refuse
<1> HIDE DEF responds
<1>5. \A answer : Respond(c, answer) => responds
  BY DEF responds
<1>6. CASE ReadDetail(c)
  <2>1. responds
    BY <1>4, <1>5, <1>6 DEF ReadDetail, notFoundUnless
  <2>2. r.route \notin loud
    BY <1>6 DEF ReadDetail, Sections
  <2> QED
    BY <1>2, <2>1, <2>2
<1>7. \A result, again : unkeyed(c, result, again) => responds
  BY <1>4, <1>5 DEF unkeyed
<1>8. \A kind, success, result : keyedChange(c, kind, success, result) => responds
  BY <1>4, <1>5 DEF keyedChange
<1>9. \A records : answerByRecord(c, records) => responds
  BY <1>4, <1>5 DEF answerByRecord
<1>10. CASE approvalDecisionStore_decide(c)
  BY <1>2, <1>7, <1>10 DEF approvalDecisionStore_decide, working, Sections
<1>11. CASE rollbackStore_rollback(c) \/ installRequestStore_requestInstallation(c)
  BY <1>2, <1>8, <1>11 DEF rollbackStore_rollback, installRequestStore_requestInstallation, working, Sections
<1>12. CASE install(c)
  BY <1>2, <1>3, <1>4, <1>9, <1>12 DEF install, working, Sections, Installing
<1>13. ASSUME r.phase \in Installing
       PROVE  r.route = "installCreate" /\ r.route \notin loud
  BY <1>13 DEF RequestShape, SlotInv, Installing, Sections
<1>14. CASE install_Propose(c)
  BY <1>2, <1>3, <1>4, <1>13, <1>14 DEF install_Propose, at, Installing
<1>15. CASE install_Write(c)
  BY <1>2, <1>3, <1>5, <1>13, <1>15 DEF install_Write, at, Installing
<1>16. CASE install_Recover(c)
  BY <1>2, <1>4, <1>9, <1>13, <1>16 DEF install_Recover, at, Installing
<1>17. CASE serviceTokenManager_issue(c) \/ serviceTokenManager_revoke(c)
  BY <1>2, <1>3, <1>4, <1>5, <1>17 DEF serviceTokenManager_issue, serviceTokenManager_revoke, tokenRoute, working,
     Sections
<1>19. CASE revoke_Update(c)
  <2>1. r.route = "serviceTokenCollection"
    BY <1>19 DEF revoke_Update, at, RequestShape, SlotInv
  <2> QED
    BY <1>2, <1>4, <1>5, <1>19, <2>1 DEF revoke_Update, Sections
<1>18. CASE slackOAuthInstallStartService_start(c)
  BY <1>2, <1>4, <1>5, <1>18 DEF slackOAuthInstallStartService_start, working, Sections
<1> QED
  BY <1>6, <1>10, <1>11, <1>12, <1>14, <1>15, <1>16, <1>17, <1>18, <1>19 DEF Changing

(***************************************************************************)
(* Whatever the Worker does, the request goes on or is answered honestly.  *)
(***************************************************************************)
LEMMA ServeAnswers ==
  ASSUME RequestShape, AuthInv, RowsInv, RowsInv', RowsGrow, TokensGrow, UNCHANGED deployment,
         NEW c \in Slots, Serve(c), NEW r, r = requests[c]
  PROVE  r.phase \in Busy /\ (Replies(c, r) \/ (OnlySlot(c) /\ Continues(r, requests'[c])))
<1>1. r.phase \in Busy
  BY FetchStep, RouteStep, HandleStep, AdmitStep, ReserveStep, ReadStep, ChangeStep
     DEF Serve, TakesKey, TakesNoKey, Issues, Revokes, TakesEffect, Leaves, Working, Installing, Busy, Phases
<1> QED
  BY <1>1, EarlyAnswers, AdmitAnswers, ReserveAnswers, SectionAnswers, DashboardAnswers, CommandAnswers,
     SilentAnswers DEF Serve, Reading, Changing
(***************************************************************************)
(* What everything but the Worker's steps leaves alone.                    *)
(***************************************************************************)
LEMMA NextTokens ==
  ASSUME RequestShape, AuthInv, [Next]_vars
  PROVE  TokensGrow /\ UNCHANGED deployment
<1>1. ASSUME UNCHANGED <<tokens, deployment>>
      PROVE  TokensGrow /\ UNCHANGED deployment
  BY <1>1 DEF TokensGrow
<1>2. CASE \E c \in Slots : Serve(c) /\ UNCHANGED console
  BY <1>2, ServeTokens DEF console
<1>3. CASE ClientStep /\ quiet
  BY <1>1, <1>3 DEF quiet
<1>4. CASE RecordExecution \/ OtherAdministrator \/ Tick \/ UNCHANGED vars
  BY <1>1, <1>4 DEF RecordExecution, OtherAdministrator, Tick, elsewhere, vars, access, api
<1> QED
  BY <1>2, <1>3, <1>4, StepKinds

-----------------------------------------------------------------------------
(* Pages.                                                                   *)

PageInv(q) ==
    q.phase = "answered" /\ q.route \in Sections /\ q.answer.status = 200 =>
        \A i \in DOMAIN q.answer.value.items : IsCallers(q.route, q.who, q.answer.value.items[i])

LEMMA RepliesKeepPages ==
  ASSUME RequestShape, NEW c \in Slots, NEW r, r = requests[c], r.phase \in Busy, Replies(c, r)
  PROVE  OnlySlot(c) /\ \A q : q = requests'[c] => PageInv(q)
<1>1. PICK answer : Respond(c, answer) /\ Honest(r, answer)
  BY DEF Replies
<1>2. /\ OnlySlot(c)
      /\ r.gone => requests'[c] = Idle
      /\ ~r.gone => /\ requests'[c].phase = "answered" /\ requests'[c].route = r.route
                    /\ requests'[c].who = r.who /\ requests'[c].answer = answer
  BY <1>1, Responded
<1>3. ASSUME NEW q, q = requests'[c]
      PROVE  PageInv(q)
  BY <1>1, <1>2, <1>3 DEF PageInv, Honest, Idle
<1> QED
  BY <1>2, <1>3

LEMMA NextKeepsPages ==
  ASSUME RequestShape, AuthInv, RowsInv, \A c \in Slots : \A q : q = requests[c] => PageInv(q), [Next]_vars
  PROVE  \A c \in Slots : \A q : q = requests'[c] => PageInv(q)
<1>1. ASSUME UNCHANGED requests
      PROVE  \A c \in Slots : \A q : q = requests'[c] => PageInv(q)
  BY <1>1
<1>2. ASSUME NEW c \in Slots, Serve(c)
      PROVE  \A d \in Slots : \A q : q = requests'[d] => PageInv(q)
  <2>1. PICK r : r = requests[c]
    OBVIOUS
  <2>2. r.phase \in Busy /\ (Replies(c, r) \/ (OnlySlot(c) /\ Continues(r, requests'[c])))
    BY <1>2, <2>1, ServeAnswers, NextGrows, NextTokens
  <2>3. OnlySlot(c) /\ \A q : q = requests'[c] => PageInv(q)
    <3>1. CASE Continues(r, requests'[c])
      BY <2>2, <3>1 DEF Continues, PageInv, Busy, Replies, Respond, OnlySlot, RequestShape
    <3> QED
      BY <2>1, <2>2, <3>1, RepliesKeepPages
  <2> QED
    BY <2>3 DEF OnlySlot
<1>3. ASSUME ClientStep, NEW c \in Slots, NEW q, q = requests'[c]
      PROVE  PageInv(q)
  <2>1. PICK r : r = requests[c]
    OBVIOUS
  <2>2. PageInv(r) /\ ClientMove(r, q)
    BY <1>3, <2>1 DEF ClientStep
  <2> QED
    BY <2>2 DEF ClientMove, PageInv, Idle, Busy
<1>4. CASE RecordExecution \/ OtherAdministrator \/ Tick \/ UNCHANGED vars
  BY <1>1, <1>4 DEF RecordExecution, OtherAdministrator, Tick, elsewhere, vars, api
<1> QED
  BY <1>2, <1>3, <1>4, StepKinds

(***************************************************************************)
(* Every page holds rows of the caller's tenant, or versions of the        *)
(* caller's app, only, whatever cursor, limit or filter came with the      *)
(* request (admin-dashboard.ts:146-170).                                   *)
(***************************************************************************)
THEOREM PagesStayTheCallers == Spec => []PagesAreTheCallers
<1> DEFINE Inv == \A c \in Slots : \A q : q = requests[c] => PageInv(q)
<1>1. Init => Inv
  BY DEF Init, PageInv, Idle
<1>2. RequestShape /\ AuthInv /\ RowsInv /\ Inv /\ [Next]_vars => Inv'
  BY NextKeepsPages
<1>3. Inv => PagesAreTheCallers
  BY DEF PageInv, PagesAreTheCallers, at, IsCallers
<1> QED
  BY <1>1, <1>2, <1>3, RequestsAreShaped, AuthIsKept, RowsAreSound, PTL DEF Spec

(***************************************************************************)
(* Every change is made with the rights its credential had when it was     *)
(* resolved, and none by a token that was revoked before the handler asked *)
(* for it, however long the answer took; it is made in the database of the *)
(* caller's app. A token that was issued holds no more than its issuer,    *)
(* and a page holds the caller's rows only                                 *)
(* (rbac.ts, service-tokens.ts, app-database-router.ts, http-api.ts,       *)
(* admin-dashboard.ts).                                                    *)
(***************************************************************************)
THEOREM AccessStaysBounded == Spec => []AccessIsBounded
<1>1. AuthInv => EffectIsAuthorised
  BY NoneAssumption DEF AuthInv, EffectIsAuthorised, MayChange, home, homeOf
<1>2. AuthInv => TokensStayWithin
  BY DEF AuthInv, Granted, StaysWithin, TokensStayWithin
<1> QED
  BY <1>1, <1>2, AuthIsKept, PagesStayTheCallers, PTL DEF AccessIsBounded

-----------------------------------------------------------------------------
(* Numbers.                                                                 *)

(***************************************************************************)
(* Requests that are on their way or answered have numbers of their own.   *)
(***************************************************************************)
NumberInv ==
    /\ sent \in Nat
    /\ \A c \in Slots : requests[c] # Idle => requests[c].n \in Nat /\ requests[c].n < sent
    /\ \A c, d \in Slots : requests[c] # Idle /\ requests[d] # Idle /\ requests[c].n = requests[d].n => c = d

LEMMA NumbersKept ==
  ASSUME NumberInv, UNCHANGED sent,
         \A c \in Slots : requests'[c] # Idle => requests[c] # Idle /\ requests'[c].n = requests[c].n
  PROVE  NumberInv'
BY DEF NumberInv

LEMMA ServeSends ==
  ASSUME NEW c \in Slots, RequestShape, Serve(c)
  PROVE  UNCHANGED sent
<1>1. CASE Fetch(c) \/ resolveRequestDatabase(c) \/ Handle(c) \/ resolveAdminIdentity(c)
  BY <1>1 DEF Fetch, resolveRequestDatabase, Handle, resolveAdminIdentity, untouched
<1>2. CASE reserveAdminMutation(c)
  BY <1>2 DEF reserveAdminMutation
<1>3. CASE Reading(c)
  BY <1>3, ReadStep DEF reads
<1>4. CASE Changing(c)
  BY <1>4, ChangeStep DEF Leaves, TakesKey, TakesNoKey, Issues, Revokes, TakesEffect, unchanged, stable
<1> QED
  BY <1>1, <1>2, <1>3, <1>4 DEF Serve

LEMMA NextKeepsNumbers ==
  ASSUME RequestShape, AuthInv, RowsInv, NumberInv, [Next]_vars
  PROVE  NumberInv'
<1>1. ASSUME NEW c \in Slots, Serve(c), UNCHANGED console
      PROVE  NumberInv'
  <2>1. PICK r : r = requests[c]
    OBVIOUS
  <2>2. r.phase \in Busy /\ (Replies(c, r) \/ (OnlySlot(c) /\ Continues(r, requests'[c])))
    BY <1>1, <2>1, ServeAnswers, NextGrows, NextTokens
  <2>3. r # Idle
    BY <2>2 DEF Busy, Idle
  <2>4. OnlySlot(c) /\ (requests'[c] # Idle => requests'[c].n = r.n)
    <3>1. CASE OnlySlot(c) /\ Continues(r, requests'[c])
      BY <3>1 DEF Continues, SameForm
    <3>2. CASE Replies(c, r)
      BY <2>1, <2>2, <3>2, Responded DEF Replies
    <3> QED
      BY <2>2, <3>1, <3>2
  <2>5. UNCHANGED sent
    BY <1>1, ServeSends
  <2> QED
    BY <2>1, <2>3, <2>4, <2>5, NumbersKept DEF OnlySlot
<1>2. CASE ClientStep
  <2>1. CASE /\ sent' = sent
             /\ \A c \in Slots : requests'[c] # Idle => requests[c] # Idle /\ requests'[c].n = requests[c].n
    BY <2>1, NumbersKept
  <2>2. CASE sent' = sent + 1 /\ \E c \in Slots : OnlySlot(c) /\ requests'[c].n = sent
    <3>1. PICK c \in Slots : OnlySlot(c) /\ requests'[c].n = sent
      BY <2>2
    <3>2. sent \in Nat /\ sent' \in Nat /\ sent < sent'
      BY <2>2 DEF NumberInv
    <3>3. ASSUME NEW d \in Slots, requests'[d] # Idle
          PROVE  requests'[d].n \in Nat /\ requests'[d].n < sent' /\ (d # c => requests'[d].n < sent)
      BY <3>1, <3>2, <3>3 DEF OnlySlot, NumberInv
    <3>4. ASSUME NEW d \in Slots, NEW e \in Slots, requests'[d] # Idle, requests'[e] # Idle,
                 requests'[d].n = requests'[e].n
          PROVE  d = e
      <4>1. CASE d = c \/ e = c
        BY <3>1, <3>2, <3>3, <3>4, <4>1
      <4>2. CASE d # c /\ e # c
        BY <3>1, <3>4, <4>2 DEF OnlySlot, NumberInv
      <4> QED
        BY <4>1, <4>2
    <3> QED
      BY <3>2, <3>3, <3>4 DEF NumberInv
  <2> QED
    BY <1>2, <2>1, <2>2 DEF ClientStep, Numbering
<1>3. CASE RecordExecution \/ OtherAdministrator \/ Tick \/ UNCHANGED vars
  <2>1. UNCHANGED <<requests, sent>>
    BY <1>3 DEF RecordExecution, OtherAdministrator, Tick, elsewhere, vars, api
  <2> QED
    BY <2>1, NumbersKept
<1> QED
  BY <1>1, <1>2, <1>3, StepKinds

LEMMA NumbersAreKept == Spec => []NumberInv
<1>1. Init => NumberInv
  BY DEF Init, NumberInv
<1>2. RequestShape /\ AuthInv /\ RowsInv /\ NumberInv /\ [Next]_vars => NumberInv'
  BY NextKeepsNumbers
<1> QED
  BY <1>1, <1>2, RequestsAreShaped, AuthIsKept, RowsAreSound, PTL DEF Spec

-----------------------------------------------------------------------------
(* What the console shows.                                                  *)

(***************************************************************************)
(* What an answer brings to the session of a credential.                   *)
(***************************************************************************)
Delivered(k, route, answer) ==
    ok(answer) =>
        /\ route = "dashboard" => PageThere(k, answer.value.sections)
        /\ route = "installations" => ListKnown(k, answer.value.items)
        /\ route = "installationCommand" => RowKnown(k, answer.value)

(***************************************************************************)
(* A request the console waits for is the session's own.                   *)
(***************************************************************************)
CallInv(q, k) ==
    /\ q.phase \in Busy \cup {"answered"}
    /\ q.phase \in Busy =>
         /\ q.credential = k /\ q.gone = FALSE /\ q.method # "OPTIONS"
         /\ q.phase \in AdmittedPhases /\ q.route = "dashboard" =>
              "installations" \in q.step \/ PageThere(k, q.pages)
    /\ q.phase = "answered" => Delivered(k, q.route, q.answer)

LEMMA PageStays ==
  ASSUME RowsInv, RowsInv', RowsGrow, TokensGrow, UNCHANGED deployment, NEW k, NEW pages, PageThere(k, pages)
  PROVE  PageThere(k, pages)'
<1>1. \A list : ListKnown(k, list) => ListKnown(k, list)'
  BY KnownStays
<1> QED
  BY <1>1 DEF PageThere

LEMMA DeliveryStays ==
  ASSUME RowsInv, RowsInv', RowsGrow, TokensGrow, UNCHANGED deployment, NEW k, NEW route, NEW answer,
         Delivered(k, route, answer)
  PROVE  Delivered(k, route, answer)'
<1>1. /\ \A s : RowKnown(k, s) => RowKnown(k, s)'
      /\ \A list : ListKnown(k, list) => ListKnown(k, list)'
  BY KnownStays
<1>2. \A pages : PageThere(k, pages) => PageThere(k, pages)'
  BY PageStays
<1> QED
  BY <1>1, <1>2 DEF Delivered, ok

LEMMA CallStays ==
  ASSUME RowsInv, RowsInv', RowsGrow, TokensGrow, UNCHANGED deployment, NEW q, NEW k, CallInv(q, k)
  PROVE  CallInv(q, k)'
<1>1. Delivered(k, q.route, q.answer) => Delivered(k, q.route, q.answer)'
  BY DeliveryStays
<1>2. PageThere(k, q.pages) => PageThere(k, q.pages)'
  BY PageStays
<1> QED
  BY <1>1, <1>2 DEF CallInv

LEMMA ServeKeepsCall ==
  ASSUME RequestShape, AuthInv, RowsInv, RowsInv', RowsGrow, TokensGrow, UNCHANGED deployment,
         NEW c \in Slots, Serve(c), NEW r, r = requests[c], NEW k, CallInv(r, k), NEW s, s = requests'[c]
  PROVE  CallInv(s, k)' /\ s.route = r.route /\ (s.phase \in Busy => s.command = r.command)
<1>1. r.phase \in Busy /\ (Replies(c, r) \/ (OnlySlot(c) /\ Continues(r, s)))
  BY ServeAnswers
<1>2. r.credential = k /\ r.gone = FALSE /\ r.method # "OPTIONS"
  BY <1>1 DEF CallInv
<1>3. CASE Continues(r, s)
  <2>1. s.credential = k /\ s.gone = FALSE /\ s.method # "OPTIONS" /\ s.route = r.route /\ s.command = r.command
        /\ s.phase \in Busy
    BY <1>2, <1>3 DEF Continues, SameForm
  <2>2. s.phase # "answered"
    BY <2>1 DEF Busy
  <2>3. ASSUME s.phase \in AdmittedPhases, s.route = "dashboard", "installations" \notin s.step
        PROVE  PageThere(k, s.pages)
    BY <1>1, <1>2, <1>3, <2>1, <2>3 DEF Continues, CallInv
  <2>4. CallInv(s, k)
    BY <2>1, <2>2, <2>3 DEF CallInv
  <2> QED
    BY <2>1, <2>4, CallStays
<1>4. CASE Replies(c, r)
  <2>1. PICK answer : Respond(c, answer) /\ Honest(r, answer)
    BY <1>4 DEF Replies
  <2>2. s.phase = "answered" /\ s.route = r.route /\ s.answer = answer
    BY <1>1, <1>2, <2>1, Responded
  <2>3. Delivered(k, r.route, answer)'
    <3>1. /\ \A list : ListKnown(k, list) => ListKnown(k, list)'
          /\ \A pages : PageThere(k, pages) => PageThere(k, pages)'
      BY KnownStays, PageStays
    <3>2. ASSUME ok(answer), r.route = "dashboard"
          PROVE  PageThere(k, answer.value.sections)'
      <4>1. PageThere(k, r.pages) /\ answer.value.sections = r.pages
        BY <1>1, <1>2, <2>1, <3>2 DEF Honest, CallInv
      <4> QED
        BY <3>1, <4>1
    <3>3. ASSUME ok(answer), r.route = "installations"
          PROVE  ListKnown(k, answer.value.items)'
      BY <1>2, <2>1, <3>1, <3>3 DEF Honest
    <3>4. ASSUME ok(answer), r.route = "installationCommand"
          PROVE  RowKnown(k, answer.value)'
      BY <1>2, <2>1, <3>4 DEF Honest
    <3> QED
      BY <3>2, <3>3, <3>4 DEF Delivered, ok
  <2>4. s.phase \notin Busy
    BY <2>2 DEF Busy
  <2> QED
    BY <2>2, <2>3, <2>4 DEF CallInv
<1> QED
  BY <1>1, <1>3, <1>4

(***************************************************************************)
(* The screen: nothing is shown before a session, and the installations    *)
(* that are shown are those of its credential's app.                       *)
(***************************************************************************)
ShownTo(k, snapshot) ==
    /\ DOMAIN snapshot = {"lists", "cursors"} /\ DOMAIN snapshot.lists = Sections
    /\ ListKnown(k, snapshot.lists["installations"])

Screen(u) ==
    /\ DOMAIN u = DOMAIN LoginState
    /\ u.snapshot # None => ShownTo(u.credential, u.snapshot)
    /\ "dashboard" \in DOMAIN u.loaded => PageThere(u.credential, u.loaded["dashboard"].sections)

Blank(u) == u.snapshot = None /\ u.results = None /\ u.panel = None /\ u.target = None

(***************************************************************************)
(* What is waited for: the request is of the kind the step takes, and a    *)
(* command is about the row it was given from.                             *)
(***************************************************************************)
Fit(w, q, u) ==
    /\ w.step = "load" => q.route = w.part
    /\ w.step = "refresh" => q.route = "dashboard"
    /\ w.step = "page" => q.route = w.section /\ w.section \in Sections
    /\ w.step \in {"page", "command", "decision"} => ShownTo(u.credential, u.snapshot)
    /\ w.step = "command" =>
         /\ q.route = "installationCommand" /\ RowKnown(u.credential, w.shown)
         /\ q.phase \in Busy => q.command.id = w.shown.id /\ q.command.expected = w.shown.revision

WaitInv(w, q, u) == u.session # None /\ CallInv(q, u.credential) /\ Fit(w, q, u)

(***************************************************************************)
(* A login is waited for alone.                                            *)
(***************************************************************************)
Alone(c) ==
    ui.session = None /\ "login" \in ui.busy /\ \A d \in Slots \ {c} : waits[d] = None

Waiting(c) ==
    \A w, q, u : w = waits[c] /\ q = requests[c] /\ u = ui /\ w # None =>
        IF w.step = "login" THEN Alone(c) ELSE WaitInv(w, q, u)

ConsoleInv ==
    /\ DOMAIN waits = Slots
    /\ \A u : u = ui => Screen(u) /\ (u.session = None => Blank(u))
    /\ \A c \in Slots : Waiting(c)

LEMMA ScreenStays ==
  ASSUME RowsInv, RowsInv', RowsGrow, TokensGrow, UNCHANGED deployment
  PROVE  /\ \A k, s : ShownTo(k, s) => ShownTo(k, s)'
         /\ \A u : Screen(u) => Screen(u)'
         /\ \A w, q, u : WaitInv(w, q, u) => WaitInv(w, q, u)'
<1>1. /\ \A k, s : RowKnown(k, s) => RowKnown(k, s)'
      /\ \A k, list : ListKnown(k, list) => ListKnown(k, list)'
  BY KnownStays
<1>2. \A k, pages : PageThere(k, pages) => PageThere(k, pages)'
  BY PageStays
<1>3. \A k, q : CallInv(q, k) => CallInv(q, k)'
  BY CallStays
<1>4. \A k, s : ShownTo(k, s) => ShownTo(k, s)'
  BY <1>1 DEF ShownTo
<1>5. ASSUME NEW u, Screen(u)
      PROVE  Screen(u)'
  BY <1>2, <1>4, <1>5 DEF Screen, LoginState, NoFilters
<1>6. ASSUME NEW w, NEW q, NEW u, WaitInv(w, q, u)
      PROVE  WaitInv(w, q, u)'
  BY <1>1, <1>3, <1>4, <1>6 DEF WaitInv, Fit
<1> QED
  BY <1>4, <1>5, <1>6

LEMMA ServeKeepsConsole ==
  ASSUME RequestShape, AuthInv, RowsInv, RowsInv', RowsGrow, TokensGrow, UNCHANGED deployment,
         ConsoleInv, NEW c \in Slots, Serve(c), UNCHANGED console
  PROVE  ConsoleInv'
<1>1. UNCHANGED <<ui, waits>>
  BY DEF console
<1>2. \A u : u = ui' => Screen(u)' /\ (u.session = None => Blank(u))
  BY <1>1, ScreenStays DEF ConsoleInv
<1>3. OnlySlot(c)
  BY ServeTokens DEF console
<1>4. ASSUME NEW d \in Slots, NEW w, NEW q, NEW u, w = waits'[d], q = requests'[d], u = ui', w # None,
             w.step # "login"
      PROVE  WaitInv(w, q, u)'
  <2>1. PICK r : r = requests[d]
    OBVIOUS
  <2>2. WaitInv(w, r, u)
    BY <1>1, <1>4, <2>1 DEF ConsoleInv, Waiting
  <2>3. CASE d # c
    BY <1>3, <1>4, <2>1, <2>2, <2>3, ScreenStays DEF OnlySlot
  <2>4. CASE d = c
    <3>1. CallInv(q, u.credential)' /\ q.route = r.route /\ (q.phase \in Busy => q.command = r.command)
      BY <1>4, <2>1, <2>2, <2>4, ServeKeepsCall DEF WaitInv
    <3>2. r.phase \in Busy
      BY <2>1, <2>4, ServeAnswers
    <3>3. /\ RowKnown(u.credential, w.shown) => RowKnown(u.credential, w.shown)'
          /\ ShownTo(u.credential, u.snapshot) => ShownTo(u.credential, u.snapshot)'
      BY KnownStays, ScreenStays
    <3> QED
      BY <2>2, <3>1, <3>2, <3>3 DEF WaitInv, Fit
  <2> QED
    BY <2>3, <2>4
<1>5. ASSUME NEW d \in Slots
      PROVE  Waiting(d)'
  <2>1. waits'[d] # None /\ waits'[d].step = "login" => Alone(d)'
    BY <1>1 DEF ConsoleInv, Waiting, Alone
  <2> QED
    BY <1>4, <2>1 DEF Waiting
<1> QED
  BY <1>1, <1>2, <1>5 DEF ConsoleInv

LEMMA QuietStays ==
  ASSUME RowsInv, quiet
  PROVE  RowsInv' /\ RowsGrow /\ TokensGrow /\ UNCHANGED deployment
<1>1. UNCHANGED <<scenario, rows, tokens, deployment>>
  BY DEF quiet
<1> QED
  BY <1>1, RowsKept DEF TokensGrow

(***************************************************************************)
(* A screen that a session goes on with.                                   *)
(***************************************************************************)
GoesOn(u) ==
    /\ ui.session # None /\ u.session = ui.session /\ u.credential = ui.credential
    /\ ShownTo(ui.credential, ui.snapshot) => ShownTo(u.credential, u.snapshot)
    /\ Screen(u)

LEMMA ClientKeeps ==
  ASSUME RowsInv, ConsoleInv, quiet, NEW c \in Slots, OnlySlot(c),
         NEW then, waits' = [waits EXCEPT ![c] = then],
         NEW u, u = ui', GoesOn(u),
         \A q : q = requests'[c] /\ then # None => then.step # "login" /\ WaitInv(then, q, u)
  PROVE  ConsoleInv'
<1>1. RowsInv' /\ RowsGrow /\ TokensGrow /\ UNCHANGED deployment
  BY QuietStays
<1>2. Screen(u)' /\ u.session # None
  BY <1>1, ScreenStays DEF GoesOn
<1>3. waits'[c] = then /\ DOMAIN waits' = Slots /\ \A d \in Slots \ {c} : waits'[d] = waits[d]
  BY DEF ConsoleInv
<1>4. ASSUME NEW d \in Slots, NEW w, NEW q, w = waits'[d], q = requests'[d], w # None
      PROVE  w.step # "login" /\ WaitInv(w, q, u)'
  <2>1. CASE d = c
    BY <1>1, <1>3, <1>4, <2>1, ScreenStays
  <2>2. CASE d # c
    <3>1. w = waits[d] /\ q = requests[d]
      BY <1>3, <1>4, <2>2 DEF OnlySlot
    <3>2. PICK old : old = ui
      OBVIOUS
    <3>3. w.step # "login" /\ WaitInv(w, q, old)
      BY <1>4, <3>1, <3>2 DEF ConsoleInv, Waiting, Alone, GoesOn
    <3>4. WaitInv(w, q, u)
      BY <3>2, <3>3 DEF WaitInv, Fit, GoesOn
    <3> QED
      BY <1>1, <3>3, <3>4, ScreenStays
  <2> QED
    BY <2>1, <2>2
<1>5. ASSUME NEW d \in Slots
      PROVE  Waiting(d)'
  BY <1>4 DEF Waiting
<1> QED
  BY <1>2, <1>3, <1>5 DEF ConsoleInv

LEMMA ReceiveKeeps ==
  ASSUME RequestShape, RowsInv, ConsoleInv, quiet, NEW c \in Slots, Receive(c), NEW u, u = ui', GoesOn(u)
  PROVE  ConsoleInv'
<1>1. OnlySlot(c) /\ waits' = [waits EXCEPT ![c] = None]
  BY DEF Receive, OnlySlot, RequestShape
<1> QED
  BY <1>1, ClientKeeps

LEMMA CallKeeps ==
  ASSUME RequestShape, RowsInv, ConsoleInv, quiet, NEW c \in Slots, NEW form, NEW then,
         Call(c, form, then) \/ CallAgain(c, form, then), NEW u, u = ui', GoesOn(u),
         form.credential = ui.credential, form.method # "OPTIONS",
         then.step # "login", \A q : q = fresh(form) => Fit(then, q, u)
  PROVE  ConsoleInv'
<1>1. Send(c, form) /\ waits' = [waits EXCEPT ![c] = then]
  BY DEF Call, CallAgain
<1>2. OnlySlot(c) /\ requests'[c] = fresh(form)
  BY <1>1, Moved DEF Send
<1>3. ASSUME NEW q, q = fresh(form)
      PROVE  WaitInv(then, q, u)
  <2>1. q.phase = "arrived" /\ q.gone = FALSE /\ q.credential = u.credential /\ q.method # "OPTIONS"
    BY <1>3 DEF fresh, GoesOn
  <2>2. CallInv(q, u.credential)
    BY <2>1 DEF CallInv, Busy, Phases, AdmittedPhases, Working, Installing
  <2> QED
    BY <1>3, <2>2 DEF WaitInv, GoesOn
<1> QED
  BY <1>1, <1>2, <1>3, ClientKeeps

LEMMA Undisturbed ==
  ASSUME ConsoleInv, ui.session # None, NEW u, DOMAIN u = DOMAIN ui, u.session = ui.session,
         u.credential = ui.credential, u.snapshot = ui.snapshot, u.loaded = ui.loaded
  PROVE  GoesOn(u)
<1>1. Screen(ui)
  BY DEF ConsoleInv
<1> QED
  BY <1>1 DEF GoesOn, Screen, ShownTo

LEMMA ScreenFields ==
  ASSUME ConsoleInv
  PROVE  DOMAIN ui = {"credential", "session", "snapshot", "unasked", "loaded", "loading", "busy", "latest",
                      "reviewed", "review", "panel", "target", "filters", "searched", "results", "more",
                      "detail"}
<1>1. DOMAIN ui = DOMAIN LoginState
  BY DEF ConsoleInv, Screen
<1> QED
  BY <1>1 DEF LoginState

(***************************************************************************)
(* Every call of a session is made with its credential.                    *)
(***************************************************************************)
OwnForm(form, route) ==
    form.credential = ui.credential /\ form.method # "OPTIONS" /\ form.route = route

LEMMA Forms ==
  /\ \A route : OwnForm(fetchAdminJson("GET", route), route)
  /\ \A section, cursor : OwnForm(getDashboardSection(section, cursor), section)
  /\ \A filters, cursor : OwnForm(searchExecutions(filters, cursor), "executions")
  /\ \A id : OwnForm(getExecutionDetail(id), "executionDetail")
  /\ \A id : OwnForm(getInstallationPermissionReview(id), "installationReview")
  /\ \A version : OwnForm(getInstallPreview(version), "installPreview")
  /\ \A command : OwnForm(decideApproval_call(command), "approvalDecisionCreate")
  /\ \A command : /\ OwnForm(updateInstallationCommand(command), "installationCommand")
                  /\ updateInstallationCommand(command).command = command
  /\ \A command, key : /\ OwnForm(installPlugin_call(command, key), "installCreate")
                       /\ OwnForm(requestInstallation_call(command, key), "installRequestCreate")
                       /\ OwnForm(rollbackInstallation_call(command, key), "rollbackCreate")
BY DEF OwnForm, fetchAdminJson, getDashboardSection, searchExecutions, getExecutionDetail,
       getInstallationPermissionReview, getInstallPreview, decideApproval_call, updateInstallationCommand,
       installPlugin_call, requestInstallation_call, rollbackInstallation_call

LEMMA FreshForm == \A form : fresh(form).route = form.route /\ fresh(form).command = form.command
BY DEF fresh

PlainSteps == {"review", "detail", "search", "preview", "install", "request", "rollback"}

LEMMA PlainFits == \A w, q, u : w.step \in PlainSteps => Fit(w, q, u) /\ w.step # "login"
BY DEF PlainSteps, Fit

(***************************************************************************)
(* Only a session has something on the screen to act on.                   *)
(***************************************************************************)
LEMMA InSession ==
  ASSUME ConsoleInv, ui.snapshot # None \/ ui.results # None \/ ui.panel # None \/ ui.target # None
  PROVE  ui.session # None
BY DEF ConsoleInv, Blank

LEMMA Awaited ==
  ASSUME ConsoleInv, NEW c \in Slots, NEW step, awaits(c, step), step # "login"
  PROVE  /\ ui.session # None /\ requests[c].phase \in Busy \cup {"answered"}
         /\ \A answer \in answersOf(c) : Delivered(ui.credential, requests[c].route, answer)
         /\ \A w, q, u : w = waits[c] /\ q = requests[c] /\ u = ui => Fit(w, q, u)
<1>1. \A w, q, u : w = waits[c] /\ q = requests[c] /\ u = ui => WaitInv(w, q, u)
  BY DEF ConsoleInv, Waiting, awaits
<1>2. ASSUME NEW q, q = requests[c], NEW answer \in answersOf(c)
      PROVE  Delivered(ui.credential, q.route, answer)
  <2>1. CASE answer = networkError
    BY <2>1 DEF Delivered, ok, networkError, Answer
  <2>2. CASE at(c, "answered") /\ answer = q.answer
    BY <1>1, <1>2, <2>2 DEF WaitInv, CallInv, at
  <2> QED
    BY <1>2, <2>1, <2>2 DEF answersOf
<1> QED
  BY <1>1, <1>2 DEF WaitInv, CallInv

LEMMA NoWaits ==
  ASSUME RowsInv, quiet, DOMAIN waits' = Slots, \A c \in Slots : waits'[c] = None,
         \A u : u = ui' => Screen(u) /\ (u.session = None => Blank(u))
  PROVE  ConsoleInv'
<1>1. \A u : u = ui' => Screen(u)'
  BY QuietStays, ScreenStays
<1>2. ASSUME NEW c \in Slots
      PROVE  Waiting(c)'
  BY DEF Waiting
<1> QED
  BY <1>1, <1>2 DEF ConsoleInv

LEMMA LoginKeeps ==
  ASSUME RequestShape, RowsInv, ConsoleInv, NEW c \in Slots, LoginPanel(c) \/ LoginPanel_then(c)
  PROVE  ConsoleInv'
<1>1. CASE LoginPanel(c)
  <2>1. quiet /\ ui.session = None /\ "login" \notin ui.busy /\ ui' = [ui EXCEPT !.busy = @ \cup {"login"}]
    BY <1>1 DEF LoginPanel, begin
  <2>2. PICK form, then : Call(c, form, then) /\ then.step = "login"
    BY <1>1 DEF LoginPanel
  <2>3. waits' = [waits EXCEPT ![c] = then]
    BY <2>2 DEF Call
  <2>4. \A d \in Slots : waits[d] = None
    BY <2>1 DEF ConsoleInv, Waiting, Alone, WaitInv
  <2>5. /\ DOMAIN waits' = Slots /\ waits'[c] = then
        /\ \A d \in Slots \ {c} : waits'[d] = None
    BY <2>3, <2>4 DEF ConsoleInv
  <2>6. ASSUME NEW u, u = ui'
        PROVE  Screen(u) /\ u.session = None /\ "login" \in u.busy /\ Blank(u)
    <3>1. /\ DOMAIN u = DOMAIN ui /\ u.session = ui.session /\ u.credential = ui.credential /\ u.loaded = ui.loaded
          /\ u.snapshot = ui.snapshot /\ u.results = ui.results /\ u.panel = ui.panel /\ u.target = ui.target
          /\ u.busy = ui.busy \cup {"login"}
      BY <2>1, <2>6, ScreenFields
    <3>2. Screen(ui) /\ Blank(ui)
      BY <2>1 DEF ConsoleInv
    <3> QED
      BY <2>1, <3>1, <3>2 DEF Screen, Blank
  <2>7. \A u : u = ui' => Screen(u)'
    BY <2>1, <2>6, QuietStays, ScreenStays
  <2>8. ASSUME NEW d \in Slots
        PROVE  Waiting(d)'
    BY <2>2, <2>5, <2>6 DEF Waiting, Alone
  <2> QED
    BY <2>5, <2>6, <2>7, <2>8 DEF ConsoleInv
<1>2. CASE LoginPanel_then(c)
  <2>1. quiet /\ Receive(c) /\ waits[c] # None /\ waits[c].step = "login"
    BY <1>2 DEF LoginPanel_then, awaits
  <2>2. Alone(c)
    BY <2>1 DEF ConsoleInv, Waiting
  <2>3. DOMAIN waits' = Slots /\ \A d \in Slots : waits'[d] = None
    BY <2>1, <2>2 DEF Receive, Alone, ConsoleInv
  <2>4. ASSUME NEW u, u = ui'
        PROVE  Screen(u) /\ (u.session = None => Blank(u))
    <3>1. PICK credential, who : u = AdminShell(credential, who) \/ u = ends("login")
      BY <1>2, <2>4 DEF LoginPanel_then
    <3>2. CASE u = AdminShell(credential, who)
      <4>1. /\ DOMAIN u = DOMAIN LoginState /\ u.snapshot = None /\ u.loaded = <<>>
            /\ u.results = None /\ u.panel = None /\ u.target = None
        BY <3>2 DEF AdminShell, LoginState
      <4>2. "dashboard" \notin DOMAIN u.loaded
        BY <4>1
      <4> QED
        BY <4>1, <4>2 DEF Screen, Blank
    <3>3. CASE u = ends("login")
      <4>1. /\ DOMAIN u = DOMAIN ui /\ u.session = ui.session /\ u.credential = ui.credential /\ u.loaded = ui.loaded
            /\ u.snapshot = ui.snapshot /\ u.results = ui.results /\ u.panel = ui.panel /\ u.target = ui.target
        BY <3>3, ScreenFields DEF ends
      <4>2. Screen(ui) /\ (ui.session = None => Blank(ui))
        BY DEF ConsoleInv
      <4> QED
        BY <4>1, <4>2 DEF Screen, Blank
    <3> QED
      BY <3>1, <3>2, <3>3
  <2> QED
    BY <2>1, <2>3, <2>4, NoWaits
<1> QED
  BY <1>1, <1>2

LEMMA LogoutKeeps ==
  ASSUME RowsInv, ConsoleInv, App_onLogout
  PROVE  ConsoleInv'
<1>1. quiet /\ ui' = LoginState /\ DOMAIN waits' = Slots /\ \A c \in Slots : waits'[c] = None
  BY DEF App_onLogout
<1>2. "dashboard" \notin DOMAIN LoginState.loaded
  BY DEF LoginState
<1>3. LoginState.snapshot = None /\ Blank(LoginState)
  BY DEF LoginState, Blank
<1>4. Screen(LoginState)
  BY <1>2, <1>3 DEF Screen
<1> QED
  BY <1>1, <1>3, <1>4, NoWaits

LEMMA LoadKeeps ==
  ASSUME RequestShape, RowsInv, ConsoleInv, NEW c \in Slots, AdminShell_load(c)
  PROVE  ConsoleInv'
<1>1. PICK part \in ui.unasked :
         /\ Call(c, fetchAdminJson("GET", part), [step |-> "load", part |-> part])
         /\ ui' = [ui EXCEPT !.unasked = @ \ {part}]
  BY DEF AdminShell_load
<1>2. ui.session # None /\ quiet
  BY DEF AdminShell_load
<1>3. GoesOn(ui')
  BY <1>1, <1>2, Undisturbed, ScreenFields
<1>4. \A q : q = fresh(fetchAdminJson("GET", part)) => Fit([step |-> "load", part |-> part], q, ui')
  BY Forms, FreshForm DEF OwnForm, Fit
<1> QED
  BY <1>1, <1>2, <1>3, <1>4, Forms, CallKeeps DEF OwnForm

LEMMA Snapshot ==
  ASSUME NEW k, NEW loaded, PageThere(k, loaded["dashboard"].sections)
  PROVE  ShownTo(k, snapshotOf(loaded))
<1>1. "installations" \in Sections /\ "installations" # "auditEvents"
  BY DEF Sections
<1>2. snapshotOf(loaded).lists["installations"] = loaded["dashboard"].sections["installations"].items
  BY <1>1 DEF snapshotOf
<1> QED
  BY <1>2 DEF snapshotOf, PageThere, ShownTo

LEMMA LoadedKeeps ==
  ASSUME RequestShape, RowsInv, ConsoleInv, NEW c \in Slots, AdminShell_loadThen(c)
  PROVE  ConsoleInv'
<1> DEFINE k == ui.credential
<1>1. awaits(c, "load") /\ Receive(c) /\ quiet
  BY DEF AdminShell_loadThen
<1>2. PICK w : w = waits[c]
  OBVIOUS
<1>3. PICK answer \in answersOf(c) :
         ui' = IF ~ok(answer) THEN ui
               ELSE IF DOMAIN withPage(ui.loaded, w.part, answer.value) = Loads
               THEN [ui EXCEPT !.snapshot = snapshotOf(withPage(ui.loaded, w.part, answer.value)), !.loaded = <<>>]
               ELSE [ui EXCEPT !.loaded = withPage(ui.loaded, w.part, answer.value)]
  BY <1>2 DEF AdminShell_loadThen
<1>4. /\ ui.session # None /\ requests[c].route = w.part
      /\ Delivered(k, w.part, answer)
  BY <1>1, <1>2, Awaited DEF Fit, awaits
<1>5. PICK loaded : loaded = withPage(ui.loaded, w.part, answer.value)
  OBVIOUS
<1>6. ASSUME ok(answer), "dashboard" \in DOMAIN loaded
      PROVE  PageThere(k, loaded["dashboard"].sections)
  <2>1. /\ DOMAIN loaded = DOMAIN ui.loaded \cup {w.part}
        /\ loaded["dashboard"] = IF "dashboard" = w.part THEN answer.value ELSE ui.loaded["dashboard"]
    BY <1>5, <1>6 DEF withPage
  <2>2. "dashboard" \in DOMAIN ui.loaded => PageThere(k, ui.loaded["dashboard"].sections)
    BY DEF ConsoleInv, Screen
  <2> QED
    BY <1>4, <1>6, <2>1, <2>2 DEF Delivered
<1>7. CASE ui' = ui
  BY <1>1, <1>4, <1>7, Undisturbed, ReceiveKeeps
<1>8. CASE /\ ok(answer) /\ DOMAIN loaded = Loads
           /\ ui' = [ui EXCEPT !.snapshot = snapshotOf(loaded), !.loaded = <<>>]
  <2>1. PICK u : u = ui'
    OBVIOUS
  <2>2. ShownTo(k, snapshotOf(loaded))
    BY <1>6, <1>8, Snapshot DEF Loads
  <2>3. /\ DOMAIN u = DOMAIN ui /\ u.credential = ui.credential /\ u.session = ui.session
        /\ u.snapshot = snapshotOf(loaded) /\ u.loaded = <<>>
    BY <1>8, <2>1, ScreenFields
  <2>4. "dashboard" \notin DOMAIN u.loaded
    BY <2>3
  <2>5. DOMAIN ui = DOMAIN LoginState
    BY DEF ConsoleInv, Screen
  <2>6. GoesOn(u)
    BY <1>4, <2>2, <2>3, <2>4, <2>5 DEF GoesOn, Screen
  <2> QED
    BY <1>1, <2>1, <2>6, ReceiveKeeps
<1>9. CASE ok(answer) /\ ui' = [ui EXCEPT !.loaded = loaded]
  <2>1. PICK u : u = ui'
    OBVIOUS
  <2>2. /\ DOMAIN u = DOMAIN ui /\ u.credential = ui.credential /\ u.session = ui.session
        /\ u.snapshot = ui.snapshot /\ u.loaded = loaded
    BY <1>9, <2>1, ScreenFields
  <2>3. GoesOn(u)
    BY <1>4, <1>6, <1>9, <2>2 DEF GoesOn, Screen, ConsoleInv
  <2> QED
    BY <1>1, <2>1, <2>3, ReceiveKeeps
<1> QED
  BY <1>3, <1>5, <1>7, <1>8, <1>9

LEMMA Redrawn ==
  ASSUME ConsoleInv, ui.session # None, NEW u, DOMAIN u = DOMAIN ui, u.session = ui.session,
         u.credential = ui.credential, u.loaded = ui.loaded, ShownTo(u.credential, u.snapshot)
  PROVE  GoesOn(u)
<1>1. Screen(ui)
  BY DEF ConsoleInv
<1> QED
  BY <1>1 DEF GoesOn, Screen

LEMMA RefreshKeeps ==
  ASSUME RequestShape, RowsInv, ConsoleInv, NEW c \in Slots, refreshDashboard(c)
  PROVE  ConsoleInv'
<1>1. awaits(c, "refresh") /\ Receive(c) /\ quiet
  BY DEF refreshDashboard
<1> DEFINE ended == ends(waits[c].ending)
           done == IF waits[c].ok
                   THEN [ended EXCEPT !.panel = IF waits[c].ending = "install" THEN None ELSE @,
                                      !.target = IF waits[c].ending = "rollback" THEN None ELSE @]
                   ELSE ended
<1>2. PICK answer \in answersOf(c) :
         IF ok(answer) THEN ui' = [done EXCEPT !.snapshot = preserveAuditSlice(@, answer.value)] ELSE ui' = ended
  BY DEF refreshDashboard
<1>3. ui.session # None /\ requests[c].route = "dashboard" /\ Delivered(ui.credential, "dashboard", answer)
  BY <1>1, Awaited DEF Fit, awaits
<1>4. /\ DOMAIN ended = DOMAIN ui /\ ended.session = ui.session /\ ended.credential = ui.credential
      /\ ended.snapshot = ui.snapshot /\ ended.loaded = ui.loaded
  BY ScreenFields DEF ends
<1>5. CASE ui' = ended
  BY <1>1, <1>3, <1>4, <1>5, Undisturbed, ReceiveKeeps
<1>6. CASE ok(answer) /\ ui' = [done EXCEPT !.snapshot = preserveAuditSlice(@, answer.value)]
  <2>1. /\ DOMAIN done = DOMAIN ui /\ done.session = ui.session /\ done.credential = ui.credential
        /\ done.snapshot = ui.snapshot /\ done.loaded = ui.loaded
    BY <1>4, ScreenFields
  <2> HIDE DEF done, ended
  <2>2. PICK u : u = ui'
    OBVIOUS
  <2>3. /\ DOMAIN u = DOMAIN ui /\ u.session = ui.session /\ u.credential = ui.credential
        /\ u.snapshot = preserveAuditSlice(ui.snapshot, answer.value) /\ u.loaded = ui.loaded
    BY <1>6, <2>1, <2>2, ScreenFields
  <2>4. PageThere(ui.credential, answer.value.sections)
    BY <1>3, <1>6 DEF Delivered
  <2>5. "installations" \in Sections /\ "installations" # "auditEvents"
    BY DEF Sections
  <2>6. ShownTo(u.credential, u.snapshot)
    <3> DEFINE s == preserveAuditSlice(ui.snapshot, answer.value)
    <3>1. DOMAIN s = {"lists", "cursors"} /\ DOMAIN s.lists = Sections
      BY DEF preserveAuditSlice
    <3>2. s.lists["installations"] = answer.value.sections["installations"].items
      BY <2>5 DEF preserveAuditSlice
    <3> QED
      BY <2>3, <2>4, <3>1, <3>2 DEF ShownTo, PageThere
  <2> QED
    BY <1>1, <1>3, <2>2, <2>3, <2>6, Redrawn, ReceiveKeeps
<1> QED
  BY <1>2, <1>5, <1>6

LEMMA MoreKeeps ==
  ASSUME RequestShape, RowsInv, ConsoleInv, NEW c \in Slots, loadMore(c)
  PROVE  ConsoleInv'
<1>1. PICK section \in Sections :
         /\ Call(c, getDashboardSection(section, ui.snapshot.cursors[section]),
                 [step |-> "page", section |-> section])
         /\ ui' = [ui EXCEPT !.loading = section]
  BY DEF loadMore
<1>2. ui.session # None /\ ui.snapshot # None /\ quiet
  BY InSession DEF loadMore
<1>3. GoesOn(ui')
  BY <1>1, <1>2, Undisturbed, ScreenFields
<1>4. PICK form : form = getDashboardSection(section, ui.snapshot.cursors[section])
  OBVIOUS
<1>5. OwnForm(form, section)
  BY <1>4, Forms
<1>6. PICK u : u = ui'
  OBVIOUS
<1>7. ShownTo(u.credential, u.snapshot)
  BY <1>2, <1>3, <1>6 DEF GoesOn, ConsoleInv, Screen
<1>8. \A q : q = fresh(form) => Fit([step |-> "page", section |-> section], q, u)
  BY <1>5, <1>7, FreshForm DEF OwnForm, Fit
<1> QED
  BY <1>1, <1>2, <1>3, <1>4, <1>5, <1>6, <1>8, CallKeeps DEF OwnForm

LEMMA Appended ==
  ASSUME NEW k, NEW list, NEW more, ListKnown(k, list), ListKnown(k, more)
  PROVE  ListKnown(k, list \o more)
<1>1. PICK a : list \in Seq(a) /\ \A s \in a : RowKnown(k, s)
  BY DEF ListKnown
<1>2. PICK b : more \in Seq(b) /\ \A s \in b : RowKnown(k, s)
  BY DEF ListKnown
<1>3. list \in Seq(a \cup b) /\ more \in Seq(a \cup b)
  BY <1>1, <1>2
<1>4. list \o more \in Seq(a \cup b)
  BY <1>3
<1> QED
  BY <1>1, <1>2, <1>4 DEF ListKnown

LEMMA PageAppended ==
  ASSUME NEW k, NEW snapshot, ShownTo(k, snapshot), NEW section \in Sections, NEW page,
         section = "installations" => ListKnown(k, page.items)
  PROVE  ShownTo(k, appendPage(snapshot, section, page))
<1> DEFINE s == appendPage(snapshot, section, page)
<1>1. DOMAIN s = {"lists", "cursors"} /\ DOMAIN s.lists = Sections
  BY DEF appendPage, ShownTo
<1>2. s.lists["installations"] = IF section = "installations"
                                 THEN snapshot.lists["installations"] \o page.items
                                 ELSE snapshot.lists["installations"]
  BY DEF appendPage, ShownTo, Sections
<1> QED
  BY <1>1, <1>2, Appended DEF ShownTo

LEMMA PageKeeps ==
  ASSUME RequestShape, RowsInv, ConsoleInv, NEW c \in Slots, loadMore_then(c)
  PROVE  ConsoleInv'
<1>1. awaits(c, "page") /\ Receive(c) /\ quiet
  BY DEF loadMore_then
<1>2. PICK w : w = waits[c]
  OBVIOUS
<1>3. PICK answer \in answersOf(c) :
         ui' = [ui EXCEPT !.loading = None,
                  !.snapshot = IF ok(answer) THEN appendPage(@, w.section, answer.value) ELSE @]
  BY <1>2 DEF loadMore_then
<1>4. /\ ui.session # None /\ requests[c].route = w.section /\ w.section \in Sections
      /\ ShownTo(ui.credential, ui.snapshot)
      /\ Delivered(ui.credential, w.section, answer)
  BY <1>1, <1>2, Awaited DEF Fit, awaits
<1>5. PICK u : u = ui'
  OBVIOUS
<1>6. /\ DOMAIN u = DOMAIN ui /\ u.session = ui.session /\ u.credential = ui.credential
      /\ u.snapshot = (IF ok(answer) THEN appendPage(ui.snapshot, w.section, answer.value) ELSE ui.snapshot)
      /\ u.loaded = ui.loaded
  BY <1>3, <1>5, ScreenFields
<1>7. CASE ~ok(answer)
  BY <1>1, <1>4, <1>5, <1>6, <1>7, Undisturbed, ReceiveKeeps
<1>8. CASE ok(answer)
  <2>1. ShownTo(u.credential, u.snapshot)
    BY <1>4, <1>6, <1>8, PageAppended DEF Delivered
  <2> QED
    BY <1>1, <1>4, <1>5, <1>6, <2>1, Redrawn, ReceiveKeeps
<1> QED
  BY <1>7, <1>8

(***************************************************************************)
(* What does not touch the snapshot.                                       *)
(***************************************************************************)
LEMMA AsksKeep ==
  ASSUME RequestShape, RowsInv, ConsoleInv, NEW c \in Slots, quiet, ui.session # None,
         NEW form, NEW route, OwnForm(form, route), NEW then, then.step \in PlainSteps,
         Call(c, form, then), DOMAIN ui' = DOMAIN ui, ui'.session = ui.session,
         ui'.credential = ui.credential, ui'.snapshot = ui.snapshot, ui'.loaded = ui.loaded
  PROVE  ConsoleInv'
<1>1. PICK u : u = ui'
  OBVIOUS
<1>2. GoesOn(u)
  BY <1>1, Undisturbed
<1> QED
  BY <1>1, <1>2, PlainFits, CallKeeps DEF OwnForm

LEMMA AnswersKeep ==
  ASSUME RequestShape, RowsInv, ConsoleInv, NEW c \in Slots, quiet, NEW step, awaits(c, step), step # "login",
         Receive(c), DOMAIN ui' = DOMAIN ui, ui'.session = ui.session,
         ui'.credential = ui.credential, ui'.snapshot = ui.snapshot, ui'.loaded = ui.loaded
  PROVE  ConsoleInv'
<1>1. PICK u : u = ui'
  OBVIOUS
<1>2. ui.session # None
  BY Awaited
<1>3. GoesOn(u)
  BY <1>1, <1>2, Undisturbed
<1> QED
  BY <1>1, <1>3, ReceiveKeeps

LEMMA PanelsKeep ==
  ASSUME RequestShape, RowsInv, ConsoleInv, NEW c \in Slots,
         openPermissionReview(c) \/ openPermissionReview_then(c) \/ ExecutionsPanel_openDetail(c)
         \/ ExecutionsPanel_openDetailThen(c)
  PROVE  ConsoleInv'
<1>1. CASE openPermissionReview(c)
  <2>1. ui.snapshot # None /\ quiet
    BY <1>1 DEF openPermissionReview, InstallationsPanel
  <2>2. PICK row : /\ Call(c, getInstallationPermissionReview(row.id),
                           [step |-> "review", n |-> ui.latest.review + 1])
                   /\ ui' = [ui EXCEPT !.latest.review = @ + 1, !.reviewed = row.id, !.review = None]
    BY <1>1 DEF openPermissionReview
  <2>3. PICK then : then = [step |-> "review", n |-> ui.latest.review + 1]
    OBVIOUS
  <2>4. then.step \in PlainSteps
    BY <2>3 DEF PlainSteps
  <2>5. /\ DOMAIN ui' = DOMAIN ui /\ ui'.session = ui.session /\ ui'.credential = ui.credential
        /\ ui'.snapshot = ui.snapshot /\ ui'.loaded = ui.loaded
    BY <2>2, ScreenFields
  <2> QED
    BY <2>1, <2>2, <2>3, <2>4, <2>5, InSession, Forms, AsksKeep
<1>2. CASE openPermissionReview_then(c)
  <2>1. /\ DOMAIN ui' = DOMAIN ui /\ ui'.session = ui.session /\ ui'.credential = ui.credential
        /\ ui'.snapshot = ui.snapshot /\ ui'.loaded = ui.loaded
    BY <1>2, ScreenFields DEF openPermissionReview_then
  <2> QED
    BY <1>2, <2>1, AnswersKeep DEF openPermissionReview_then
<1>3. CASE ExecutionsPanel_openDetail(c)
  <2>1. ui.snapshot # None /\ quiet
    BY <1>3 DEF ExecutionsPanel_openDetail
  <2>2. PICK row : /\ Call(c, getExecutionDetail(row.id), [step |-> "detail", n |-> ui.latest.detail + 1])
                   /\ ui' = [ui EXCEPT !.latest.detail = @ + 1, !.detail = None]
    BY <1>3 DEF ExecutionsPanel_openDetail
  <2>3. PICK then : then = [step |-> "detail", n |-> ui.latest.detail + 1]
    OBVIOUS
  <2>4. then.step \in PlainSteps
    BY <2>3 DEF PlainSteps
  <2>5. /\ DOMAIN ui' = DOMAIN ui /\ ui'.session = ui.session /\ ui'.credential = ui.credential
        /\ ui'.snapshot = ui.snapshot /\ ui'.loaded = ui.loaded
    BY <2>2, ScreenFields
  <2> QED
    BY <2>1, <2>2, <2>3, <2>4, <2>5, InSession, Forms, AsksKeep
<1>4. CASE ExecutionsPanel_openDetailThen(c)
  <2>1. /\ DOMAIN ui' = DOMAIN ui /\ ui'.session = ui.session /\ ui'.credential = ui.credential
        /\ ui'.snapshot = ui.snapshot /\ ui'.loaded = ui.loaded
    BY <1>4, ScreenFields DEF ExecutionsPanel_openDetailThen
  <2> QED
    BY <1>4, <2>1, AnswersKeep DEF ExecutionsPanel_openDetailThen
<1> QED
  BY <1>1, <1>2, <1>3, <1>4

LEMMA SearchKeeps ==
  ASSUME RequestShape, RowsInv, ConsoleInv, NEW c \in Slots,
         submitSearch(c) \/ ExecutionsPanel_loadMore(c) \/ ExecutionsPanel_found(c)
  PROVE  ConsoleInv'
<1>1. ASSUME NEW filters, NEW cursor, NEW append, runSearch(c, filters, cursor, append), quiet, ui.session # None,
             DOMAIN ui' = DOMAIN ui, ui'.session = ui.session, ui'.credential = ui.credential,
             ui'.snapshot = ui.snapshot, ui'.loaded = ui.loaded
      PROVE  ConsoleInv'
  <2>1. PICK then : then = [step |-> "search", filters |-> filters, append |-> append]
    OBVIOUS
  <2>2. then.step \in PlainSteps
    BY <2>1 DEF PlainSteps
  <2>3. Call(c, searchExecutions(filters, cursor), then)
    BY <1>1, <2>1 DEF runSearch
  <2> QED
    BY <1>1, <2>2, <2>3, Forms, AsksKeep
<1>2. CASE submitSearch(c)
  <2>1. ui.snapshot # None /\ quiet
    BY <1>2 DEF submitSearch
  <2>2. PICK filters : /\ runSearch(c, filters, None, FALSE)
                       /\ ui' = [ui EXCEPT !.busy = @ \cup {"search"}, !.filters = filters, !.detail = None]
    BY <1>2 DEF submitSearch
  <2>3. /\ DOMAIN ui' = DOMAIN ui /\ ui'.session = ui.session /\ ui'.credential = ui.credential
        /\ ui'.snapshot = ui.snapshot /\ ui'.loaded = ui.loaded
    BY <2>2, ScreenFields
  <2> QED
    BY <1>1, <2>1, <2>2, <2>3, InSession
<1>3. CASE ExecutionsPanel_loadMore(c)
  <2>1. ui.results # None /\ quiet /\ runSearch(c, ui.filters, ui.more, TRUE)
    BY <1>3 DEF ExecutionsPanel_loadMore
  <2>2. /\ DOMAIN ui' = DOMAIN ui /\ ui'.session = ui.session /\ ui'.credential = ui.credential
        /\ ui'.snapshot = ui.snapshot /\ ui'.loaded = ui.loaded
    BY <1>3, ScreenFields DEF ExecutionsPanel_loadMore, begin
  <2> QED
    BY <1>1, <2>1, <2>2, InSession
<1>4. CASE ExecutionsPanel_found(c)
  <2>1. \/ ui' = ends("search")
        \/ \E more, results, searched :
              ui' = [ends("search") EXCEPT !.more = more, !.results = results, !.searched = searched]
    BY <1>4 DEF ExecutionsPanel_found
  <2>2. /\ DOMAIN ui' = DOMAIN ui /\ ui'.session = ui.session /\ ui'.credential = ui.credential
        /\ ui'.snapshot = ui.snapshot /\ ui'.loaded = ui.loaded
    BY <2>1, ScreenFields DEF ends
  <2> QED
    BY <1>4, <2>2, AnswersKeep DEF ExecutionsPanel_found
<1> QED
  BY <1>2, <1>3, <1>4

(***************************************************************************)
(* Commands.                                                               *)
(***************************************************************************)
LEMMA SeqItems ==
  ASSUME NEW S, NEW list \in Seq(S)
  PROVE  Len(list) \in Nat /\ DOMAIN list = 1..Len(list) /\ \A i \in 1..Len(list) : list[i] \in S
OBVIOUS

LEMMA ItemsSeq ==
  ASSUME NEW S, NEW n \in Nat, NEW list \in [1..n -> S]
  PROVE  list \in Seq(S)
OBVIOUS

LEMMA Replaced ==
  ASSUME NEW k, NEW list, ListKnown(k, list), NEW updated, RowKnown(k, updated),
         NEW new, new = [i \in DOMAIN list |->
                           IF list[i].id # updated.id THEN list[i]
                           ELSE [list[i] EXCEPT !.state = updated.state, !.priority = updated.priority,
                                                !.revision = updated.revision]]
  PROVE  ListKnown(k, new)
<1> DEFINE next(s) == [s EXCEPT !.state = updated.state, !.priority = updated.priority,
                                !.revision = updated.revision]
<1>1. PICK known : list \in Seq(known) /\ \A s \in known : RowKnown(k, s)
  BY DEF ListKnown
<1>2. PICK app : BelongsTo(k, app) /\ Seen(home(app), updated)
  BY DEF RowKnown
<1>3. ASSUME NEW s \in known, s.id = updated.id
      PROVE  RowKnown(k, next(s))
  <2>1. {"id", "state", "priority", "revision"} \subseteq DOMAIN s
    BY <1>1 DEF RowKnown, Seen
  <2>2. /\ DOMAIN next(s) = DOMAIN s /\ next(s).id = updated.id /\ next(s).state = updated.state
        /\ next(s).priority = updated.priority /\ next(s).revision = updated.revision
    BY <1>3, <2>1
  <2>3. PICK t : t = next(s)
    OBVIOUS
  <2> HIDE DEF next
  <2>4. Seen(home(app), t)
    BY <1>2, <2>1, <2>2, <2>3 DEF Seen
  <2> QED
    BY <1>2, <2>3, <2>4 DEF RowKnown
<1> DEFINE all == known \cup {next(s) : s \in {x \in known : x.id = updated.id}}
<1>4. new = [i \in DOMAIN list |-> IF list[i].id # updated.id THEN list[i] ELSE next(list[i])]
  OBVIOUS
<1> HIDE DEF next
<1>5. \A s \in all : RowKnown(k, s)
  BY <1>1, <1>3
<1>6. Len(list) \in Nat /\ DOMAIN list = 1..Len(list) /\ \A i \in 1..Len(list) : list[i] \in known
  BY <1>1, SeqItems
<1>7. \A i \in 1..Len(list) : new[i] \in all
  BY <1>4, <1>6
<1>8. new \in [1..Len(list) -> all]
  BY <1>4, <1>6, <1>7
<1> HIDE DEF all
<1>9. new \in Seq(all)
  BY <1>6, <1>8, ItemsSeq
<1> QED
  BY <1>5, <1>9 DEF ListKnown

LEMMA CommandKeeps ==
  ASSUME RequestShape, RowsInv, ConsoleInv, NEW c \in Slots, InstallationCommandPanel(c)
  PROVE  ConsoleInv'
<1>1. InstallationsPanel # {} /\ quiet /\ ui' = [ui EXCEPT !.busy = @ \cup {"command"}]
  BY DEF InstallationCommandPanel, begin
<1>2. ui.snapshot # None /\ ui.session # None
  BY <1>1, InSession DEF InstallationsPanel
<1>3. PICK row, new :
         /\ row \in InstallationsPanel
         /\ new.id = row.id /\ new.expected = row.revision
         /\ Call(c, updateInstallationCommand(new), [step |-> "command", shown |-> row])
  BY DEF InstallationCommandPanel
<1>4. PICK u : u = ui'
  OBVIOUS
<1>5. GoesOn(u)
  BY <1>1, <1>2, <1>4, Undisturbed, ScreenFields
<1>6. ShownTo(ui.credential, ui.snapshot) /\ ShownTo(u.credential, u.snapshot) /\ u.credential = ui.credential
  BY <1>2, <1>5 DEF GoesOn, ConsoleInv, Screen
<1>7. RowKnown(u.credential, row)
  <2>1. PICK list : list = ui.snapshot.lists["installations"]
    OBVIOUS
  <2>2. PICK known : list \in Seq(known) /\ \A s \in known : RowKnown(u.credential, s)
    BY <1>6, <2>1 DEF ShownTo, ListKnown
  <2>3. PICK i \in DOMAIN list : row = list[i]
    BY <1>2, <1>3, <2>1 DEF InstallationsPanel, shown
  <2>4. DOMAIN list = 1..Len(list) /\ \A j \in 1..Len(list) : list[j] \in known
    BY <2>2
  <2> QED
    BY <2>2, <2>3, <2>4
<1>8. PICK form : form = updateInstallationCommand(new)
  OBVIOUS
<1>9. OwnForm(form, "installationCommand") /\ form.command = new
  BY <1>8, Forms
<1>10. PICK then : then = [step |-> "command", shown |-> row]
  OBVIOUS
<1>11. then.step = "command" /\ then.shown = row
  BY <1>10
<1>12. \A q : q = fresh(form) => Fit(then, q, u)
  BY <1>3, <1>6, <1>7, <1>9, <1>11, FreshForm DEF OwnForm, Fit
<1>13. Call(c, form, then)
  BY <1>3, <1>8, <1>10
<1> QED
  BY <1>1, <1>4, <1>5, <1>9, <1>11, <1>12, <1>13, CallKeeps DEF OwnForm

(***************************************************************************)
(* The refresh that follows an answer.                                     *)
(***************************************************************************)
LEMMA RefreshAsked ==
  ASSUME RequestShape, RowsInv, ConsoleInv, NEW c \in Slots, quiet, ui.session # None,
         NEW ending, NEW success, CallAgain(c, getDashboard, refreshing(ending, success)),
         DOMAIN ui' = DOMAIN ui, ui'.session = ui.session,
         ui'.credential = ui.credential, ui'.snapshot = ui.snapshot, ui'.loaded = ui.loaded
  PROVE  ConsoleInv'
<1>1. PICK u : u = ui'
  OBVIOUS
<1>2. GoesOn(u)
  BY <1>1, Undisturbed
<1>3. PICK form, then : form = getDashboard /\ then = refreshing(ending, success)
  OBVIOUS
<1>4. OwnForm(form, "dashboard") /\ then.step = "refresh"
  BY <1>3, Forms DEF getDashboard, refreshing
<1>5. \A q : q = fresh(form) => Fit(then, q, u)
  BY <1>4, FreshForm DEF OwnForm, Fit
<1> QED
  BY <1>1, <1>2, <1>3, <1>4, <1>5, CallKeeps DEF OwnForm

LEMMA UpdateShown ==
  ASSUME NEW k, NEW snapshot, ShownTo(k, snapshot), NEW updated, RowKnown(k, updated)
  PROVE  ShownTo(k, withUpdated(snapshot, updated))
<1> DEFINE list == snapshot.lists["installations"]
           new == [i \in DOMAIN list |->
                     IF list[i].id # updated.id THEN list[i]
                     ELSE [list[i] EXCEPT !.state = updated.state, !.priority = updated.priority,
                                          !.revision = updated.revision]]
           s == withUpdated(snapshot, updated)
<1>1. ListKnown(k, new)
  BY Replaced DEF ShownTo
<1>2. s = [snapshot EXCEPT !.lists["installations"] = new]
  BY DEF withUpdated
<1> HIDE DEF new, s
<1>3. DOMAIN s = {"lists", "cursors"} /\ DOMAIN s.lists = Sections /\ s.lists["installations"] = new
  BY <1>2 DEF ShownTo, Sections
<1> QED
  BY <1>1, <1>3 DEF ShownTo, s

LEMMA UpdateKeeps ==
  ASSUME RequestShape, RowsInv, ConsoleInv, NEW c \in Slots, updateInstallation_then(c)
  PROVE  ConsoleInv'
<1>1. awaits(c, "command") /\ quiet
  BY DEF updateInstallation_then
<1>2. PICK answer \in answersOf(c) :
         \/ CallAgain(c, getDashboard, refreshing("command", FALSE)) /\ UNCHANGED ui
         \/ Receive(c) /\ ui' = ends("command")
         \/ Receive(c) /\ ok(answer) /\ ui' = [ends("command") EXCEPT !.snapshot = withUpdated(@, answer.value)]
  BY DEF updateInstallation_then
<1>3. /\ ui.session # None /\ requests[c].route = "installationCommand"
      /\ ShownTo(ui.credential, ui.snapshot)
      /\ Delivered(ui.credential, "installationCommand", answer)
  BY <1>1, Awaited DEF Fit, awaits
<1>4. CASE CallAgain(c, getDashboard, refreshing("command", FALSE)) /\ UNCHANGED ui
  BY <1>1, <1>3, <1>4, RefreshAsked
<1>5. CASE Receive(c) /\ ui' = ends("command")
  <2>1. /\ DOMAIN ui' = DOMAIN ui /\ ui'.session = ui.session /\ ui'.credential = ui.credential
        /\ ui'.snapshot = ui.snapshot /\ ui'.loaded = ui.loaded
    BY <1>5, ScreenFields DEF ends
  <2> QED
    BY <1>1, <1>5, <2>1, AnswersKeep
<1>6. CASE Receive(c) /\ ok(answer) /\ ui' = [ends("command") EXCEPT !.snapshot = withUpdated(@, answer.value)]
  <2>1. PICK u : u = ui'
    OBVIOUS
  <2>2. /\ DOMAIN u = DOMAIN ui /\ u.session = ui.session /\ u.credential = ui.credential
        /\ u.snapshot = withUpdated(ui.snapshot, answer.value) /\ u.loaded = ui.loaded
    BY <1>6, <2>1, ScreenFields DEF ends
  <2>3. ShownTo(u.credential, u.snapshot)
    BY <1>3, <1>6, <2>2, UpdateShown DEF Delivered
  <2> QED
    BY <1>1, <1>3, <1>6, <2>1, <2>2, <2>3, Redrawn, ReceiveKeeps
<1> QED
  BY <1>2, <1>4, <1>5, <1>6

LEMMA PreviewKeeps ==
  ASSUME RequestShape, RowsInv, ConsoleInv, NEW c \in Slots, openInstallPreview(c) \/ openInstallPreview_then(c)
  PROVE  ConsoleInv'
<1>1. CASE openInstallPreview(c)
  <2>1. ui.snapshot # None /\ quiet /\ ui' = [ui EXCEPT !.busy = @ \cup {"preview"}, !.panel = None]
    BY <1>1 DEF openInstallPreview
  <2>2. PICK version : Call(c, getInstallPreview(version), [step |-> "preview", version |-> version])
    BY <1>1 DEF openInstallPreview
  <2>3. PICK then : then = [step |-> "preview", version |-> version]
    OBVIOUS
  <2>4. then.step \in PlainSteps
    BY <2>3 DEF PlainSteps
  <2>5. /\ DOMAIN ui' = DOMAIN ui /\ ui'.session = ui.session /\ ui'.credential = ui.credential
        /\ ui'.snapshot = ui.snapshot /\ ui'.loaded = ui.loaded
    BY <2>1, ScreenFields
  <2> QED
    BY <2>1, <2>2, <2>3, <2>4, <2>5, InSession, Forms, AsksKeep
<1>2. CASE openInstallPreview_then(c)
  <2>1. ui' = ends("preview") \/ \E panel : ui' = [ends("preview") EXCEPT !.panel = panel]
    BY <1>2 DEF openInstallPreview_then
  <2>2. /\ DOMAIN ui' = DOMAIN ui /\ ui'.session = ui.session /\ ui'.credential = ui.credential
        /\ ui'.snapshot = ui.snapshot /\ ui'.loaded = ui.loaded
    BY <2>1, ScreenFields DEF ends
  <2> QED
    BY <1>2, <2>2, AnswersKeep DEF openInstallPreview_then
<1> QED
  BY <1>1, <1>2

LEMMA InstallKeeps ==
  ASSUME RequestShape, RowsInv, ConsoleInv, NEW c \in Slots,
         InstallFlowPanel_confirm(c) \/ installPlugin(c) \/ requestInstallation_then(c)
  PROVE  ConsoleInv'
<1>1. CASE InstallFlowPanel_confirm(c)
  <2>1. ui.panel # None /\ quiet /\ ui' = [ui EXCEPT !.busy = @ \cup {"install"}]
    BY <1>1 DEF InstallFlowPanel_confirm, begin
  <2>2. PICK command : \/ Call(c, installPlugin_call(command, ui.panel.key), [step |-> "install"])
                       \/ Call(c, requestInstallation_call(command, ui.panel.key), [step |-> "request"])
    BY <1>1 DEF InstallFlowPanel_confirm
  <2>3. /\ DOMAIN ui' = DOMAIN ui /\ ui'.session = ui.session /\ ui'.credential = ui.credential
        /\ ui'.snapshot = ui.snapshot /\ ui'.loaded = ui.loaded
    BY <2>1, ScreenFields
  <2>4. [step |-> "install"].step \in PlainSteps /\ [step |-> "request"].step \in PlainSteps
    BY DEF PlainSteps
  <2>5. ui.session # None
    BY <2>1, InSession
  <2>6. CASE Call(c, installPlugin_call(command, ui.panel.key), [step |-> "install"])
    <3>1. OwnForm(installPlugin_call(command, ui.panel.key), "installCreate")
      BY Forms
    <3> QED
      BY <2>1, <2>3, <2>4, <2>5, <2>6, <3>1, AsksKeep
  <2>7. CASE Call(c, requestInstallation_call(command, ui.panel.key), [step |-> "request"])
    <3>1. OwnForm(requestInstallation_call(command, ui.panel.key), "installRequestCreate")
      BY Forms
    <3> QED
      BY <2>1, <2>3, <2>4, <2>5, <2>7, <3>1, AsksKeep
  <2> QED
    BY <2>2, <2>6, <2>7
<1>2. CASE installPlugin(c)
  <2>1. awaits(c, "install") /\ quiet /\ ui.session # None
    BY <1>2, Awaited DEF installPlugin
  <2>2. CASE CallAgain(c, getDashboard, refreshing("install", TRUE)) /\ UNCHANGED ui
    BY <2>1, <2>2, RefreshAsked
  <2>3. CASE Receive(c) /\ ui' = ends("install")
    <3>1. /\ DOMAIN ui' = DOMAIN ui /\ ui'.session = ui.session /\ ui'.credential = ui.credential
          /\ ui'.snapshot = ui.snapshot /\ ui'.loaded = ui.loaded
      BY <2>3, ScreenFields DEF ends
    <3> QED
      BY <2>1, <2>3, <3>1, AnswersKeep
  <2> QED
    BY <1>2, <2>2, <2>3 DEF installPlugin
<1>3. CASE requestInstallation_then(c)
  <2>1. awaits(c, "request") /\ quiet /\ ui.session # None /\ ui' = ends("install")
    BY <1>3, Awaited DEF requestInstallation_then
  <2>2. /\ DOMAIN ui' = DOMAIN ui /\ ui'.session = ui.session /\ ui'.credential = ui.credential
        /\ ui'.snapshot = ui.snapshot /\ ui'.loaded = ui.loaded
    BY <2>1, ScreenFields DEF ends
  <2> QED
    BY <1>3, <2>1, <2>2, RefreshAsked, AnswersKeep DEF requestInstallation_then
<1> QED
  BY <1>1, <1>2, <1>3

LEMMA RollbackKeeps ==
  ASSUME RequestShape, RowsInv, ConsoleInv, NEW c \in Slots, confirmRollback(c) \/ rollbackInstallation_then(c)
  PROVE  ConsoleInv'
<1>1. CASE confirmRollback(c)
  <2>1. ui.target # None /\ quiet /\ ui' = [ui EXCEPT !.busy = @ \cup {"rollback"}]
    BY <1>1 DEF confirmRollback, begin
  <2>2. PICK command : Call(c, rollbackInstallation_call(command, ui.target.key), [step |-> "rollback"])
    BY <1>1 DEF confirmRollback
  <2>3. /\ DOMAIN ui' = DOMAIN ui /\ ui'.session = ui.session /\ ui'.credential = ui.credential
        /\ ui'.snapshot = ui.snapshot /\ ui'.loaded = ui.loaded
    BY <2>1, ScreenFields
  <2>4. [step |-> "rollback"].step \in PlainSteps
    BY DEF PlainSteps
  <2>5. OwnForm(rollbackInstallation_call(command, ui.target.key), "rollbackCreate")
    BY Forms
  <2>6. ui.session # None
    BY <2>1, InSession
  <2> QED
    BY <2>1, <2>2, <2>3, <2>4, <2>5, <2>6, AsksKeep
<1>2. CASE rollbackInstallation_then(c)
  <2>1. awaits(c, "rollback") /\ quiet /\ ui.session # None
    BY <1>2, Awaited DEF rollbackInstallation_then
  <2>2. \/ \E success : CallAgain(c, getDashboard, refreshing("rollback", success)) /\ UNCHANGED ui
        \/ Receive(c) /\ ui' = ends("rollback")
    BY <1>2 DEF rollbackInstallation_then
  <2>3. CASE \E success : CallAgain(c, getDashboard, refreshing("rollback", success)) /\ UNCHANGED ui
    BY <2>1, <2>3, RefreshAsked
  <2>4. CASE Receive(c) /\ ui' = ends("rollback")
    <3>1. /\ DOMAIN ui' = DOMAIN ui /\ ui'.session = ui.session /\ ui'.credential = ui.credential
          /\ ui'.snapshot = ui.snapshot /\ ui'.loaded = ui.loaded
      BY <2>4, ScreenFields DEF ends
    <3> QED
      BY <2>1, <2>4, <3>1, AnswersKeep
  <2> QED
    BY <2>2, <2>3, <2>4
<1> QED
  BY <1>1, <1>2

LEMMA DecisionShown ==
  ASSUME NEW k, NEW snapshot, ShownTo(k, snapshot), NEW decided
  PROVE  ShownTo(k, withDecided(snapshot, decided))
<1>1. PICK list : withDecided(snapshot, decided) = [snapshot EXCEPT !.lists["approvals"] = list]
  BY DEF withDecided
<1>2. PICK s : s = withDecided(snapshot, decided)
  OBVIOUS
<1>3. /\ DOMAIN s = {"lists", "cursors"} /\ DOMAIN s.lists = Sections
      /\ s.lists["installations"] = snapshot.lists["installations"]
  BY <1>1, <1>2 DEF ShownTo, Sections
<1> QED
  BY <1>2, <1>3 DEF ShownTo

LEMMA DecisionKeeps ==
  ASSUME RequestShape, RowsInv, ConsoleInv, NEW c \in Slots,
         ApprovalsPanel_confirmDecision(c) \/ decideApproval_then(c)
  PROVE  ConsoleInv'
<1>1. CASE ApprovalsPanel_confirmDecision(c)
  <2>1. ui.snapshot # None /\ quiet /\ ui' = [ui EXCEPT !.busy = @ \cup {"decision"}]
    BY <1>1 DEF ApprovalsPanel_confirmDecision, begin
  <2>2. PICK command : Call(c, decideApproval_call(command), [step |-> "decision"])
    BY <1>1 DEF ApprovalsPanel_confirmDecision
  <2>3. PICK u : u = ui'
    OBVIOUS
  <2>4. GoesOn(u)
    BY <2>1, <2>3, InSession, Undisturbed, ScreenFields
  <2>5. ShownTo(u.credential, u.snapshot)
    BY <2>1, <2>4 DEF GoesOn, ConsoleInv, Screen
  <2>6. \A q : Fit([step |-> "decision"], q, u)
    BY <2>5 DEF Fit
  <2>7. OwnForm(decideApproval_call(command), "approvalDecisionCreate")
    BY Forms
  <2> QED
    BY <2>1, <2>2, <2>3, <2>4, <2>6, <2>7, CallKeeps DEF OwnForm
<1>2. CASE decideApproval_then(c)
  <2>1. awaits(c, "decision") /\ quiet /\ ui.session # None /\ ShownTo(ui.credential, ui.snapshot)
    BY <1>2, Awaited DEF decideApproval_then, Fit, awaits
  <2>2. \/ CallAgain(c, getDashboard, refreshing("none", TRUE)) /\ ui' = ends("decision")
        \/ Receive(c) /\ ui' = ends("decision")
        \/ \E value : Receive(c) /\ ui' = [ends("decision") EXCEPT !.snapshot = withDecided(@, value)]
    BY <1>2 DEF decideApproval_then
  <2>3. ASSUME ui' = ends("decision")
        PROVE  /\ DOMAIN ui' = DOMAIN ui /\ ui'.session = ui.session /\ ui'.credential = ui.credential
               /\ ui'.snapshot = ui.snapshot /\ ui'.loaded = ui.loaded
    BY <2>3, ScreenFields DEF ends
  <2>4. CASE CallAgain(c, getDashboard, refreshing("none", TRUE)) /\ ui' = ends("decision")
    BY <2>1, <2>3, <2>4, RefreshAsked
  <2>5. CASE Receive(c) /\ ui' = ends("decision")
    BY <2>1, <2>3, <2>5, AnswersKeep
  <2>6. ASSUME NEW value, Receive(c), ui' = [ends("decision") EXCEPT !.snapshot = withDecided(@, value)]
        PROVE  ConsoleInv'
    <3>1. PICK u : u = ui'
      OBVIOUS
    <3>2. /\ DOMAIN u = DOMAIN ui /\ u.session = ui.session /\ u.credential = ui.credential
          /\ u.snapshot = withDecided(ui.snapshot, value) /\ u.loaded = ui.loaded
      BY <2>6, <3>1, ScreenFields DEF ends
    <3>3. ShownTo(u.credential, u.snapshot)
      BY <2>1, <3>2, DecisionShown
    <3> QED
      BY <2>1, <2>6, <3>1, <3>2, <3>3, Redrawn, ReceiveKeeps
  <2> QED
    BY <2>2, <2>4, <2>5, <2>6
<1> QED
  BY <1>1, <1>2

LEMMA Bystands ==
  ASSUME RowsInv, RowsInv', RowsGrow, TokensGrow, UNCHANGED deployment, ConsoleInv, UNCHANGED waits,
         \A c \in Slots : waits[c] # None => requests'[c] = requests[c],
         NEW u, u = ui', u = ui \/ GoesOn(u)
  PROVE  ConsoleInv'
<1>1. Screen(u) /\ (u.session = None => Blank(u))
  BY DEF ConsoleInv, GoesOn
<1>2. Screen(u)'
  BY <1>1, ScreenStays
<1>3. ASSUME NEW d \in Slots, NEW w, NEW q, w = waits'[d], q = requests'[d], w # None, w.step # "login"
      PROVE  WaitInv(w, q, u)'
  <2>1. PICK old : old = ui
    OBVIOUS
  <2>2. WaitInv(w, q, old)
    BY <1>3, <2>1 DEF ConsoleInv, Waiting
  <2>3. WaitInv(w, q, u)
    BY <2>1, <2>2 DEF WaitInv, Fit, GoesOn
  <2> QED
    BY <2>3, ScreenStays
<1>4. ASSUME NEW d \in Slots
      PROVE  Waiting(d)'
  <2>1. waits'[d] # None /\ waits'[d].step = "login" => Alone(d)'
    BY DEF ConsoleInv, Waiting, Alone, GoesOn
  <2> QED
    BY <1>3, <2>1 DEF Waiting
<1> QED
  BY <1>1, <1>2, <1>4 DEF ConsoleInv

LEMMA VersionsKeep ==
  ASSUME RowsInv, ConsoleInv, VersionsPanel_rollback \/ VersionsPanel_cancel
  PROVE  ConsoleInv'
<1>1. /\ ui.snapshot # None \/ ui.target # None
      /\ \E target : ui' = [ui EXCEPT !.target = target]
      /\ quiet /\ UNCHANGED <<requests, waits>>
  BY DEF VersionsPanel_rollback, VersionsPanel_cancel
<1>2. PICK u : u = ui'
  OBVIOUS
<1>3. GoesOn(u)
  BY <1>1, <1>2, InSession, Undisturbed, ScreenFields
<1> QED
  BY <1>1, <1>2, <1>3, QuietStays, Bystands

LEMMA OthersKeep ==
  ASSUME RequestShape, RowsInv, ConsoleInv, NEW c \in Slots, Ask(c) \/ Answered(c)
  PROVE  ConsoleInv'
<1>1. waits[c] = None /\ quiet /\ UNCHANGED <<ui, waits>>
  BY DEF Ask, Answered
<1>2. \A d \in Slots \ {c} : requests'[d] = requests[d]
  BY DEF Ask, Answered, Send, RequestShape
<1>3. PICK u : u = ui'
  OBVIOUS
<1> QED
  BY <1>1, <1>2, <1>3, QuietStays, Bystands

LEMMA NextKeepsConsole ==
  ASSUME RequestShape, AuthInv, RowsInv, ConsoleInv, [Next]_vars
  PROVE  ConsoleInv'
<1>0. RowsInv' /\ RowsGrow /\ TokensGrow /\ UNCHANGED deployment
  BY NextGrows, NextTokens
<1>1. ASSUME NEW c \in Slots, Signing(c)
      PROVE  ConsoleInv'
  BY <1>1, LoginKeeps, LoadKeeps, LoadedKeeps DEF Signing
<1>2. ASSUME NEW c \in Slots, Browsing(c)
      PROVE  ConsoleInv'
  BY <1>2, RefreshKeeps, MoreKeeps, PageKeeps, PanelsKeep, SearchKeeps DEF Browsing
<1>3. ASSUME NEW c \in Slots, Administering(c)
      PROVE  ConsoleInv'
  BY <1>3, CommandKeeps, UpdateKeeps, PreviewKeeps, InstallKeeps, RollbackKeeps, DecisionKeeps DEF Administering
<1>4. ASSUME NEW c \in Slots, Worker(c)
      PROVE  ConsoleInv'
  BY <1>0, <1>4, ServeKeepsConsole DEF Worker
<1>5. ASSUME UNCHANGED <<requests, waits, ui>>
      PROVE  ConsoleInv'
  <2>1. PICK u : u = ui'
    OBVIOUS
  <2> QED
    BY <1>0, <1>5, <2>1, Bystands
<1>6. CASE RecordExecution \/ OtherAdministrator \/ Tick \/ UNCHANGED vars
  BY <1>5, <1>6 DEF RecordExecution, OtherAdministrator, Tick, elsewhere, vars, api, console
<1>7. CASE Next
  BY <1>1, <1>2, <1>3, <1>4, <1>6, <1>7, LogoutKeeps, VersionsKeep, OthersKeep DEF Next
<1> QED
  BY <1>6, <1>7

LEMMA ConsoleStarts ==
  ASSUME Init, RowsInv
  PROVE  ConsoleInv
<1>1. DOMAIN waits = Slots /\ \A c \in Slots : waits[c] = None
  BY DEF Init
<1>2. ASSUME NEW u, u = ui
      PROVE  Screen(u) /\ (u.session = None => Blank(u))
  <2>1. CASE u = LoginState
    <3>1. u.snapshot = None /\ u.loaded = <<>> /\ Blank(u)
      BY <2>1 DEF LoginState, Blank
    <3>2. "dashboard" \notin DOMAIN u.loaded
      BY <3>1
    <3> QED
      BY <2>1, <3>1, <3>2 DEF Screen
  <2>2. CASE scenario.credential # None
    <3> DEFINE who == Bootstrap[scenario.credential]
               page(s) == readSection(scenario.database, who, s, DefaultLimit, None, NoFilters)
               first(s) == serializeSectionPage(page(s), who, s, None)
               snapshot == [lists |-> [s \in Sections |-> first(s).items],
                            cursors |-> [s \in Sections |-> first(s).cursor]]
    <3>1. u = [AdminShell(scenario.credential, who) EXCEPT !.unasked = {}, !.snapshot = snapshot]
      BY <1>2, <2>2 DEF Init
    <3>2. /\ scenario \in Scenarios /\ scenario.credential \in DOMAIN Bootstrap
          /\ ~isServiceTokenCredential(scenario.credential) /\ who # None
          /\ scenario.database = homeOf(deployment, who.app)
          /\ scenario.database \in DOMAIN scenario.rows
      BY <2>2, ScenarioAssumption DEF Init
    <3>3. BelongsTo(scenario.credential, who.app) /\ home(who.app) = scenario.database
      BY <3>2 DEF BelongsTo, home
    <3>4. home(who.app) \in DOMAIN rows
      BY <3>2, <3>3 DEF RowsInv
    <3>5. DefaultLimit \in Nat
      BY PageAssumption
    <3>6. ListKnown(scenario.credential, page("installations").items)
      BY <3>3, <3>4, <3>5, PageKnown
    <3>7. first("installations").items = page("installations").items
      BY DEF serializeSectionPage
    <3>8. DOMAIN snapshot = {"lists", "cursors"} /\ DOMAIN snapshot.lists = Sections
          /\ snapshot.lists["installations"] = page("installations").items
      BY <3>7 DEF Sections
    <3> HIDE DEF who, snapshot, page, first
    <3>9. ShownTo(scenario.credential, snapshot)
      BY <3>6, <3>8 DEF ShownTo
    <3>10. /\ DOMAIN u = DOMAIN LoginState /\ u.credential = scenario.credential /\ u.session = who
           /\ u.snapshot = snapshot /\ u.loaded = <<>>
      BY <3>1 DEF AdminShell, LoginState
    <3>11. "dashboard" \notin DOMAIN u.loaded
      BY <3>10
    <3> QED
      BY <3>2, <3>9, <3>10, <3>11 DEF Screen
  <2> QED
    BY <1>2, <2>1, <2>2 DEF Init
<1>3. \A c \in Slots : Waiting(c)
  BY <1>1 DEF Waiting
<1> QED
  BY <1>1, <1>2, <1>3 DEF ConsoleInv

LEMMA ConsoleIsKept == Spec => []ConsoleInv
<1>1. Init => ConsoleInv
  BY ConsoleStarts, ScenarioAssumption DEF Init, RowsInv
<1>2. RequestShape /\ AuthInv /\ RowsInv /\ ConsoleInv /\ [Next]_vars => ConsoleInv'
  BY NextKeepsConsole
<1> QED
  BY <1>1, <1>2, RequestsAreShaped, AuthIsKept, RowsAreSound, PTL DEF Spec

(***************************************************************************)
(* A command takes effect on the revision it expects.                      *)
(***************************************************************************)
LEMMA CommandFinds ==
  ASSUME NEW d, NEW who, NEW c, updateInstallation(d, who, c).outcome = "done"
  PROVE  \E before \in rows[d] :
            before.section = "installations" /\ before.id = c.id /\ before.revision = c.expected
<1> DEFINE found == {r \in readInstallations(d, who) : r.id = c.id}
           before == CHOOSE r \in found : TRUE
<1>1. found # {}
  BY DEF updateInstallation, Refused
<1>2. before \in found
  BY <1>1
<1>3. c.expected = before.revision
  BY <1>1 DEF updateInstallation, Refused
<1>4. before \in rows[d] /\ before.section = "installations" /\ before.id = c.id
  BY <1>2 DEF readInstallations, ownRows, rowsOf
<1> HIDE DEF before
<1> QED
  BY <1>3, <1>4

LEMMA CommandServed ==
  ASSUME RequestShape, NEW c \in Slots, Serve(c), effects' # effects, requests[c].route = "installationCommand"
  PROVE  LET r == requests[c] IN
         /\ r.phase = "working"
         /\ updateInstallation(r.database, r.who, r.command).outcome = "done"
<1> DEFINE r == requests[c]
<1>1. Changing(c)
  BY ReadStep DEF Serve, Fetch, resolveRequestDatabase, Handle, resolveAdminIdentity, untouched,
                  reserveAdminMutation, reads
<1>2. ~install(c) /\ ~install_Propose(c) /\ ~install_Write(c) /\ ~install_Recover(c) /\ ~revoke_Update(c)
  BY DEF install, install_Propose, install_Write, install_Recover, revoke_Update, working, at, RequestShape,
     SlotInv, Installing
<1>3. installationCommandStore_updateInstallation(c)
  BY <1>1, <1>2 DEF Changing, approvalDecisionStore_decide, rollbackStore_rollback,
                    installRequestStore_requestInstallation, serviceTokenManager_issue,
                    serviceTokenManager_revoke, slackOAuthInstallStartService_start, tokenRoute, working
<1>4. working(c, "installationCommand")
      /\ unkeyed(c, updateInstallation(r.database, r.who, r.command), "conflict")
  BY <1>3 DEF installationCommandStore_updateInstallation
<1>5. updateInstallation(r.database, r.who, r.command).outcome = "done"
  BY <1>4 DEF unkeyed, unchanged
<1> QED
  BY <1>4, <1>5 DEF working, at

LEMMA EffectsAreServed ==
  ASSUME RequestShape, [Next]_vars, effects' # effects
  PROVE  \E d \in Slots : Serve(d) /\ effects' = effects \cup {effectOf(requests[d])} /\ requests[d] # Idle
<1>1. ~UNCHANGED vars /\ ~(ClientStep /\ quiet) /\ ~RecordExecution /\ ~OtherAdministrator /\ ~Tick
  BY DEF vars, api, quiet, RecordExecution, OtherAdministrator, Tick, elsewhere
<1>2. PICK d \in Slots : Serve(d)
  BY <1>1, StepKinds
<1>3. effect(requests[d]) /\ requests[d].phase \in AdmittedPhases
  BY <1>2, ServeEffects
<1>4. requests[d] # Idle
  BY <1>3 DEF AdmittedPhases, Working, Installing, Idle
<1> QED
  BY <1>2, <1>3, <1>4 DEF effect

(***************************************************************************)
(* A command that takes effect changes the state and the priority its user *)
(* was shown when confirming: the revision it was given with is still the  *)
(* table's, whatever refreshes landed late and whoever changed the row     *)
(* meanwhile (admin-installations.ts, App.tsx).                            *)
(***************************************************************************)
THEOREM CommandsChangeWhatWasShown == Spec => CommandChangesWhatWasShown
<1> DEFINE A == \A c \in Slots :
                  awaits(c, "command") /\ effects' # effects
                    /\ (\E e \in effects' \ effects : e.n = requests[c].n) =>
                     \E row \in rows[requests[c].database] :
                        /\ row.section = "installations" /\ row.id = waits[c].shown.id
                        /\ row.state = waits[c].shown.state /\ row.priority = waits[c].shown.priority
<1>1. ASSUME RequestShape, AuthInv, RowsInv, NumberInv, ConsoleInv, [Next]_vars
      PROVE  A
  <2> SUFFICES ASSUME NEW c \in Slots, awaits(c, "command"), effects' # effects,
                      NEW e \in effects' \ effects, e.n = requests[c].n
               PROVE  \E row \in rows[requests[c].database] :
                         /\ row.section = "installations" /\ row.id = waits[c].shown.id
                         /\ row.state = waits[c].shown.state /\ row.priority = waits[c].shown.priority
    OBVIOUS
  <2>1. PICK w, r, u : w = waits[c] /\ r = requests[c] /\ u = ui
    OBVIOUS
  <2>2. WaitInv(w, r, u) /\ w.step = "command"
    BY <1>1, <2>1 DEF awaits, ConsoleInv, Waiting
  <2>3. r # Idle
    BY <2>2 DEF WaitInv, CallInv, Busy, Idle
  <2>4. PICK d \in Slots : Serve(d) /\ effects' = effects \cup {effectOf(requests[d])} /\ requests[d] # Idle
    BY <1>1, EffectsAreServed
  <2>5. e.n = requests[d].n
    BY <2>4 DEF effectOf
  <2>6. d = c
    BY <1>1, <2>1, <2>3, <2>4, <2>5 DEF NumberInv
  <2>7. r.route = "installationCommand"
    BY <2>2 DEF WaitInv, Fit
  <2>8. /\ r.phase = "working"
        /\ updateInstallation(r.database, r.who, r.command).outcome = "done"
    BY <1>1, <2>1, <2>4, <2>6, <2>7, CommandServed
  <2>9. PICK before \in rows[r.database] :
           before.section = "installations" /\ before.id = r.command.id /\ before.revision = r.command.expected
    BY <2>8, CommandFinds
  <2>10. /\ r.phase \in Busy /\ r.phase \in AdmittedPhases
    BY <2>8 DEF Busy, Phases, AdmittedPhases, Working, Installing
  <2>11. /\ r.credential = u.credential /\ RowKnown(u.credential, w.shown)
         /\ r.command.id = w.shown.id /\ r.command.expected = w.shown.revision
    BY <2>2, <2>10 DEF WaitInv, CallInv, Fit
  <2>12. handlerOf(r).service = "database"
    BY <2>7 DEF handlerOf, runInstallationCommand, Change, Handler
  <2>13. /\ r.database = home(r.who.app) /\ r.database \in DOMAIN rows
         /\ BelongsTo(r.credential, r.who.app)
    BY <1>1, <2>1, <2>10, <2>12, WorksThere
  <2>14. Seen(r.database, w.shown)
    <3>1. PICK app : BelongsTo(r.credential, app) /\ Seen(home(app), w.shown)
      BY <2>11 DEF RowKnown
    <3>2. app = r.who.app
      BY <1>1, <2>13, <3>1, OneApp DEF AuthInv
    <3> QED
      BY <2>13, <3>1, <3>2
  <2>15. PICK row \in rows[r.database] :
            /\ row.section = "installations" /\ row.id = w.shown.id
            /\ w.shown.revision = row.revision => w.shown.state = row.state /\ w.shown.priority = row.priority
    BY <2>14 DEF Seen
  <2>16. row = before
    BY <1>1, <2>9, <2>11, <2>13, <2>15 DEF RowsInv, SoundTable
  <2> QED
    BY <2>1, <2>9, <2>11, <2>15, <2>16
<1>2. RequestShape /\ AuthInv /\ RowsInv /\ NumberInv /\ ConsoleInv /\ [Next]_vars => [A]_vars
  BY <1>1
<1>3. [][A]_vars => CommandChangesWhatWasShown
  BY PTL DEF CommandChangesWhatWasShown
<1> HIDE DEF A
<1> QED
  BY <1>2, <1>3, RequestsAreShaped, AuthIsKept, RowsAreSound, NumbersAreKept, ConsoleIsKept, PTL DEF Spec
==============================================================================
