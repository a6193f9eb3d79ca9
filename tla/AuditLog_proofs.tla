--------------------------- MODULE AuditLog_proofs ---------------------------
(***************************************************************************)
(* For any number of writers, scopes and attempts: the audit log is one    *)
(* linear hash chain per scope, it implements the abstract trail, what its *)
(* writers are answered is true, and the verifier finds what was forged.   *)
(***************************************************************************)
EXTENDS AuditLog, FiniteSetTheorems, FunctionTheorems, SequenceTheorems, TLAPS

(* The variables that are updated by EXCEPT are functions.                 *)
Shape ==
  /\ head = [s \in Scopes |-> head[s]]
  /\ answer = [a \in Appends |-> answer[a]]

(* A head that counts no event is the genesis head: without it the first   *)
(* event of a scope could be linked to anything.                           *)
FreshHead ==
  \A s \in Scopes : head[s].next <= 1 => head[s].last = GENESIS_HASH

ChainInv == Shape /\ TypeOK /\ FreshHead /\ LinearHistory

-----------------------------------------------------------------------------
LEMMA InitChain == Init => ChainInv
<1> SUFFICES ASSUME Init PROVE ChainInv
  OBVIOUS
<1>1. Shape /\ FreshHead
  BY DEF Init, Shape, FreshHead
<1>2. TypeOK
  BY AuditConstants DEF Init, TypeOK, Phases
<1>3. \A s \in Scopes : chainLength(s) = 0
  BY DEF Init, chainLength
<1>4. LinearHistory
  BY <1>3 DEF Init, LinearHistory
<1> QED
  BY <1>1, <1>2, <1>4 DEF ChainInv

(* What a step that appends nothing does to the log.                       *)
Quiet ==
  /\ events' = events
  /\ \A s \in Scopes : chainLength(s)' = chainLength(s)
  /\ \A s \in Scopes : head'[s].last = head[s].last

LEMMA QuietKeepsChain ==
  ASSUME ChainInv, Quiet, TypeOK'
  PROVE  FreshHead' /\ LinearHistory'
<1>1. FreshHead'
  BY DEF ChainInv, FreshHead, Quiet, TypeOK, chainLength
<1>2. LinearHistory'
  <2> SUFFICES ASSUME NEW s \in Scopes
               PROVE  LET n == chainLength(s)' IN
                      /\ \A r \in events : r.scope = s => r.seq \in 1..n
                      /\ \A k \in 1..n : \E r \in events : r.scope = s /\ r.seq = k
                      /\ \A q, r \in events : q.scope = s /\ r.scope = s =>
                           /\ q.seq = r.seq => q = r
                           /\ r.seq = q.seq + 1 => r.prev = q.hash
                      /\ \A r \in events : r.scope = s =>
                           /\ r.hash = hashAuditEvent(r)
                           /\ r.seq = 1 => r.prev = GENESIS_HASH
                           /\ r.seq = n => head'[s].last = r.hash
    BY DEF LinearHistory, Quiet
  <2>1. chainLength(s)' = chainLength(s)
    BY DEF Quiet
  <2>2. head'[s].last = head[s].last
    BY DEF Quiet
  <2> QED
    BY <2>1, <2>2 DEF ChainInv, LinearHistory
<1> QED
  BY <1>1, <1>2

LEMMA BeginQuiet ==
  ASSUME ChainInv, NEW a \in Appends, NEW e \in Event, BeginAppend(a, e)
  PROVE  Quiet /\ Shape' /\ TypeOK'
<1>1. e.scope \in Scopes
  BY DEF Event
<1>2. \A s \in Scopes :
        \/ head'[s] = head[s] /\ (s = e.scope => head[s].next # 0)
        \/ head[s].next = 0 /\ head'[s] = [next |-> 1, last |-> GENESIS_HASH]
  BY <1>1 DEF BeginAppend, ChainInv, Shape
<1>3. \A s \in Scopes :
        /\ head'[s].next \in Nat
        /\ s = e.scope \/ head[s].next > 0 => head'[s].next > 0
  BY <1>2 DEF ChainInv, TypeOK
<1>4. Quiet
  BY <1>2 DEF BeginAppend, Quiet, chainLength, ChainInv, FreshHead, TypeOK
<1>5. Shape'
  BY <1>1 DEF BeginAppend, ChainInv, Shape
<1>6. TypeOK'
  <2>1. \A s \in Scopes : head'[s].next \in Nat
    BY <1>3
  <2>2. event' \in [Appends -> Event \cup {None}] /\ attempt' \in [Appends -> 0..MaxAppendAttempts]
        /\ pc' \in [Appends -> Phases]
    BY AuditConstants DEF ChainInv, TypeOK, BeginAppend, Phases
  <2>3. \A b \in Appends : pc'[b] \in {"readHead", "insert"} =>
          event'[b] # None /\ head'[event'[b].scope].next > 0
    <3> SUFFICES ASSUME NEW b \in Appends, pc'[b] \in {"readHead", "insert"}
                 PROVE  event'[b] # None /\ head'[event'[b].scope].next > 0
      OBVIOUS
    <3>1. CASE b = a
      <4>1. event'[b] = e
        BY <3>1 DEF ChainInv, TypeOK, BeginAppend
      <4> QED
        BY <4>1, <1>1, <1>3, AuditConstants DEF Event
    <3>2. CASE b # a
      <4>1. event'[b] = event[b] /\ pc'[b] = pc[b]
        BY <3>2 DEF ChainInv, TypeOK, BeginAppend
      <4>2. event[b] # None /\ head[event[b].scope].next > 0 /\ event[b].scope \in Scopes
        BY <4>1 DEF ChainInv, TypeOK, Event
      <4> QED
        BY <4>1, <4>2, <1>3
    <3> QED BY <3>1, <3>2
  <2> QED
    BY <2>1, <2>2, <2>3 DEF ChainInv, TypeOK, BeginAppend
<1> QED
  BY <1>4, <1>5, <1>6

(* The steps of a handler that leave the tables alone.                     *)
LEMMA HandleQuiet ==
  ASSUME ChainInv, NEW a \in Appends, ReadHead(a) \/ AuditChainConflict(a) \/ DuplicateId(a)
                                 \/ AppendError(a)
  PROVE  Quiet /\ Shape' /\ TypeOK'
<1>1. head' = head /\ events' = events /\ event' = event
  BY DEF ReadHead, AuditChainConflict, DuplicateId, AppendError
<1>2. Quiet
  BY <1>1 DEF Quiet, chainLength
<1>3. \/ answer' = answer
      \/ \E x \in Outcomes : answer' = [answer EXCEPT ![a] = [outcome |-> x]]
  BY DEF ReadHead, AuditChainConflict, DuplicateId, AppendError, Finish, Outcomes
<1>4. Shape' /\ \A b \in Appends : answer'[b] # None => answer'[b].outcome \in Outcomes
  BY <1>1, <1>3 DEF ChainInv, Shape, TypeOK
<1>5. attempt' \in [Appends -> 0..MaxAppendAttempts]
  BY AuditConstants DEF ChainInv, TypeOK, ReadHead, AuditChainConflict, DuplicateId, AppendError
<1>6. /\ pc' \in [Appends -> Phases]
      /\ \A b \in Appends : pc'[b] \in {"readHead", "insert"} => pc[b] \in {"readHead", "insert"}
  BY DEF ChainInv, TypeOK, ReadHead, AuditChainConflict, DuplicateId, AppendError, Finish, Phases
<1> QED
  BY <1>1, <1>2, <1>4, <1>5, <1>6 DEF ChainInv, TypeOK

-----------------------------------------------------------------------------
(* The insert.  The triggers make the new row the successor of the head.   *)
LEMMA InsertRow ==
  ASSUME ChainInv, NEW a \in Appends, insertAuditEvent(a)
  PROVE  LET e == chainedEvent(a) IN
         /\ e.scope \in Scopes /\ e.id \in Ids /\ e.body \in Bodies
         /\ head[e.scope].next > 0
         /\ e.seq = head[e.scope].next /\ e.seq \in Nat \ {0}
         /\ e.prev = head[e.scope].last
         /\ e.hash = hashAuditEvent(e)
         /\ e.seq = chainLength(e.scope) + 1
         /\ events' = events \cup {e}
         /\ head' = [head EXCEPT ![e.scope] = [next |-> e.seq + 1, last |-> e.hash]]
<1>1. event[a] \in Event /\ head[event[a].scope].next > 0
  BY DEF ChainInv, TypeOK, insertAuditEvent
<1>2. event[a].scope \in Scopes /\ event[a].id \in Ids /\ event[a].body \in Bodies
  BY <1>1 DEF Event
<1>3. head[event[a].scope].next \in Nat
  BY <1>1, <1>2 DEF ChainInv, TypeOK
<1> DEFINE e == chainedEvent(a)
<1>4. /\ e.scope = event[a].scope /\ e.id = event[a].id /\ e.body = event[a].body
      /\ e.seq = head[e.scope].next /\ e.prev = head[e.scope].last /\ e.hash = hashAuditEvent(e)
  BY DEF chainedEvent, hashAuditEvent, insertAuditEvent, validateChain
<1>5. events' = events \cup {e} /\ head' = [head EXCEPT ![e.scope] = [next |-> e.seq + 1, last |-> e.hash]]
  BY <1>4 DEF insertAuditEvent, validateChain, advanceChain
<1> HIDE DEF e
<1>6. e.scope \in Scopes /\ e.id \in Ids /\ e.body \in Bodies
  BY <1>2, <1>4
<1>7. head[e.scope].next > 0 /\ e.seq \in Nat \ {0} /\ e.seq = chainLength(e.scope) + 1
  BY <1>1, <1>3, <1>4 DEF chainLength
<1> QED
  BY <1>4, <1>5, <1>6, <1>7 DEF e

(* What the insert leaves of the other scopes, and makes of its own.       *)
LEMMA InsertHeads ==
  ASSUME ChainInv, NEW a \in Appends, insertAuditEvent(a)
  PROVE  LET e == chainedEvent(a) IN
         /\ \A s \in Scopes \ {e.scope} : head'[s] = head[s]
         /\ head'[e.scope].next = e.seq + 1 /\ head'[e.scope].last = e.hash
         /\ \A s \in Scopes : chainLength(s)' = IF s = e.scope THEN e.seq ELSE chainLength(s)
<1> DEFINE e == chainedEvent(a)
<1>1. /\ e.scope \in Scopes /\ e.seq \in Nat \ {0}
      /\ head' = [head EXCEPT ![e.scope] = [next |-> e.seq + 1, last |-> e.hash]]
  BY InsertRow
<1> HIDE DEF e
<1>2. /\ \A s \in Scopes \ {e.scope} : head'[s] = head[s]
      /\ head'[e.scope] = [next |-> e.seq + 1, last |-> e.hash]
  BY <1>1 DEF ChainInv, Shape
<1>3. /\ head'[e.scope].next = e.seq + 1 /\ head'[e.scope].last = e.hash
      /\ \A s \in Scopes : chainLength(s)' = IF s = e.scope THEN e.seq ELSE chainLength(s)
  BY <1>1, <1>2 DEF chainLength
<1> QED
  BY <1>2, <1>3 DEF e

LEMMA InsertTyped ==
  ASSUME ChainInv, NEW a \in Appends, insertAuditEvent(a)
  PROVE  Shape' /\ TypeOK' /\ FreshHead'
<1> DEFINE e == chainedEvent(a)
<1>1. /\ e.scope \in Scopes /\ e.id \in Ids /\ e.body \in Bodies /\ e.seq \in Nat \ {0}
      /\ events' = events \cup {e}
      /\ head' = [head EXCEPT ![e.scope] = [next |-> e.seq + 1, last |-> e.hash]]
  BY InsertRow
<1>2. /\ \A s \in Scopes \ {e.scope} : head'[s] = head[s]
      /\ head'[e.scope].next = e.seq + 1
  BY InsertHeads
<1>3. \E x : x.outcome \in Outcomes /\ answer' = [answer EXCEPT ![a] = x]
  <2> DEFINE ok == [outcome |-> "appended", seq |-> e.seq, hash |-> e.hash]
             lost == [outcome |-> "error"]
  <2>1. ok.outcome \in Outcomes /\ lost.outcome \in Outcomes
    BY DEF Outcomes
  <2>2. answer' = [answer EXCEPT ![a] = ok] \/ answer' = [answer EXCEPT ![a] = lost]
    BY DEF insertAuditEvent, Finish
  <2> HIDE DEF ok, lost
  <2> QED
    BY <2>1, <2>2
<1>4. event' = event /\ attempt' = attempt /\ pc' = [pc EXCEPT ![a] = "done"]
  BY DEF insertAuditEvent, Finish
<1> HIDE DEF e
<1>5. Shape'
  BY <1>1, <1>3 DEF ChainInv, Shape
<1>6. FreshHead'
  BY <1>1, <1>2 DEF ChainInv, FreshHead
<1>7. \A s \in Scopes : head'[s].next \in Nat /\ (head[s].next > 0 => head'[s].next > 0)
  BY <1>1, <1>2 DEF ChainInv, TypeOK
<1>8. \A b \in Appends : answer'[b] # None => answer'[b].outcome \in Outcomes
  BY <1>3 DEF ChainInv, Shape, TypeOK
<1>9. /\ pc' \in [Appends -> Phases]
      /\ \A b \in Appends : pc'[b] \in {"readHead", "insert"} =>
           event'[b] # None /\ head'[event'[b].scope].next > 0
  <2>1. \A b \in Appends : event[b] # None => event[b].scope \in Scopes
    BY DEF ChainInv, TypeOK, Event
  <2> QED
    BY <1>4, <1>7, <2>1 DEF ChainInv, TypeOK, Phases
<1>10. TypeOK'
  BY <1>1, <1>4, <1>7, <1>8, <1>9 DEF ChainInv, TypeOK
<1> QED
  BY <1>5, <1>6, <1>10

LEMMA InsertKeepsChain ==
  ASSUME ChainInv, NEW a \in Appends, insertAuditEvent(a)
  PROVE  LinearHistory'
<1> DEFINE e == chainedEvent(a)
<1>1. /\ e.scope \in Scopes /\ e.seq \in Nat \ {0}
      /\ e.seq = head[e.scope].next /\ e.prev = head[e.scope].last
      /\ e.hash = hashAuditEvent(e)
      /\ e.seq = chainLength(e.scope) + 1
      /\ events' = events \cup {e}
  BY InsertRow
<1>2. /\ \A s \in Scopes \ {e.scope} : head'[s] = head[s]
      /\ head'[e.scope].last = e.hash
      /\ \A s \in Scopes : chainLength(s)' = IF s = e.scope THEN e.seq ELSE chainLength(s)
  BY InsertHeads
<1> HIDE DEF e
<1> DEFINE H(T, s, n, last) ==
      /\ \A r \in T : r.scope = s => r.seq \in 1..n
      /\ \A k \in 1..n : \E r \in T : r.scope = s /\ r.seq = k
      /\ \A q, r \in T : q.scope = s /\ r.scope = s =>
           /\ q.seq = r.seq => q = r
           /\ r.seq = q.seq + 1 => r.prev = q.hash
      /\ \A r \in T : r.scope = s =>
           /\ r.hash = hashAuditEvent(r)
           /\ r.seq = 1 => r.prev = GENESIS_HASH
           /\ r.seq = n => last = r.hash
<1>3. \A s \in Scopes : H(events, s, chainLength(s), head[s].last)
  BY DEF ChainInv, LinearHistory
<1>4. \A r \in events : r.seq \in Nat
  BY DEF ChainInv, TypeOK
<1>5. e.seq = 1 => e.prev = GENESIS_HASH
  <2>1. e.seq = 1 => head[e.scope].next <= 1
    BY <1>1
  <2> QED
    BY <1>1, <2>1 DEF ChainInv, FreshHead
<1>6. SUFFICES ASSUME NEW s \in Scopes
               PROVE  H(events', s, chainLength(s)', head'[s].last)
  BY DEF LinearHistory
<1>7. CASE s # e.scope
  BY <1>1, <1>2, <1>3, <1>7
<1>8. CASE s = e.scope
  <2> DEFINE n == chainLength(s)
  <2>1. H(events, s, n, head[s].last)
    BY <1>3
  <2>2. n \in Nat /\ e.seq = n + 1 /\ chainLength(s)' = n + 1 /\ head'[s].last = e.hash
    BY <1>1, <1>2, <1>8 DEF chainLength, ChainInv, TypeOK
  <2> HIDE DEF n
  <2>3. \A r \in events' : r.scope = s => r.seq \in 1..(n + 1)
    BY <2>1, <2>2, <1>1
  <2>4. \A k \in 1..(n + 1) : \E r \in events' : r.scope = s /\ r.seq = k
    BY <2>1, <2>2, <1>1, <1>8
  <2>5. \A q, r \in events' : q.scope = s /\ r.scope = s /\ q.seq = r.seq => q = r
    BY <2>1, <2>2, <1>1
  <2>6. \A q, r \in events' : q.scope = s /\ r.scope = s /\ r.seq = q.seq + 1 => r.prev = q.hash
    BY <2>1, <2>2, <1>1, <1>4, <1>8
  <2>7. \A r \in events' : r.scope = s =>
           /\ r.hash = hashAuditEvent(r)
           /\ r.seq = 1 => r.prev = GENESIS_HASH
           /\ r.seq = n + 1 => e.hash = r.hash
    BY <2>1, <2>2, <1>1, <1>5
  <2>8. H(events', s, n + 1, e.hash)
    BY <2>3, <2>4, <2>5, <2>6, <2>7
  <2> QED
    BY <2>2, <2>8
<1> QED
  BY <1>7, <1>8

-----------------------------------------------------------------------------
LEMMA StepChain == ChainInv /\ [Next]_vars => ChainInv'
<1> SUFFICES ASSUME ChainInv, [Next]_vars PROVE ChainInv'
  OBVIOUS
<1>1. ASSUME NEW a \in Appends, NEW e \in Event, BeginAppend(a, e) PROVE ChainInv'
  BY <1>1, BeginQuiet, QuietKeepsChain DEF ChainInv
<1>2. ASSUME NEW a \in Appends, ReadHead(a) \/ AuditChainConflict(a) \/ DuplicateId(a)
                                 \/ AppendError(a)
      PROVE  ChainInv'
  BY <1>2, HandleQuiet, QuietKeepsChain DEF ChainInv
<1>3. ASSUME NEW a \in Appends, insertAuditEvent(a) PROVE ChainInv'
  BY <1>3, InsertTyped, InsertKeepsChain DEF ChainInv
<1>4. CASE UNCHANGED vars
  BY <1>4 DEF vars, ChainInv, Shape, TypeOK, FreshHead, LinearHistory, chainLength
<1> QED
  BY <1>1, <1>2, <1>3, <1>4 DEF Next, Try

(* The audit log is one hash chain per scope, whatever the interleaving of *)
(* its writers (audit-log.ts append, migration 0011).                      *)
THEOREM ChainIsLinear == Spec => []LinearHistory
<1>1. Spec => []ChainInv
  BY InitChain, StepChain, PTL DEF Spec
<1> QED
  BY <1>1, PTL DEF ChainInv

-----------------------------------------------------------------------------
(* Refinement.  rowAt names the one row a linear history has at a place.   *)
LEMMA RowAtIsTheRow ==
  ASSUME ChainInv, NEW s \in Scopes, NEW k \in 1..chainLength(s)
  PROVE  /\ rowAt(s, k) \in events /\ rowAt(s, k).scope = s /\ rowAt(s, k).seq = k
         /\ \A r \in events : r.scope = s /\ r.seq = k => r = rowAt(s, k)
<1>1. \E r \in events : r.scope = s /\ r.seq = k
  BY DEF ChainInv, LinearHistory
<1>2. rowAt(s, k) \in events /\ rowAt(s, k).scope = s /\ rowAt(s, k).seq = k
  BY <1>1 DEF rowAt
<1> QED
  BY <1>2 DEF ChainInv, LinearHistory

LEMMA QuietStutters ==
  ASSUME Quiet
  PROVE  logOf' = logOf
<1>1. \A s \in Scopes, k \in Nat : rowAt(s, k)' = rowAt(s, k)
  BY DEF Quiet, rowAt
<1>2. \A s \in Scopes : chainLength(s)' = chainLength(s)
  BY DEF Quiet
<1> QED
  BY <1>1, <1>2 DEF logOf

LEMMA AppendOfFunction ==
  ASSUME NEW S, NEW n \in Nat, NEW f \in [1..n -> S], NEW x \in S
  PROVE  Len(f) = n /\ Append(f, x) = [k \in 1..(n + 1) |-> IF k = n + 1 THEN x ELSE f[k]]
<1> DEFINE g == [k \in 1..(n + 1) |-> IF k = n + 1 THEN x ELSE f[k]]
<1>1. f \in Seq(S) /\ Len(f) = n
  OBVIOUS
<1>2. /\ Append(f, x) \in Seq(S) /\ Len(Append(f, x)) = n + 1
      /\ \A k \in 1..n : Append(f, x)[k] = f[k]
      /\ Append(f, x)[n + 1] = x
  BY <1>1, AppendProperties
<1>3. g \in [1..(n + 1) -> S]
  OBVIOUS
<1>4. g \in Seq(S) /\ Len(g) = n + 1
  BY <1>3
<1>5. \A k \in 1..(n + 1) : Append(f, x)[k] = g[k]
  BY <1>2
<1> HIDE DEF g
<1>6. Append(f, x) = g
  BY <1>2, <1>4, <1>5, SeqEqual
<1> QED
  BY <1>1, <1>6 DEF g

LEMMA InsertRecords ==
  ASSUME ChainInv, ChainInv', NEW a \in Appends, insertAuditEvent(a)
  PROVE  Trail!Next
<1> DEFINE e == chainedEvent(a)
<1>1. /\ e.scope \in Scopes /\ e.id \in Ids /\ e.body \in Bodies
      /\ e.seq \in Nat \ {0} /\ e.seq = chainLength(e.scope) + 1
      /\ events' = events \cup {e}
  BY InsertRow
<1>2. \A s \in Scopes : chainLength(s)' = IF s = e.scope THEN e.seq ELSE chainLength(s)
  BY InsertHeads
<1>3. \A r \in events : r.id # e.id
  BY DEF insertAuditEvent
<1> HIDE DEF e
<1>4. ASSUME NEW s \in Scopes, NEW r \in events', r.scope = s
      PROVE  rowAt(s, r.seq)' = r
  <2>1. rowAt(s, r.seq)' \in events' /\ rowAt(s, r.seq)'.scope = s /\ rowAt(s, r.seq)'.seq = r.seq
    BY <1>4 DEF rowAt
  <2> QED
    BY <2>1, <1>4 DEF ChainInv, LinearHistory
<1>5. ASSUME NEW s \in Scopes, NEW k \in 1..chainLength(s)
      PROVE  rowAt(s, k)' = rowAt(s, k)
  <2>1. /\ rowAt(s, k) \in events' /\ rowAt(s, k).scope = s /\ rowAt(s, k).seq = k
    BY <1>1, RowAtIsTheRow
  <2>2. \A r \in events' : r.scope = s /\ r.seq = k => rowAt(s, k)' = r
    BY <1>4
  <2> QED
    BY <2>1, <2>2
<1>6. \A s \in Scopes, k \in Nat : s = e.scope /\ k = e.seq => rowAt(s, k)' = e
  <2>1. e \in events'
    BY <1>1
  <2> QED
    BY <2>1, <1>1, <1>4
<1> DEFINE n == chainLength(e.scope)
           new == [id |-> e.id, body |-> e.body]
<1>7. new \in Trail!Entry /\ new.id = e.id
  BY <1>1 DEF Trail!Entry
<1>8. \A s \in Scopes : \A k \in 1..chainLength(s) :
        /\ logOf[s][k] = [id |-> rowAt(s, k).id, body |-> rowAt(s, k).body]
        /\ rowAt(s, k) \in events
  BY RowAtIsTheRow DEF logOf
<1>9. \A s \in Scopes : \A k \in 1..chainLength(s) :
        logOf[s][k] \in Trail!Entry /\ logOf[s][k].id # e.id
  <2>1. \A r \in events : r.id \in Ids /\ r.body \in Bodies /\ r.id # e.id
    BY <1>3 DEF ChainInv, TypeOK
  <2> SUFFICES ASSUME NEW s \in Scopes, NEW k \in 1..chainLength(s)
               PROVE  logOf[s][k] \in Trail!Entry /\ logOf[s][k].id # e.id
    OBVIOUS
  <2>2. rowAt(s, k).id \in Ids /\ rowAt(s, k).body \in Bodies /\ rowAt(s, k).id # e.id
    BY <1>8, <2>1
  <2> DEFINE x == rowAt(s, k).id
             y == rowAt(s, k).body
  <2>3. logOf[s][k] = [id |-> x, body |-> y]
    BY <1>8
  <2> HIDE DEF x, y
  <2>4. x \in Ids /\ y \in Bodies /\ x # e.id
    BY <2>2 DEF x, y
  <2> QED
    BY <2>3, <2>4 DEF Trail!Entry
<1>10. \A s \in Scopes : \A k \in 1..chainLength(s)' :
         logOf'[s][k] = [id |-> rowAt(s, k)'.id, body |-> rowAt(s, k)'.body]
  BY DEF logOf
<1>11. /\ logOf = [s \in Scopes |-> logOf[s]] /\ logOf' = [s \in Scopes |-> logOf'[s]]
       /\ \A s \in Scopes : logOf[s] = [k \in 1..chainLength(s) |-> logOf[s][k]]
       /\ \A s \in Scopes : logOf'[s] = [k \in 1..chainLength(s)' |-> logOf'[s][k]]
  BY DEF logOf
<1>12. \A s \in Scopes : chainLength(s) \in Nat
  BY DEF chainLength, ChainInv, TypeOK
<1>13. \A s \in Scopes : \A k \in 1..chainLength(s) : logOf'[s][k] = logOf[s][k]
  <2> SUFFICES ASSUME NEW s \in Scopes, NEW k \in 1..chainLength(s)
               PROVE  logOf'[s][k] = logOf[s][k]
    OBVIOUS
  <2>1. k \in 1..chainLength(s)'
    BY <1>1, <1>2, <1>12
  <2> QED
    BY <2>1, <1>5, <1>8, <1>10
<1>14. \A s \in Scopes, k \in Nat : s = e.scope /\ k = e.seq => logOf'[s][k] = new
  BY <1>1, <1>2, <1>6, <1>10
<1> HIDE DEF new
<1>15. ~Trail!Recorded(new.id)
  <2> SUFFICES ASSUME NEW s \in Scopes, NEW k \in 1..Len(logOf[s])
               PROVE  logOf[s][k].id # new.id
    BY DEF Trail!Recorded
  <2>1. logOf[s] \in [1..chainLength(s) -> Trail!Entry]
    BY <1>9, <1>11
  <2>2. Len(logOf[s]) = chainLength(s)
    BY <1>12, <2>1
  <2> QED
    BY <2>2, <1>7, <1>9
<1>16. logOf' = [logOf EXCEPT ![e.scope] = Append(@, new)]
  <2>1. \A s \in Scopes : s # e.scope => logOf'[s] = logOf[s]
    <3> SUFFICES ASSUME NEW s \in Scopes, s # e.scope PROVE logOf'[s] = logOf[s]
      OBVIOUS
    <3>1. chainLength(s)' = chainLength(s)
      BY <1>2
    <3> QED
      BY <3>1, <1>11, <1>13
  <2>2. Append(logOf[e.scope], new) =
          [k \in 1..(n + 1) |-> IF k = n + 1 THEN new ELSE logOf[e.scope][k]]
    <3>1. n \in Nat /\ logOf[e.scope] \in [1..n -> Trail!Entry]
      BY <1>1, <1>9, <1>11, <1>12
    <3> QED
      BY <3>1, <1>7, AppendOfFunction
  <2>3. \A s \in Scopes : s = e.scope =>
          logOf'[s] = [k \in 1..(n + 1) |-> IF k = n + 1 THEN new ELSE logOf[e.scope][k]]
    <3> SUFFICES ASSUME NEW s \in Scopes, s = e.scope
                 PROVE  logOf'[s] = [k \in 1..(n + 1) |-> IF k = n + 1 THEN new ELSE logOf[s][k]]
      OBVIOUS
    <3>1. n \in Nat /\ n = chainLength(s) /\ chainLength(s)' = n + 1 /\ e.seq = n + 1
      BY <1>1, <1>2, <1>12
    <3>2. \A k \in 1..(n + 1) : logOf'[s][k] = IF k = n + 1 THEN new ELSE logOf[s][k]
      BY <3>1, <1>13, <1>14
    <3> QED
      BY <3>1, <3>2, <1>11
  <2> QED
    BY <1>1, <1>11, <2>1, <2>2, <2>3
<1>17. Trail!Record(e.scope, new)
  BY <1>15, <1>16 DEF Trail!Record
<1> QED
  BY <1>1, <1>7, <1>17 DEF Trail!Next

(* The audit log implements the append-only trail of                       *)
(* docs/security/audit-integrity.md: every step of every writer appends    *)
(* one new event at the end of one scope's history or leaves all alone.    *)
THEOREM TrailImplemented == Spec => TrailSpec
<1>1. Init => Trail!Init
  BY DEF Init, Trail!Init, logOf, chainLength
<1>2. ChainInv /\ ChainInv' /\ [Next]_vars => [Trail!Next]_logOf
  <2> SUFFICES ASSUME ChainInv, ChainInv', [Next]_vars PROVE Trail!Next \/ logOf' = logOf
    OBVIOUS
  <2>1. ASSUME NEW a \in Appends, NEW e \in Event, BeginAppend(a, e) PROVE logOf' = logOf
    BY <2>1, BeginQuiet, QuietStutters
  <2>2. ASSUME NEW a \in Appends, ReadHead(a) \/ AuditChainConflict(a) \/ DuplicateId(a)
                                 \/ AppendError(a)
        PROVE  logOf' = logOf
    BY <2>2, HandleQuiet, QuietStutters
  <2>3. ASSUME NEW a \in Appends, insertAuditEvent(a) PROVE Trail!Next
    BY <2>3, InsertRecords
  <2>4. CASE UNCHANGED vars
    BY <2>4 DEF vars, logOf, rowAt, chainLength
  <2> QED
    BY <2>1, <2>2, <2>3, <2>4 DEF Next, Try
<1> QED
  BY <1>1, <1>2, InitChain, StepChain, PTL DEF Spec, TrailSpec, Trail!Spec

-----------------------------------------------------------------------------
(***************************************************************************)
(* Answers.  IsRow: a row has the columns of audit_events.                 *)
(***************************************************************************)
IsRow(r) == r \in [id : {r.id}, scope : {r.scope}, body : {r.body},
                   seq : {r.seq}, prev : {r.prev}, hash : {r.hash}]

(* What holds of one invocation.  A head only moves forward, and a head    *)
(* that did not move is the head that was read: so every refusal of the    *)
(* trigger stands for an event of another writer, and attempts are never   *)
(* ahead of the head.                                                      *)
AppendIsSound(a) ==
  /\ pc[a] \in {"readHead", "insert"} => attempt[a] <= head[event[a].scope].next
  /\ pc[a] = "insert" =>
       /\ read[a].next \in Nat /\ attempt[a] <= read[a].next
       /\ read[a].next <= head[event[a].scope].next
       /\ read[a].next = head[event[a].scope].next => read[a].last = head[event[a].scope].last
  /\ answer[a] # None =>
       /\ pc[a] = "done" /\ event[a] \in Event
       /\ answer[a].outcome = "appended" =>
            \E r \in events : /\ r.id = event[a].id /\ r.scope = event[a].scope
                              /\ r.body = event[a].body
                              /\ r.seq = answer[a].seq /\ r.hash = answer[a].hash
       /\ answer[a].outcome = "conflict" => chainLength(event[a].scope) >= MaxAppendAttempts

AnswerInv ==
  /\ read = [a \in Appends |-> read[a]]
  /\ \A r \in events : IsRow(r)
  /\ \A a \in Appends : AppendIsSound(a)

LEMMA InitAnswers == Init => AnswerInv
  BY DEF Init, AnswerInv, AppendIsSound

(* The head of a scope moves forward.                                      *)
Forward ==
  /\ events \subseteq events'
  /\ \A s \in Scopes : /\ head[s].next \in Nat /\ head'[s].next \in Nat
                       /\ head[s].next <= head'[s].next
                       /\ head'[s].next = head[s].next => head'[s].last = head[s].last

LEMMA HeadsMoveForward ==
  ASSUME ChainInv, [Next]_vars
  PROVE  Forward
<1>1. ASSUME NEW a \in Appends, NEW e \in Event, BeginAppend(a, e) PROVE Forward
  <2>1. \A s \in Scopes :
          \/ head'[s] = head[s]
          \/ head[s].next = 0 /\ head'[s] = [next |-> 1, last |-> GENESIS_HASH]
    <3>1. e.scope \in Scopes
      BY DEF Event
    <3> QED
      BY <1>1, <3>1 DEF BeginAppend, ChainInv, Shape
  <2> QED
    BY <1>1, <2>1 DEF Forward, BeginAppend, ChainInv, TypeOK
<1>2. ASSUME NEW a \in Appends, ReadHead(a) \/ AuditChainConflict(a) \/ DuplicateId(a)
                                 \/ AppendError(a)
      PROVE  Forward
  <2>1. head' = head /\ events' = events
    BY <1>2 DEF ReadHead, AuditChainConflict, DuplicateId, AppendError
  <2> QED
    BY <2>1 DEF Forward, ChainInv, TypeOK
<1>3. ASSUME NEW a \in Appends, insertAuditEvent(a) PROVE Forward
  <2>1. PICK e : /\ e.scope \in Scopes /\ e.seq \in Nat \ {0}
                 /\ e.seq = chainLength(e.scope) + 1 /\ e.seq = head[e.scope].next
                 /\ events' = events \cup {e}
                 /\ \A s \in Scopes \ {e.scope} : head'[s] = head[s]
                 /\ head'[e.scope].next = e.seq + 1
    BY <1>3, InsertRow, InsertHeads
  <2> QED
    BY <2>1 DEF Forward, ChainInv, TypeOK
<1>4. CASE UNCHANGED vars
  BY <1>4 DEF vars, Forward, ChainInv, TypeOK
<1> QED
  BY <1>1, <1>2, <1>3, <1>4 DEF Next, Try

LEMMA ForwardLengthens ==
  ASSUME Forward, NEW s \in Scopes
  PROVE  chainLength(s) \in Nat /\ chainLength(s)' \in Nat /\ chainLength(s) <= chainLength(s)'
  BY DEF Forward, chainLength

(* An invocation that is not the one that steps stays sound.               *)
LEMMA OthersStaySound ==
  ASSUME ChainInv, Forward, NEW b \in Appends, AppendIsSound(b),
         event'[b] = event[b], read'[b] = read[b], attempt'[b] = attempt[b],
         pc'[b] = pc[b], answer'[b] = answer[b]
  PROVE  AppendIsSound(b)'
<1>1. event[b] # None => event[b].scope \in Scopes
  BY DEF ChainInv, TypeOK, Event
<1>2. attempt[b] \in Nat
  BY DEF ChainInv, TypeOK
<1>3. pc[b] \in {"readHead", "insert"} => event[b].scope \in Scopes
  BY <1>1 DEF ChainInv, TypeOK
<1>4. event[b] \in Event => event[b].scope \in Scopes
  BY DEF Event
<1>5. pc'[b] \in {"readHead", "insert"} => attempt'[b] <= head'[event'[b].scope].next
  BY <1>2, <1>3 DEF AppendIsSound, Forward
<1>6. pc'[b] = "insert" =>
       /\ read'[b].next \in Nat /\ attempt'[b] <= read'[b].next
       /\ read'[b].next <= head'[event'[b].scope].next
       /\ read'[b].next = head'[event'[b].scope].next => read'[b].last = head'[event'[b].scope].last
  BY <1>2, <1>3 DEF AppendIsSound, Forward
<1>7. answer'[b] # None =>
       /\ pc'[b] = "done" /\ event'[b] \in Event
       /\ answer'[b].outcome = "appended" =>
            \E r \in events' : /\ r.id = event'[b].id /\ r.scope = event'[b].scope
                              /\ r.body = event'[b].body
                              /\ r.seq = answer'[b].seq /\ r.hash = answer'[b].hash
  BY DEF AppendIsSound, Forward
<1>8. answer'[b] # None /\ answer'[b].outcome = "conflict" =>
        chainLength(event[b].scope)' >= MaxAppendAttempts
  <2> SUFFICES ASSUME answer[b] # None, answer[b].outcome = "conflict"
               PROVE  chainLength(event[b].scope)' >= MaxAppendAttempts
    OBVIOUS
  <2>1. PICK s \in Scopes : s = event[b].scope
    BY <1>4 DEF AppendIsSound
  <2>2. chainLength(s) >= MaxAppendAttempts
    BY <2>1 DEF AppendIsSound
  <2>3. chainLength(s)' >= MaxAppendAttempts
    BY <2>2, ForwardLengthens, AuditConstants
  <2> QED
    BY <2>1, <2>3 DEF chainLength
<1> QED
  BY <1>5, <1>6, <1>7, <1>8 DEF AppendIsSound
-----------------------------------------------------------------------------
(* The invocation that steps.                                              *)
LEMMA BeginAnswers ==
  ASSUME ChainInv, AnswerInv, Forward, NEW a \in Appends, NEW e \in Event, BeginAppend(a, e)
  PROVE  AnswerInv'
<1>1. e.scope \in Scopes
  BY DEF Event
<1>2. head'[e.scope].next \in Nat /\ head'[e.scope].next >= 1
  <2>1. \/ head[e.scope].next # 0 /\ head'[e.scope] = head[e.scope]
        \/ head'[e.scope] = [next |-> 1, last |-> GENESIS_HASH]
    BY <1>1 DEF BeginAppend, ChainInv, Shape
  <2>2. head[e.scope].next \in Nat
    BY <1>1 DEF ChainInv, TypeOK
  <2> QED
    BY <2>1, <2>2
<1>3. AppendIsSound(a)'
  <2>1. event'[a] = e /\ attempt'[a] = 1 /\ pc'[a] = "readHead"
    BY DEF BeginAppend, ChainInv, TypeOK
  <2>2. answer'[a] = None
    <3>1. answer' = answer /\ pc[a] = "idle"
      BY DEF BeginAppend
    <3> QED
      BY <3>1 DEF AnswerInv, AppendIsSound
  <2> QED
    BY <1>2, <2>1, <2>2 DEF AppendIsSound
<1>4. \A b \in Appends : b # a => AppendIsSound(b)'
  <2> SUFFICES ASSUME NEW b \in Appends, b # a PROVE AppendIsSound(b)'
    OBVIOUS
  <2>1. /\ event'[b] = event[b] /\ read'[b] = read[b] /\ attempt'[b] = attempt[b]
        /\ pc'[b] = pc[b] /\ answer'[b] = answer[b]
    BY DEF BeginAppend, ChainInv, TypeOK
  <2> QED
    BY <2>1, OthersStaySound DEF AnswerInv
<1>5. read' = read /\ events' = events
  BY DEF BeginAppend
<1> QED
  BY <1>3, <1>4, <1>5 DEF AnswerInv

LEMMA ReadHeadAnswers ==
  ASSUME ChainInv, AnswerInv, Forward, NEW a \in Appends, ReadHead(a)
  PROVE  AnswerInv'
<1>1. /\ head' = head /\ events' = events /\ event' = event /\ attempt' = attempt
      /\ answer' = answer /\ pc[a] = "readHead" /\ pc' = [pc EXCEPT ![a] = "insert"]
      /\ read' = [read EXCEPT ![a] = head[event[a].scope]]
  BY DEF ReadHead
<1>2. event[a] \in Event /\ event[a].scope \in Scopes
  BY <1>1 DEF ChainInv, TypeOK, Event
<1>3. read'[a] = head[event[a].scope] /\ pc'[a] = "insert"
  BY <1>1 DEF AnswerInv, ChainInv, TypeOK
<1>4. AppendIsSound(a)'
  <2>1. answer[a] = None /\ attempt[a] <= head[event[a].scope].next
    BY <1>1 DEF AnswerInv, AppendIsSound
  <2>2. head[event[a].scope].next \in Nat /\ attempt[a] \in Nat
    BY <1>2 DEF ChainInv, TypeOK
  <2> QED
    BY <1>1, <1>3, <2>1, <2>2 DEF AppendIsSound
<1>5. \A b \in Appends : b # a => AppendIsSound(b)'
  <2> SUFFICES ASSUME NEW b \in Appends, b # a PROVE AppendIsSound(b)'
    OBVIOUS
  <2>1. /\ event'[b] = event[b] /\ read'[b] = read[b] /\ attempt'[b] = attempt[b]
        /\ pc'[b] = pc[b] /\ answer'[b] = answer[b]
    BY <1>1 DEF AnswerInv, ChainInv, TypeOK
  <2> QED
    BY <2>1, OthersStaySound DEF AnswerInv
<1> QED
  BY <1>1, <1>4, <1>5 DEF AnswerInv

LEMMA InsertAnswers ==
  ASSUME ChainInv, AnswerInv, Forward, NEW a \in Appends, insertAuditEvent(a)
  PROVE  AnswerInv'
<1> DEFINE e == chainedEvent(a)
           ok == [outcome |-> "appended", seq |-> e.seq, hash |-> e.hash]
           lost == [outcome |-> "error"]
<1>1. /\ e.id = event[a].id /\ e.scope = event[a].scope /\ e.body = event[a].body
      /\ IsRow(e)
  BY DEF chainedEvent, IsRow
<1>2. /\ events' = events \cup {e} /\ event' = event /\ read' = read /\ attempt' = attempt
      /\ pc[a] = "insert" /\ pc' = [pc EXCEPT ![a] = "done"]
      /\ answer' = [answer EXCEPT ![a] = ok] \/ answer' = [answer EXCEPT ![a] = lost]
  BY DEF insertAuditEvent, Finish
<1>3. event[a] \in Event
  BY <1>2 DEF ChainInv, TypeOK
<1>4. /\ ok.outcome = "appended" /\ ok.seq = e.seq /\ ok.hash = e.hash
      /\ lost.outcome = "error"
  OBVIOUS
<1> HIDE DEF e, ok, lost
<1>5. pc'[a] = "done" /\ (answer'[a] = ok \/ answer'[a] = lost)
  BY <1>2 DEF ChainInv, TypeOK, Shape
<1>6. AppendIsSound(a)'
  BY <1>1, <1>2, <1>3, <1>4, <1>5 DEF AppendIsSound
<1>7. \A b \in Appends : b # a => AppendIsSound(b)'
  <2> SUFFICES ASSUME NEW b \in Appends, b # a PROVE AppendIsSound(b)'
    OBVIOUS
  <2>1. /\ event'[b] = event[b] /\ read'[b] = read[b] /\ attempt'[b] = attempt[b]
        /\ pc'[b] = pc[b] /\ answer'[b] = answer[b]
    BY <1>2 DEF ChainInv, TypeOK, Shape
  <2> QED
    BY <2>1, OthersStaySound DEF AnswerInv
<1>8. \A r \in events' : IsRow(r)
  BY <1>1, <1>2 DEF AnswerInv
<1> QED
  BY <1>2, <1>6, <1>7, <1>8 DEF AnswerInv

(* The refusals: the attempt is given up with an error or a conflict, or   *)
(* the head is read once more.                                             *)
LEMMA RefusalAnswers ==
  ASSUME ChainInv, AnswerInv, Forward, NEW a \in Appends,
         AuditChainConflict(a) \/ DuplicateId(a) \/ AppendError(a)
  PROVE  AnswerInv'
<1> DEFINE conflict == [outcome |-> "conflict"]
           error == [outcome |-> "error"]
           s == event[a].scope
<1>1. /\ head' = head /\ events' = events /\ event' = event /\ read' = read
      /\ pc[a] \in {"readHead", "insert"}
  BY DEF AuditChainConflict, DuplicateId, AppendError
<1>2. \/ /\ pc[a] = "insert" /\ ~validateChain(chainedEvent(a)) /\ attempt[a] < MaxAppendAttempts
         /\ attempt' = [attempt EXCEPT ![a] = @ + 1] /\ pc' = [pc EXCEPT ![a] = "readHead"]
         /\ answer' = answer
      \/ /\ pc[a] = "insert" /\ ~validateChain(chainedEvent(a)) /\ attempt[a] = MaxAppendAttempts
         /\ attempt' = attempt /\ pc' = [pc EXCEPT ![a] = "done"]
         /\ answer' = [answer EXCEPT ![a] = conflict]
      \/ /\ attempt' = attempt /\ pc' = [pc EXCEPT ![a] = "done"]
         /\ answer' = [answer EXCEPT ![a] = error]
  BY DEF AuditChainConflict, DuplicateId, AppendError, Finish
<1>3. event[a] \in Event /\ s \in Scopes /\ head[s].next \in Nat /\ head[s].next > 0
  BY <1>1 DEF ChainInv, TypeOK, Event
<1>4. attempt[a] \in Nat /\ answer[a] = None
  BY <1>1 DEF ChainInv, TypeOK, AnswerInv, AppendIsSound
<1>5. conflict.outcome = "conflict" /\ error.outcome = "error"
  OBVIOUS
<1>6. pc[a] = "insert" /\ ~validateChain(chainedEvent(a)) => head[s].next >= attempt[a] + 1
  <2> SUFFICES ASSUME pc[a] = "insert", ~validateChain(chainedEvent(a))
               PROVE  head[s].next >= attempt[a] + 1
    OBVIOUS
  <2>1. head[s].next # read[a].next \/ head[s].last # read[a].last
    BY DEF validateChain, chainedEvent
  <2>2. /\ read[a].next \in Nat /\ attempt[a] <= read[a].next /\ read[a].next <= head[s].next
        /\ read[a].next = head[s].next => read[a].last = head[s].last
    BY DEF AnswerInv, AppendIsSound
  <2> QED
    BY <1>3, <1>4, <2>1, <2>2
<1> HIDE DEF conflict, error
<1>7. AppendIsSound(a)'
  <2>1. CASE /\ pc[a] = "insert" /\ ~validateChain(chainedEvent(a))
             /\ attempt' = [attempt EXCEPT ![a] = @ + 1] /\ pc' = [pc EXCEPT ![a] = "readHead"]
             /\ answer' = answer
    <3>1. attempt'[a] = attempt[a] + 1 /\ pc'[a] = "readHead" /\ answer'[a] = None
      BY <2>1, <1>4 DEF ChainInv, TypeOK
    <3> QED
      BY <3>1, <2>1, <1>1, <1>6 DEF AppendIsSound
  <2>2. CASE /\ pc[a] = "insert" /\ ~validateChain(chainedEvent(a)) /\ attempt[a] = MaxAppendAttempts
             /\ pc' = [pc EXCEPT ![a] = "done"]
             /\ answer' = [answer EXCEPT ![a] = conflict]
    <3>1. pc'[a] = "done" /\ answer'[a] = conflict
      BY <2>2 DEF ChainInv, TypeOK, Shape
    <3>2. chainLength(s) >= MaxAppendAttempts
      BY <2>2, <1>3, <1>4, <1>6 DEF chainLength
    <3>3. chainLength(event[a].scope)' >= MaxAppendAttempts
      BY <3>2, <1>1 DEF chainLength
    <3> QED
      BY <3>1, <3>3, <1>1, <1>3, <1>5 DEF AppendIsSound
  <2>3. CASE /\ pc' = [pc EXCEPT ![a] = "done"]
             /\ answer' = [answer EXCEPT ![a] = error]
    <3>1. pc'[a] = "done" /\ answer'[a] = error
      BY <2>3 DEF ChainInv, TypeOK, Shape
    <3> QED
      BY <3>1, <1>1, <1>3, <1>5 DEF AppendIsSound
  <2> QED
    BY <1>2, <2>1, <2>2, <2>3
<1>8. \A b \in Appends : b # a => AppendIsSound(b)'
  <2> SUFFICES ASSUME NEW b \in Appends, b # a PROVE AppendIsSound(b)'
    OBVIOUS
  <2>1. /\ event'[b] = event[b] /\ read'[b] = read[b] /\ attempt'[b] = attempt[b]
        /\ pc'[b] = pc[b] /\ answer'[b] = answer[b]
    BY <1>1, <1>2 DEF ChainInv, TypeOK, Shape
  <2> QED
    BY <2>1, OthersStaySound DEF AnswerInv
<1> QED
  BY <1>1, <1>7, <1>8 DEF AnswerInv

LEMMA StepAnswers == ChainInv /\ AnswerInv /\ [Next]_vars => AnswerInv'
<1> SUFFICES ASSUME ChainInv, AnswerInv, [Next]_vars PROVE AnswerInv'
  OBVIOUS
<1>1. Forward
  BY HeadsMoveForward
<1>2. CASE Next
  BY <1>1, <1>2, BeginAnswers, ReadHeadAnswers, InsertAnswers, RefusalAnswers DEF Next, Try
<1>3. CASE UNCHANGED vars
  BY <1>3 DEF vars, AnswerInv, AppendIsSound, chainLength
<1> QED
  BY <1>2, <1>3

-----------------------------------------------------------------------------
(* The rows of a scope correspond to the places of its chain.              *)
LEMMA RowsAreThePlaces ==
  ASSUME ChainInv, NEW s \in Scopes
  PROVE  /\ chainLength(s) \in Nat
         /\ IsFiniteSet(Rows(s)) /\ Cardinality(Rows(s)) = chainLength(s)
         /\ \A k \in 1..chainLength(s) : Cardinality({q \in Rows(s) : q.seq < k}) = k - 1
<1> DEFINE n == chainLength(s)
           place == [k \in 1..n |-> rowAt(s, k)]
<1>1. n \in Nat
  BY DEF chainLength, ChainInv, TypeOK
<1>2. \A r \in Rows(s) : r.seq \in 1..n /\ r = rowAt(s, r.seq)
  BY RowAtIsTheRow DEF Rows, ChainInv, LinearHistory
<1>3. \A k \in 1..n : rowAt(s, k) \in Rows(s) /\ rowAt(s, k).seq = k
  BY RowAtIsTheRow DEF Rows
<1> HIDE DEF n
<1>4. ASSUME NEW k \in 0..n
      PROVE  LET T == {q \in Rows(s) : q.seq <= k} IN IsFiniteSet(T) /\ Cardinality(T) = k
  <2> DEFINE T == {q \in Rows(s) : q.seq <= k}
             f == [j \in 1..k |-> rowAt(s, j)]
  <2>1. k \in Nat /\ \A j \in 1..k : j \in 1..n
    BY <1>1
  <2>2. f \in [1..k -> T]
    BY <1>3, <2>1
  <2>3. \A i, j \in 1..k : f[i] = f[j] => i = j
    BY <1>3, <2>1
  <2>4. \A r \in T : \E j \in 1..k : f[j] = r
    <3> SUFFICES ASSUME NEW r \in T PROVE \E j \in 1..k : f[j] = r
      OBVIOUS
    <3>1. r.seq \in 1..k /\ r = rowAt(s, r.seq)
      BY <1>1, <1>2
    <3> QED
      BY <3>1
  <2>5. ExistsBijection(1..k, T)
    BY <2>2, <2>3, <2>4, Fun_IsBij, Fun_ExistsBij
  <2> HIDE DEF T
  <2>6. Cardinality(T) = k
    BY <2>1, <2>5, FS_CountingElements
  <2>7. IsFiniteSet(T)
    BY <2>1, <2>5, FS_NatBijection
  <2> QED
    BY <2>6, <2>7 DEF T
<1>5. IsFiniteSet(Rows(s)) /\ Cardinality(Rows(s)) = n
  <2>1. n \in 0..n
    BY <1>1
  <2>2. {q \in Rows(s) : q.seq <= n} = Rows(s)
    BY <1>1, <1>2
  <2> QED
    BY <2>1, <2>2, <1>4
<1>6. \A k \in 1..n : Cardinality({q \in Rows(s) : q.seq < k}) = k - 1
  <2> SUFFICES ASSUME NEW k \in 1..n PROVE Cardinality({q \in Rows(s) : q.seq < k}) = k - 1
    OBVIOUS
  <2>1. k - 1 \in 0..n
    BY <1>1
  <2>2. {q \in Rows(s) : q.seq <= k - 1} = {q \in Rows(s) : q.seq < k}
    BY <1>1, <1>2
  <2> QED
    BY <2>1, <2>2, <1>4
<1> QED
  BY <1>1, <1>5, <1>6 DEF n

LEMMA SoundAppends == Spec => [](ChainInv /\ AnswerInv)
<1>1. Init => ChainInv /\ AnswerInv
  BY InitChain, InitAnswers
<1>2. ChainInv /\ AnswerInv /\ [Next]_vars => (ChainInv /\ AnswerInv)'
  BY StepChain, StepAnswers
<1> QED
  BY <1>1, <1>2, PTL DEF Spec

(* Every reachable state of the audit log is well typed, for any writers,  *)
(* scopes and number of attempts.                                          *)
THEOREM AuditTypes == Spec => []TypeOK
<1>1. ChainInv => TypeOK
  BY DEF ChainInv
<1> QED
  BY <1>1, SoundAppends, PTL

(* An appended answer names a row of the chain, and a conflict means that  *)
(* other writers appended as often as it was tried (audit-log.ts           *)
(* append): the safety half of AppendsEndHonestly.                         *)
THEOREM AppendAnswersAreHonest == Spec => []AppendAnswerIsHonest
<1>1. ChainInv /\ AnswerInv => AppendAnswerIsHonest
  <2> SUFFICES ASSUME ChainInv, AnswerInv, NEW a \in Appends, answer[a] # None
               PROVE  /\ answer[a].outcome = "appended" =>
                           \E r \in events : /\ r.id = event[a].id /\ r.scope = event[a].scope
                                             /\ r.body = event[a].body
                                             /\ r.seq = answer[a].seq /\ r.hash = answer[a].hash
                      /\ answer[a].outcome = "conflict" =>
                           Cardinality(Rows(event[a].scope)) >= MaxAppendAttempts
    BY DEF AppendAnswerIsHonest
  <2>1. AppendIsSound(a)
    BY DEF AnswerInv
  <2>2. event[a].scope \in Scopes
    BY <2>1 DEF AppendIsSound, Event
  <2>3. Cardinality(Rows(event[a].scope)) = chainLength(event[a].scope)
    BY <2>2, RowsAreThePlaces
  <2> QED
    BY <2>1, <2>3 DEF AppendIsSound
<1> QED
  BY <1>1, SoundAppends, PTL
-----------------------------------------------------------------------------
(* What list returns: the chain itself, one row at each of its places.     *)
IsChain(rows, n) ==
  /\ Len(rows) = n /\ rows = [k \in 1..n |-> rows[k]]
  /\ \A k \in 1..n :
       /\ IsRow(rows[k]) /\ rows[k].seq = k /\ rows[k].hash = hashAuditEvent(rows[k])
       /\ rows[k].prev = IF k = 1 THEN GENESIS_HASH ELSE rows[k-1].hash

LEMMA LenOfFunction ==
  ASSUME NEW n \in Nat, NEW f, f = [k \in 1..n |-> f[k]]
  PROVE  Len(f) = n
<1> DEFINE S == {f[k] : k \in 1..n}
<1>1. f \in [1..n -> S]
  OBVIOUS
<1> HIDE DEF S
<1>2. f \in Seq(S) /\ Len(f) = n
  BY <1>1
<1> QED
  BY <1>2

LEMMA ListIsChain ==
  ASSUME ChainInv, AnswerInv, NEW s \in Scopes
  PROVE  IsChain(list(s), chainLength(s)) /\ chainLength(s) \in Nat
<1> DEFINE n == chainLength(s)
<1>1. n \in Nat /\ Cardinality(Rows(s)) = n
  BY RowsAreThePlaces
<1>2. \A k \in 1..n : rowAt(s, k) \in Rows(s) /\ rowAt(s, k).seq = k
  BY RowAtIsTheRow DEF Rows
<1>3. \A r \in Rows(s) : r.seq \in 1..n /\ r = rowAt(s, r.seq)
  BY RowAtIsTheRow DEF Rows, ChainInv, LinearHistory
<1>4. \A r \in Rows(s) : Cardinality({q \in Rows(s) : q.seq < r.seq}) = r.seq - 1
  BY <1>3, RowsAreThePlaces
<1>5. list(s) = [k \in 1..n |->
        CHOOSE r \in Rows(s) : Cardinality({q \in Rows(s) : q.seq < r.seq}) = k - 1]
  BY <1>1 DEF list
<1> HIDE DEF n
<1>6. \A k \in 1..n : list(s)[k] = rowAt(s, k)
  <2> SUFFICES ASSUME NEW k \in 1..n PROVE list(s)[k] = rowAt(s, k)
    OBVIOUS
  <2> DEFINE P(r) == Cardinality({q \in Rows(s) : q.seq < r.seq}) = k - 1
  <2>1. rowAt(s, k) \in Rows(s) /\ P(rowAt(s, k))
    BY <1>2, <1>4
  <2>2. \A r \in Rows(s) : P(r) => r = rowAt(s, k)
    <3> SUFFICES ASSUME NEW r \in Rows(s), P(r) PROVE r = rowAt(s, k)
      OBVIOUS
    <3>1. r.seq \in 1..n /\ r = rowAt(s, r.seq)
      BY <1>3
    <3>2. r.seq - 1 = k - 1
      BY <1>4
    <3>3. r.seq = k
      BY <3>1, <3>2, <1>1
    <3> QED
      BY <3>1, <3>3
  <2>3. list(s)[k] = CHOOSE r \in Rows(s) : P(r)
    BY <1>5
  <2> HIDE DEF P
  <2> QED
    BY <2>1, <2>2, <2>3
<1>7. list(s) = [k \in 1..n |-> list(s)[k]]
  BY <1>5
<1>8. Len(list(s)) = n
  BY <1>1, <1>7, LenOfFunction
<1>9. \A k \in 1..n :
       /\ IsRow(list(s)[k]) /\ list(s)[k].seq = k /\ list(s)[k].hash = hashAuditEvent(list(s)[k])
       /\ list(s)[k].prev = IF k = 1 THEN GENESIS_HASH ELSE list(s)[k-1].hash
  <2> SUFFICES ASSUME NEW k \in 1..n
               PROVE  LET r == rowAt(s, k) IN
                      /\ IsRow(r) /\ r.seq = k /\ r.hash = hashAuditEvent(r)
                      /\ r.prev = IF k = 1 THEN GENESIS_HASH ELSE list(s)[k-1].hash
    BY <1>6
  <2>1. rowAt(s, k) \in events /\ rowAt(s, k).scope = s /\ rowAt(s, k).seq = k
    BY <1>2 DEF Rows
  <2>2. IsRow(rowAt(s, k)) /\ rowAt(s, k).hash = hashAuditEvent(rowAt(s, k))
    BY <2>1 DEF AnswerInv, ChainInv, LinearHistory
  <2>3. CASE k = 1
    BY <2>1, <2>2, <2>3 DEF ChainInv, LinearHistory
  <2>4. CASE k # 1
    <3>1. k - 1 \in 1..n
      BY <1>1, <2>4
    <3>2. /\ rowAt(s, k - 1) \in events /\ rowAt(s, k - 1).scope = s
          /\ rowAt(s, k).seq = rowAt(s, k - 1).seq + 1
      BY <1>1, <1>2, <2>1, <3>1 DEF Rows
    <3>3. rowAt(s, k).prev = rowAt(s, k - 1).hash
      BY <2>1, <3>2 DEF ChainInv, LinearHistory
    <3> QED
      BY <2>1, <2>2, <2>4, <3>1, <3>3, <1>6
  <2> QED
    BY <2>3, <2>4
<1> QED
  BY <1>1, <1>7, <1>8, <1>9 DEF IsChain, n

-----------------------------------------------------------------------------
(* The verifier: it accepts when no row fails, and otherwise names the     *)
(* first that does.                                                        *)
LEMMA VerifierRejects ==
  ASSUME NEW rows, NEW k \in 1..Len(rows), failure(rows, k) # "none"
  PROVE  ~verifyEvents(rows).valid
  BY DEF verifyEvents

LEMMA VerifierAccepts ==
  ASSUME NEW rows, \A k \in 1..Len(rows) : failure(rows, k) = "none"
  PROVE  verifyEvents(rows).valid
<1>1. {k \in 1..Len(rows) : failure(rows, k) # "none"} = {}
  OBVIOUS
<1> QED
  BY <1>1 DEF verifyEvents

LEMMA VerifierNames ==
  ASSUME NEW rows, NEW k \in 1..Len(rows), failure(rows, k) # "none",
         \A j \in 1..Len(rows) : j # k => failure(rows, j) = "none"
  PROVE  verifyEvents(rows) = [valid |-> FALSE, sequence |-> rows[k].seq, failure |-> failure(rows, k)]
<1> DEFINE bad == {j \in 1..Len(rows) : failure(rows, j) # "none"}
<1>1. bad = {k}
  OBVIOUS
<1>2. bad # {} /\ (CHOOSE j \in bad : \A i \in bad : j <= i) = k
  BY <1>1
<1> QED
  BY <1>2 DEF verifyEvents

LEMMA ChainIsAccepted ==
  ASSUME NEW n \in Nat, NEW rows, IsChain(rows, n)
  PROVE  verifyEvents(rows).valid
<1>1. \A k \in 1..Len(rows) : failure(rows, k) = "none"
  BY DEF IsChain, failure
<1> QED
  BY <1>1, VerifierAccepts

LEMMA ChainRow ==
  ASSUME NEW n \in Nat, NEW rows, IsChain(rows, n), NEW j \in 1..n
  PROVE  /\ rows[j].seq = j /\ rows[j].hash = hashAuditEvent(rows[j])
         /\ rows[j].prev = IF j = 1 THEN GENESIS_HASH ELSE rows[j-1].hash
<1>1. \A k \in 1..n : /\ rows[k].seq = k /\ rows[k].hash = hashAuditEvent(rows[k])
                      /\ rows[k].prev = IF k = 1 THEN GENESIS_HASH ELSE rows[k-1].hash
  BY Zenon DEF IsChain
<1> QED BY <1>1, Zenon

(* A body other than the one that was hashed: the hash tells.              *)
LEMMA ForgedBodyIsNamed ==
  ASSUME NEW n \in Nat, NEW rows, IsChain(rows, n), NEW k \in 1..n, NEW b, b # rows[k].body
  PROVE  verifyEvents([rows EXCEPT ![k].body = b]) =
           [valid |-> FALSE, sequence |-> k, failure |-> "event_hash_mismatch"]
<1> DEFINE forged == [rows EXCEPT ![k].body = b]
           x == [rows[k] EXCEPT !.body = b]
<1>1. /\ x.seq = rows[k].seq /\ x.prev = rows[k].prev /\ x.hash = rows[k].hash
      /\ x.id = rows[k].id /\ x.scope = rows[k].scope /\ x.body = b
  BY DEF IsChain, IsRow
<1>2. forged = [rows EXCEPT ![k] = x]
  OBVIOUS
<1> HIDE DEF x
<1>3. forged = [j \in 1..n |-> forged[j]] /\ \A j \in 1..n : forged[j] = IF j = k THEN x ELSE rows[j]
  BY <1>2 DEF IsChain
<1> HIDE DEF forged
<1>4. Len(forged) = n
  BY <1>3, LenOfFunction
<1>5. \A j \in 1..n : forged[j].seq = j /\ forged[j].hash = rows[j].hash /\ forged[j].prev = rows[j].prev
  BY <1>1, <1>3, ChainRow
<1>6. \A j \in 1..n : j # k => failure(forged, j) = "none"
  <2> SUFFICES ASSUME NEW j \in 1..n, j # k PROVE failure(forged, j) = "none"
    OBVIOUS
  <2>1. forged[j] = rows[j]
    BY <1>3
  <2>2. j # 1 => j - 1 \in 1..n
    OBVIOUS
  <2>3. forged[j].prev = IF j = 1 THEN GENESIS_HASH ELSE forged[j-1].hash
    BY <1>5, <2>2, ChainRow
  <2>4. rows[j].seq = j /\ rows[j].hash = hashAuditEvent(rows[j])
    BY ChainRow
  <2> QED
    BY <2>1, <2>3, <2>4 DEF failure
<1>7. failure(forged, k) = "event_hash_mismatch"
  <2>1. forged[k] = x
    BY <1>3
  <2>2. k # 1 => k - 1 \in 1..n
    OBVIOUS
  <2>3. forged[k].prev = IF k = 1 THEN GENESIS_HASH ELSE forged[k-1].hash
    BY <1>5, <2>2, ChainRow
  <2>4. forged[k].hash # hashAuditEvent(forged[k]) /\ forged[k].seq = k
    <3>0. rows[k].hash = hashAuditEvent(rows[k])
      BY ChainRow
    <3>1. x.hash = <<x.id, x.scope, x.seq, rows[k].body, x.prev>>
      BY <1>1, <3>0 DEF hashAuditEvent
    <3>2. hashAuditEvent(x) = <<x.id, x.scope, x.seq, b, x.prev>>
      BY <1>1 DEF hashAuditEvent
    <3>3. \A i, t, q, c, p : <<i, t, q, c, p>>[4] = c
      OBVIOUS
    <3>4. x.hash # hashAuditEvent(x)
      BY <3>1, <3>2, <3>3
    <3> QED
      BY <1>5, <2>1, <3>4
  <2> QED
    BY <2>3, <2>4 DEF failure
<1>8. verifyEvents(forged) =
        [valid |-> FALSE, sequence |-> forged[k].seq, failure |-> failure(forged, k)]
  BY <1>4, <1>6, <1>7, VerifierNames
<1> QED
  BY <1>5, <1>7, <1>8 DEF forged

(* A row that is missing leaves a place to the row after it.               *)
LEMMA MissingRowIsFound ==
  ASSUME NEW n \in Nat, NEW rows, IsChain(rows, n), NEW k \in 1..(n - 1)
  PROVE  ~verifyEvents(Without(rows, k)).valid
<1> DEFINE less == Without(rows, k)
<1>1. Len(rows) = n /\ n - 1 \in Nat
  BY DEF IsChain
<1>2. less = [j \in 1..(n - 1) |-> less[j]] /\ less[k] = rows[k + 1]
  BY <1>1 DEF Without
<1> HIDE DEF less
<1>3. Len(less) = n - 1
  BY <1>1, <1>2, LenOfFunction
<1>4. less[k].seq = k + 1
  <2>1. k + 1 \in 1..n
    OBVIOUS
  <2> QED
    BY <1>2, <2>1 DEF IsChain
<1>5. failure(less, k) # "none"
  BY <1>4 DEF failure
<1> QED
  BY <1>3, <1>5, VerifierRejects DEF less

LEMMA SwappedRowsAreFound ==
  ASSUME NEW n \in Nat, NEW rows, IsChain(rows, n), NEW j \in 1..n, NEW k \in 1..n, j < k
  PROVE  ~verifyEvents(Swapped(rows, j, k)).valid
<1> DEFINE other == Swapped(rows, j, k)
<1>1. other = [i \in 1..n |-> other[i]] /\ other[j] = rows[k]
  BY DEF Swapped, IsChain
<1> HIDE DEF other
<1>2. Len(other) = n
  BY <1>1, LenOfFunction
<1>3. other[j].seq = k
  BY <1>1 DEF IsChain
<1>4. failure(other, j) # "none"
  BY <1>3 DEF failure
<1> QED
  BY <1>2, <1>4, VerifierRejects DEF other

(* verifyEvents accepts every chain the writers produce and finds the      *)
(* place of a changed, swapped or removed row, for chains of any length.   *)
THEOREM TamperingIsDetected == Spec => []TamperIsDetected
<1>1. ChainInv /\ AnswerInv => TamperIsDetected
  <2> SUFFICES ASSUME ChainInv, AnswerInv, NEW s \in Scopes
               PROVE  LET rows == list(s) n == Len(rows) IN
                      /\ verifyEvents(rows).valid
                      /\ \A k \in 1..n : \A b \in Bodies \ {rows[k].body} :
                           verifyEvents([rows EXCEPT ![k].body = b]) =
                             [valid |-> FALSE, sequence |-> k, failure |-> "event_hash_mismatch"]
                      /\ \A k \in 1..(n - 1) : ~verifyEvents(Without(rows, k)).valid
                      /\ \A j, k \in 1..n : j < k => ~verifyEvents(Swapped(rows, j, k)).valid
    BY DEF TamperIsDetected
  <2> DEFINE rows == list(s)
             n == Len(rows)
  <2>1. n \in Nat /\ IsChain(rows, n)
    BY ListIsChain DEF IsChain
  <2> HIDE DEF rows, n
  <2>2. verifyEvents(rows).valid
    BY <2>1, ChainIsAccepted
  <2>3. \A k \in 1..n : \A b \in Bodies \ {rows[k].body} :
          verifyEvents([rows EXCEPT ![k].body = b]) =
            [valid |-> FALSE, sequence |-> k, failure |-> "event_hash_mismatch"]
    BY <2>1, ForgedBodyIsNamed
  <2>4. \A k \in 1..(n - 1) : ~verifyEvents(Without(rows, k)).valid
    BY <2>1, MissingRowIsFound
  <2>5. \A j, k \in 1..n : j < k => ~verifyEvents(Swapped(rows, j, k)).valid
    BY <2>1, SwappedRowsAreFound
  <2> QED
    BY <2>2, <2>3, <2>4, <2>5 DEF rows, n
<1> QED
  BY <1>1, SoundAppends, PTL
=============================================================================
