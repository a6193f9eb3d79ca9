-------------------------- MODULE OAuthStateStore --------------------------
(***************************************************************************)
(* The Durable Object that keeps the one-time OAuth states                 *)
(* (oauth-state-store.ts).  Issue, consume and the expiry alarm each run   *)
(* under blockConcurrencyWhile, so each is one step; a step may still fail *)
(* between its alarm call and its storage transaction.  The state and the  *)
(* browser binding of a flow are random, so the flow names both.           *)
(***************************************************************************)
EXTENDS Naturals

CONSTANTS Flows,        \* OAuth states, each with the binding of the browser that started it
          Tenants,
          StateTtl,     \* lifetime of a state
          ClockSkew,    \* accepted difference between the Worker's and the object's clock (5s)
          None

ASSUME StateStoreConstants ==
  /\ StateTtl \in Nat \ {0} /\ ClockSkew \in Nat
  /\ None \notin Nat

VARIABLES
  clock,
  flow,    \* the object's records, by state
  alarm,   \* the scheduled alarm, or None
  issued   \* history: the record each flow was issued with

storeVars == <<flow, alarm, issued>>

FlowRecord == [tenant : Tenants, binding : Flows, expires : Nat]

StoreTypeOK ==
  /\ clock \in Nat
  /\ flow \in [Flows -> FlowRecord \cup {None}]
  /\ issued \in [Flows -> FlowRecord \cup {None}]
  /\ alarm \in Nat \cup {None}

StoreInit ==
  /\ clock = 0 /\ alarm = None
  /\ flow = [f \in Flows |-> None]
  /\ issued = [f \in Flows |-> None]

-----------------------------------------------------------------------------

scheduleEarlierAlarm(expires) == IF alarm = None \/ expires < alarm THEN expires ELSE alarm

(* The Worker's clock gives issuedAt.  A response that is lost is a flow   *)
(* its browser abandons: nobody calls back.                                *)
issue(f, t, issuedAt) ==
  LET record == [tenant |-> t, binding |-> f, expires |-> issuedAt + StateTtl] IN
  /\ issued[f] = None
  /\ issuedAt <= clock + ClockSkew /\ clock <= issuedAt + ClockSkew
  /\ alarm' = scheduleEarlierAlarm(record.expires)
  /\ \/ flow' = [flow EXCEPT ![f] = record] /\ issued' = [issued EXCEPT ![f] = record]
     \/ UNCHANGED <<flow, issued>>      \* the transaction failed after the alarm was set
  /\ UNCHANGED clock

(* What consume answers, and what it leaves; a mismatched browser must not *)
(* invalidate the flow.                                                    *)
consumed(f, binding) ==
  IF flow[f] # None /\ flow[f].expires > clock /\ flow[f].binding = binding THEN flow[f] ELSE None

(* Mutated: the record stays.                                              *)
afterConsume_Keep(f, binding) == flow

afterConsume(f, binding) ==
  IF flow[f] # None /\ (flow[f].expires <= clock \/ flow[f].binding = binding)
  THEN [flow EXCEPT ![f] = None] ELSE flow

(* The alarm handler: sweep, then schedule the earliest expiry that is     *)
(* left.  A handler that threw after the sweep is retried by the runtime.  *)
live(f) == flow[f] # None /\ flow[f].expires > clock
scheduleNextAlarm ==
  IF \E f \in Flows : live(f)
  THEN LET f == CHOOSE f \in Flows : live(f) /\ \A g \in Flows : live(g) => flow[f].expires <= flow[g].expires
       IN  flow[f].expires
  ELSE None
sweep ==
  /\ alarm # None /\ alarm <= clock
  /\ flow' = [f \in Flows |-> IF live(f) THEN flow[f] ELSE None]
  /\ alarm' \in {alarm, scheduleNextAlarm}
  /\ UNCHANGED <<clock, issued>>

(* Bound: time goes as far as "until".                                      *)
Tick(until) == clock < until /\ clock' = clock + 1 /\ UNCHANGED storeVars

-----------------------------------------------------------------------------
(* Every record has an alarm no later than its expiry ("Scheduling before  *)
(* the write prevents an alarm failure from committing a record that can   *)
(* never be swept"), whatever order records are issued, consumed and swept *)
(* in and whichever clock dated them.                                      *)
SweepScheduled ==
  \A f \in Flows : flow[f] # None => alarm # None /\ alarm <= flow[f].expires
=============================================================================
