-------------------------- MODULE SlackCredential --------------------------
(***************************************************************************)
(* The encrypted Slack credential of each tenant and its refresh (slack-   *)
(* credential-lifecycle.ts, slack-token-refresh-client.ts) over the        *)
(* compare-and-swap of the secret store. A refresh token may be used once: *)
(* the record is staged as refreshing before Slack is called.              *)
(* compareAndSwapSecret reads and decrypts the record, and in a second     *)
(* step replaces it if its ciphertext is still the same.                   *)
(***************************************************************************)
EXTENDS SecretStore, FiniteSets

CONSTANTS Calls,           \* invocations of the lifecycle and of the OAuth callback
          TokenTtl,        \* lifetime of an access token
          RefreshWindow,   \* refresh skew and jitter before the expiry
          AttemptTimeout   \* after which a staged refresh is given up

ASSUME LifecycleConstants ==
  TokenTtl \in Nat /\ RefreshWindow \in Nat /\ AttemptTimeout \in Nat \ {0} /\ MaxWrites \in Nat

VARIABLES
  submitted,  \* external: the refresh tokens sent to Slack, and by which call
  req,        \* the request each call serves
  pc,
  at,         \* the time each call read
  cas,        \* the compare-and-swap each call is making
  lastPut     \* history: the callback that last stored each tenant's credential

callVars == <<req, pc, at, cas>>

(* A credential pair is named by the callback that connected it and its    *)
(* generation.                                                             *)
Token == [connect : Calls, generation : Nat]
Credential == [status : {"ready", "refreshing", "intervention_required"}, token : Token,
               expires : Nat, started : Nat \cup {None}]
         \cup [status : {"static"}, token : Token]    \* a token Slack does not rotate

CallInit ==
  /\ submitted = {}
  /\ req = [c \in Calls |-> None] /\ pc = [c \in Calls |-> "idle"]
  /\ at = [c \in Calls |-> 0] /\ cas = [c \in Calls |-> None]
  /\ lastPut = [t \in Tenants |-> None]

-----------------------------------------------------------------------------
Goto(c, phase) == pc' = [pc EXCEPT ![c] = phase]
Swapping(c, swap) == cas' = [cas EXCEPT ![c] = swap]

(* The call returns or throws; what it held is gone.                       *)
End(c) == Goto(c, "done") /\ Swapping(c, None) /\ at' = [at EXCEPT ![c] = 0]

(* refreshIfDue returned: resolveAccessToken goes on to read the token.    *)
Return(c) ==
  IF req[c].op = "resolve" THEN Goto(c, "resolved") /\ Swapping(c, None) /\ UNCHANGED at
  ELSE End(c)

compareAndSwapSecret(c, purpose, expected, next) ==
  /\ Swapping(c, [purpose |-> purpose, expected |-> expected, next |-> next, record |-> None])
  /\ Goto(c, "compare") /\ UNCHANGED at

intervention(value) == [value EXCEPT !.status = "intervention_required", !.started = None]
persistIntervention(c, value) == compareAndSwapSecret(c, "intervene", value, intervention(value))

(* The swap was not matched: another call refreshes, or the state changed  *)
(* and the call throws.                                                    *)
Unmatched(c) == IF cas[c].purpose = "stage" THEN Return(c) ELSE End(c)

(* Once staged, Slack is called; once the intervention is stored, the call *)
(* throws.                                                                 *)
Matched(c) ==
  \/ cas[c].purpose = "stage" /\ Goto(c, "exchange") /\ UNCHANGED <<at, cas>>
  \/ cas[c].purpose = "commit" /\ Return(c)
  \/ cas[c].purpose \in {"intervene", "rotate"} /\ End(c)

(* The call to the secret store rejected, before or after it took effect;  *)
(* only the commit is inside the try block.                                *)
Rejected(c) ==
  IF cas[c].purpose = "commit" THEN persistIntervention(c, cas[c].expected) ELSE End(c)

-----------------------------------------------------------------------------

valueOf(t) == IF secret[t] = None THEN None ELSE secret[t].value
recordOf(t) == IF secret[t] = None THEN None ELSE secret[t].record

(* A record that cannot be read rejects the call.                          *)
Compare(c) ==
  LET t == req[c].tenant IN
  /\ pc[c] = "compare"
  /\ \/ valueOf(t) # cas[c].expected /\ Unmatched(c)
     \/ /\ valueOf(t) = cas[c].expected /\ (secret[t] = None \/ getSecret(t))
        /\ Swapping(c, [cas[c] EXCEPT !.record = recordOf(t)]) /\ Goto(c, "swap") /\ UNCHANGED at
     \/ Rejected(c)
  /\ UNCHANGED <<secretVars, submitted, req, lastPut>>

replaceIfUnchanged(c) ==
  LET t == req[c].tenant IN
  /\ pc[c] = "swap"
  /\ \/ /\ recordOf(t) = cas[c].record
        /\ putSecret(t, cas[c].next)
        /\ Matched(c) \/ Rejected(c)
     \/ /\ recordOf(t) # cas[c].record /\ Unmatched(c)
        /\ UNCHANGED secretVars
     \/ Rejected(c) /\ UNCHANGED secretVars
  /\ UNCHANGED <<submitted, req, lastPut>>

(* The tenants whose object is in the second part of a compare-and-swap.   *)
swapping == {req[c].tenant : c \in {d \in Calls : pc[d] = "swap"}}

-----------------------------------------------------------------------------
(* The lifecycle.  resolveAccessToken looks at the credential before and   *)
(* after refreshIfDue.                                                     *)
Accept(c, r) == pc[c] = "idle" /\ req' = [req EXCEPT ![c] = r]

BeginLifecycle(c) ==
  \E t \in Tenants, op \in {"refresh", "resolve"} :
    /\ Accept(c, [op |-> op, tenant |-> t])
    /\ at' = [at EXCEPT ![c] = clock]
    /\ Goto(c, IF op = "refresh" THEN "refresh" ELSE "resolve")
    /\ UNCHANGED <<secretVars, submitted, cas, lastPut>>

(* Otherwise the store or parseState throws.                               *)
usable(t) == getSecret(t) /\ secret[t].value.status \in {"ready", "refreshing", "intervention_required"}

(* The answers that throw: invalid state, intervention required, expired.  *)
resolveAccessToken(c) ==
  LET stored == secret[req[c].tenant] IN
  /\ pc[c] \in {"resolve", "resolved"}
  /\ \/ ~usable(req[c].tenant) /\ End(c)
     \/ /\ usable(req[c].tenant)
        /\ stored.value.status = "intervention_required" \/ stored.value.expires <= clock
        /\ End(c)
     \/ /\ usable(req[c].tenant)
        /\ stored.value.status # "intervention_required" /\ stored.value.expires > clock
        /\ IF pc[c] = "resolve"
           THEN Goto(c, "refresh") /\ at' = [at EXCEPT ![c] = clock] /\ UNCHANGED cas
           ELSE End(c)
  /\ UNCHANGED <<secretVars, submitted, req, lastPut>>

due(c, value) == at[c] + RefreshWindow >= value.expires
stale(c, value) == at[c] >= value.started + AttemptTimeout

refreshIfDue(c) ==
  LET stored == secret[req[c].tenant] value == stored.value IN
  /\ pc[c] = "refresh"
  /\ \/ ~usable(req[c].tenant) /\ End(c)
     \/ usable(req[c].tenant) /\ value.status = "intervention_required" /\ End(c)
     \/ /\ usable(req[c].tenant) /\ value.status = "refreshing"
        /\ IF stale(c, value) THEN persistIntervention(c, value) ELSE Return(c)
     \/ /\ usable(req[c].tenant) /\ value.status = "ready"
        /\ IF due(c, value)
           THEN compareAndSwapSecret(c, "stage", value,
                  [value EXCEPT !.status = "refreshing", !.started = at[c]])
           ELSE Return(c)
  /\ UNCHANGED <<secretVars, submitted, req, lastPut>>

(***************************************************************************)
(* What Slack answers: a body that says ok or not, with or without a       *)
(* refresh token and an expiry, for one workspace or an organisation; or   *)
(* nothing that can be read within the timeout.                            *)
(***************************************************************************)
SlackAnswers == [ok : BOOLEAN, refreshToken : BOOLEAN, expiresIn : BOOLEAN, enterprise : BOOLEAN] \cup {None}

refreshed(answer) == answer # None /\ answer.ok /\ answer.refreshToken /\ answer.expiresIn /\ ~answer.enterprise

(* Mutated: a refresh that failed is undone, to be tried again.            *)
refresh_Retry(c) ==
  LET staged == cas[c].next IN
  /\ pc[c] = "exchange"
  /\ submitted' = submitted \cup {[token |-> staged.token, by |-> c]}
  /\ compareAndSwapSecret(c, "intervene", staged, [staged EXCEPT !.status = "ready", !.started = None])
  /\ UNCHANGED <<secretVars, req, lastPut>>

(* Slack answers a new pair, or else the token may be spent all the same.  *)
refresh(c) ==
  LET staged == cas[c].next IN
  /\ pc[c] = "exchange"
  /\ submitted' = submitted \cup {[token |-> staged.token, by |-> c]}
  /\ \E answer \in SlackAnswers :
        IF refreshed(answer)
        THEN compareAndSwapSecret(c, "commit", staged,
               [status |-> "ready", token |-> [staged.token EXCEPT !.generation = @ + 1],
                expires |-> at[c] + TokenTtl, started |-> None])
        ELSE persistIntervention(c, staged)
  /\ UNCHANGED <<secretVars, req, lastPut>>

(* The isolate dies, or a call it awaits rejects, before or after that     *)
(* call took effect; nobody resumes it.                                    *)
Crash(c) ==
  /\ pc[c] \notin {"idle", "done"}
  /\ End(c)
  /\ UNCHANGED <<secretVars, submitted, req, lastPut>>

Lifecycle(c) == \/ resolveAccessToken(c) \/ refreshIfDue(c) \/ refresh(c)

Swap(c) == Compare(c) \/ replaceIfUnchanged(c)

-----------------------------------------------------------------------------
(* No two calls send one refresh token to Slack ("Concurrent requests ...  *)
(* that lose that CAS do not call Slack"), also when a call stalled, timed *)
(* out or lost the answer of the secret store.                             *)
SubmittedOnce == \A m, n \in submitted : m.token = n.token => m.by = n.by

(* A credential that is ready holds a refresh token nobody has sent to     *)
(* Slack: whatever was lost, a spent token never becomes the stored one.   *)
ReadyIsUnspent ==
  \A t \in Tenants : secret[t] # None /\ secret[t].value.status = "ready" =>
    \A m \in submitted : m.token # secret[t].value.token

(* The two together: a refresh token is used at most once.                 *)
RefreshTokenIsUsedOnce == SubmittedOnce /\ ReadyIsUnspent

(* An OAuth reconnect is never lost: what is stored descends from the last *)
(* credential a callback stored, whatever refresh or key rotation was      *)
(* under way ("an OAuth reconnect cannot be lost between decrypt and       *)
(* write").                                                                *)
ReconnectIsKept ==
  \A t \in Tenants : lastPut[t] # None => secret[t].value.token.connect = lastPut[t]

(* What is stored is the last credential, and readable.                    *)
CredentialIsKept == ReconnectIsKept /\ SecretIsReadable
=============================================================================
