------------------------ MODULE ProviderTokenRotation ------------------------
(***************************************************************************)
(* The rotation of a provider's tokens by concurrent operators, over the   *)
(* compare-and-swap of the secret store (provider-token-rotation-          *)
(* store.ts).                                                              *)
(***************************************************************************)
EXTENDS SlackCredential

CONSTANT TokenIds

tokensOf(t) == IF secret[t] # None /\ secret[t].value.status = "rotation" THEN secret[t].value ELSE None

readState(t) == IF getSecret(t) THEN tokensOf(t) ELSE None

Rotation == INSTANCE TokenRotation WITH tokens <- [t \in Tenants |-> tokensOf(t)]

RotationRequest ==
  [op : Rotation!Operations \cup {"initialize"}, id : TokenIds, tenant : Tenants]

BeginRotation(c) ==
  /\ \E r \in RotationRequest : Accept(c, r)
  /\ Goto(c, "rotate")
  /\ UNCHANGED <<secretVars, submitted, at, cas, lastPut>>

(***************************************************************************)
(* A first state is stored where there is none.                            *)
(***************************************************************************)
initialize(c) ==
  /\ pc[c] = "rotate" /\ req[c].op = "initialize"
  /\ compareAndSwapSecret(c, "rotate", None, Rotation!State(req[c].id, None, None))
  /\ UNCHANGED <<secretVars, submitted, req, lastPut>>

(***************************************************************************)
(* Mutated: transitions are not checked.                                   *)
(***************************************************************************)
mutate_Unchecked(c) ==
  LET r == req[c] state == readState(r.tenant) IN
  /\ pc[c] = "rotate" /\ r.op # "initialize"
  /\ \/ state = None /\ End(c)
     \/ /\ state # None
        /\ compareAndSwapSecret(c, "rotate", state,
              Rotation!next(state, r.op, r.id))
  /\ UNCHANGED <<secretVars, submitted, req, lastPut>>

(***************************************************************************)
(* A transition of the state that is read now; a state that is changed by  *)
(* the time of the swap is not tried again.                                *)
(***************************************************************************)
mutate(c) ==
  LET r == req[c] state == readState(r.tenant) IN
  /\ pc[c] = "rotate" /\ r.op # "initialize"
  /\ \/ state = None /\ End(c)
     \/ state # None /\ ~Rotation!allowed(state, r.op, r.id) /\ End(c)
     \/ /\ state # None /\ Rotation!allowed(state, r.op, r.id)
        /\ compareAndSwapSecret(c, "rotate", state, Rotation!next(state, r.op, r.id))
  /\ UNCHANGED <<secretVars, submitted, req, lastPut>>

Rotate(c) == initialize(c) \/ mutate(c)

(***************************************************************************)
(* Whatever calls overlap, are lost or rejected, the stored state moves    *)
(* one allowed transition at a time: no operator's candidate disappears    *)
(* under another's, and no token is given up but by its name ("Retrying    *)
(* here could apply an operator decision to a newer OAuth state").         *)
(***************************************************************************)
TokensRotateAtomically == Rotation!Spec
=============================================================================
