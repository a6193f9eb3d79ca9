---------------------------- MODULE MCExecution ----------------------------
(* Execution for TLC: two dispatches of at most two steps.                 *)
EXTENDS Execution

MCRunIds == Dispatches \X (1..MaxSteps)
MCUrl(origin, network) == [scheme |-> "https", network |-> network, origin |-> origin]
MCMapping(url) == [absolutePath |-> TRUE, hook |-> "webhook.outbound", hookType |-> "default",
                   destination |-> url]
MCMappings == {MCMapping(MCUrl("erp", "public")), MCMapping(MCUrl("erp", "private_v4")),
               MCMapping(MCUrl("other", "public"))}

MCRange(versions) == [valid |-> TRUE, versions |-> versions]
MCInstallation(id, priority, range) ==
  [id |-> id, enabled |-> TRUE, hooks |-> {"webhook.outbound", "invoice.created", "invoice.approve"},
   priority |-> priority, range |-> range, artifact |-> "a1", grantRevision |-> 1]
MCOne == <<MCInstallation("i1", 1, MCRange({1, 2}))>>
MCTwo == <<MCInstallation("i1", 2, MCRange({1})), MCInstallation("i2", 1, MCRange({2}))>>
MCSchemas == <<[version |-> 1, adapts |-> TRUE], [version |-> 2, adapts |-> TRUE]>>
MCDispatch(hook, type) == [hook |-> hook, type |-> type, lossless |-> TRUE, asks |-> 0]
MCWebhook == MCDispatch("webhook.outbound", "transform")
MCEvent == MCDispatch("invoice.created", "event")
MCPolicy == MCDispatch("invoice.approve", "policy")

MCScenario(dispatches, installations_, operated, archived, rows) ==
  [dispatches |-> dispatches, installations |-> installations_, schemas |-> MCSchemas,
   inTurn |-> Len(dispatches) = 2, budgeted |-> Len(dispatches) = 1 /\ dispatches[1].asks = 0,
   operated |-> operated, archived |-> archived, rows |-> rows]
MCRow(i, at, whole) == ExecutionRow(<<0, i>>, "success", None, whole, at)

MCScenarios ==
  {MCScenario(<<[MCWebhook EXCEPT !.asks = 2]>>, MCOne, {}, FALSE, {}),
   MCScenario(<<MCWebhook>>, MCOne, {"mapping"}, FALSE, {}),
   MCScenario(<<MCWebhook>>, MCTwo, {}, FALSE, {}),
   MCScenario(<<MCEvent>>, MCTwo, {"budget"}, FALSE, {}),
   MCScenario(<<MCEvent>>, <<[MCOne[1] EXCEPT !.range = MCRange({3})]>>, {}, FALSE, {}),
   MCScenario(<<[MCPolicy EXCEPT !.lossless = FALSE]>>, MCTwo, {}, FALSE, {}),
   MCScenario(<<[MCPolicy EXCEPT !.asks = 1]>>, MCOne, {}, FALSE, {}),
   MCScenario(<<MCEvent, MCEvent>>, MCOne, {"installation"}, FALSE, {}),
   MCScenario(<<>>, MCOne, {}, TRUE, {MCRow(1, 1, TRUE), MCRow(2, 2, TRUE), MCRow(3, 2, FALSE)})}
MCArchiveScenarios ==
  {MCScenario(<<MCEvent>>, MCOne, {}, TRUE, {MCRow(1, 1, TRUE)})}
=============================================================================
