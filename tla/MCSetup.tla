------------------------------- MODULE MCSetup -------------------------------
(***************************************************************************)
(* A small instance of Setup: the operations of the production plan that   *)
(* have an adapter (one bucket of the two, no Slack, no R2 lifecycle),     *)
(* resources to adopt, and a Worker or a database of somebody else's under *)
(* the run's name or not.                                                  *)
(***************************************************************************)
EXTENDS Setup

MCPlan ==
    SelectSeq(ProductionOperations,
        LAMBDA o : o.id \in {"create:control-plane-d1", "declare:app-database-boundary",
                             "create:execution-archive-r2",
                             "apply:control-plane-migrations", "create:control-plane-worker"})

MCShortPlan ==
    SelectSeq(ProductionOperations,
        LAMBDA o : o.id \in {"create:control-plane-d1", "declare:app-database-boundary",
                             "create:artifact-r2"})

MCCreating == {"create:control-plane-d1", "create:execution-archive-r2", "create:artifact-r2",
               "create:control-plane-worker"} \cap Ids(Plan)

MCAdoptable(ids) == {Adoptable(i, TRUE) : i \in {k \in DOMAIN Plan : Plan[k].id \in ids}}

MCTaken == {resource(i, TRUE, "operator", FALSE) : i \in {k \in DOMAIN Plan : Plan[k].kind = "worker"}}

MCClaimed(kind) == {resource(i, TRUE, "operator", TRUE) : i \in Creating(kind)}

MCPreexisting == {MCTaken, MCAdoptable(MCCreating), MCClaimed("d1")}

MCConfig(adopted) ==
    [i \in DOMAIN Plan |-> Configuration(IF Plan[i].id \in adopted THEN "adopt" ELSE "create", Plan[i].id)]

MCRoutes == <<{"create:control-plane-d1", "declare:app-database-boundary"} \cap Ids(Plan),
              {"create:artifact-r2", "create:execution-archive-r2"} \cap Ids(Plan)>>
            \o SelectSeq(<<{"apply:control-plane-migrations"} \cap Ids(Plan),
                           {"create:control-plane-worker"} \cap Ids(Plan)>>, LAMBDA s : s # {})

MCRun(approved) == [runId |-> "run", approved |-> approved]

MCInvocation(approved, adopted) == [run |-> MCRun(approved), config |-> MCConfig(adopted), routes |-> MCRoutes]

(***************************************************************************)
(* Everything created, everything adopted, with approval or without one    *)
(* for all of it, and an adapter missing.                                  *)
(***************************************************************************)
MCInvocations ==
    {MCInvocation({}, {}), MCInvocation(MCCreating, MCCreating),
     MCInvocation({"create:control-plane-d1"}, MCCreating), [MCInvocation({}, {}) EXCEPT !.routes = Tail(@)]}

MCShortInvocations == {MCInvocation({}, {})}

Perms == Permutations(Procs)
==============================================================================
