---------------------------- MODULE MCDeployments ----------------------------
(* Deployments on chosen sites: a task alone, or a task and one that reads it. *)
EXTENDS Deployments

SiteOn(network, focus, maxCrashes, maxForced) ==
    [network |-> network, focus |-> focus, maxCrashes |-> maxCrashes, maxForced |-> maxForced]

MCB == "20210928-mcb-arbitrum-merkle"
BuildingSites ==
    { SiteOn("mainnet", <<AUTHORIZER, VAULT>>, 1, 0),
      SiteOn("goerli", <<TEST_BAL, ADMIN>>, 1, 1),
      SiteOn("goerli", <<DELEGATION>>, 1, 1),
      SiteOn("polygon", <<RELAYER_V3>>, 2, 0),
      SiteOn("arbitrum", <<MCB>>, 0, 1),
      SiteOn("polygon", <<MCB>>, 0, 0),
      SiteOn("mainnet", <<TIMELOCK>>, 1, 0) }

\* A relayer that may be forced, by a process that may die.
ForcedRelayer == {SiteOn("polygon", <<RELAYER_V3>>, 1, 1)}

\* Every task alone, on every network.
EverySite == {SiteOn(n, <<t>>, 0, 0) : n \in NETWORKS, t \in TaskIds}
AllSites  == BuildingSites \cup EverySite
==============================================================================
