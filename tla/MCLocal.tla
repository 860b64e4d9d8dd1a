-------------------------------- MODULE MCLocal --------------------------------
(***************************************************************************)
(* The components that share no state with one another, checked in one     *)
(* run: a behaviour is a behaviour of the one that part names, and leaves  *)
(* the others in their initial states.                                     *)
(***************************************************************************)
EXTENDS ClaudeStream, SimCache, QuotaRoute, AuthRegistry, ModelCatalog, InferenceStream,
        Supervisor, TLC

VARIABLE part

Parts == {"claude", "cache", "quota", "registry", "catalog", "inference", "supervisor"}

NoTools == {}
NoCallIds == [t \in NoTools |-> 1]

\* Only the supervisor knows of runs, and no action or invariant of it names one.
Symmetry == Permutations(Runs)

AccountQuota(autoFull, noUsageBased, bot, otherFull) ==
  [autoFull |-> autoFull, slowPool |-> TRUE, noUsageBased |-> noUsageBased,
   botFetched |-> bot # "unknown", botUnlocked |-> bot = "free", botAvailable |-> bot = "free",
   otherFetched |-> TRUE, otherFull |-> otherFull]

SomeQuotas == {AccountQuota(TRUE, TRUE, "locked", TRUE),
               AccountQuota(FALSE, TRUE, "free", TRUE)}

(* The components not checked start in one of their initial states. *)
LocalInit ==
  /\ part \in Parts
  /\ ClaudeInit /\ (part # "claude" => ~limiter.active /\ ~flags.signature)
  /\ QuotaInit /\ (part # "quota" => account = CHOOSE q \in Quotas : TRUE)
  /\ CatalogInit /\ (part # "catalog" => current = CHOOSE a \in Accounts : TRUE)
                 /\ (part # "catalog" => current = ide.account)
  /\ CacheInit /\ RegistryInit /\ InferenceInit
  /\ Init

LocalNext ==
  /\ UNCHANGED part
  /\ \/ /\ part = "claude" /\ ClaudeNext
        /\ UNCHANGED <<simCacheVars, quotaVars, registryVars, catalogVars,
                       inferenceVars, vars>>
     \/ /\ part = "cache" /\ CacheNext
        /\ UNCHANGED <<claudeVars, quotaVars, registryVars, catalogVars,
                       inferenceVars, vars>>
     \/ /\ part = "quota" /\ QuotaNext
        /\ UNCHANGED <<claudeVars, simCacheVars, registryVars, catalogVars,
                       inferenceVars, vars>>
     \/ /\ part = "registry" /\ RegistryNext
        /\ UNCHANGED <<claudeVars, simCacheVars, quotaVars, catalogVars,
                       inferenceVars, vars>>
     \/ /\ part = "catalog" /\ CatalogNext
        /\ UNCHANGED <<claudeVars, simCacheVars, quotaVars, registryVars,
                       inferenceVars, vars>>
     \/ /\ part = "inference" /\ InferenceNext
        /\ UNCHANGED <<claudeVars, simCacheVars, quotaVars, registryVars,
                       catalogVars, vars>>
     \/ /\ part = "supervisor" /\ Next
        /\ UNCHANGED <<claudeVars, simCacheVars, quotaVars, registryVars,
                       catalogVars, inferenceVars>>

LocalSpec ==
  LocalInit /\ [][LocalNext]_<<part, claudeVars, simCacheVars, quotaVars, registryVars,
                               catalogVars, inferenceVars, vars>>
=============================================================================
