--------------------------- MODULE MCInvestigator ---------------------------
(* Investigator with log texts that say what and at which place. *)
EXTENDS Investigator, TLC

CONSTANTS oom, timeout, both, prefixed, other

MCMentions == (oom :> {"OOM"}) @@ (timeout :> {"DB_TIMEOUT"})
              @@ (both :> {"OOM", "DB_TIMEOUT"})
              @@ (prefixed :> {"FIXED"}) @@ (other :> {})
MCLoads == {90, 91}
=============================================================================
