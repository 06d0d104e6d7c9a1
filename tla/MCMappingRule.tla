--------------------------- MODULE MCMappingRule ---------------------------
(* Policy lists and a stored rule for checking MappingRule.               *)
EXTENDS MappingRule

\* A policy list of supported resolutions, one of ten seconds, and one with
\* a resolution the table does not have.
MCPolicyChoices ==
    { {Res(1, Second), Res(1, Minute)},
      {Res(10, Second)},
      {Res(2, Second)} }

\* A rule another client stored: live with TenMinutes, then tombstoned.
MCInitialSchema ==
    << [name |-> "r1", tombstoned |-> FALSE, cutoverNanos |-> 1, policies |-> {TenMinutes}],
       [name |-> "r1", tombstoned |-> TRUE, cutoverNanos |-> 2, policies |-> {TenMinutes}] >>

=============================================================================
