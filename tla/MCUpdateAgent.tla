--------------------------- MODULE MCUpdateAgent ----------------------------
(***************************************************************************)
(* Instances of UpdateAgent for TLC: an orchestrator, a sidecar that runs  *)
(* from the start and one a release may start.                             *)
(***************************************************************************)
EXTENDS UpdateAgent, TLC

CONSTANTS stable, beta

\* Every release is published on one channel.
OneChannel == [r \in Releases |-> stable]

\* Even releases are of another channel.
TwoChannels == [r \in Releases |-> IF r % 2 = 0 THEN beta ELSE stable]

=============================================================================
