------------------------- MODULE MCSystemContextStore -------------------------
(* Small instances of SystemContextStore for TLC. *)
EXTENDS SystemContextStore, TLC

CONSTANTS dev, prd,              \* destinations
          first, second, refused, far \* revisions of their configurations

\* dev has a first, a second and an unusable revision; prd only one.
RevisionsOfDev == dev :> {first, second, refused}
TwoDestinations == dev :> {first} @@ prd :> {far}

\* DefaultHasher tells these configurations apart.
InjectiveFingerprint == [f \in DestinationConfig |-> f]

Symmetry == Permutations(Task) \cup Permutations(Ctx)
==============================================================================
