----------------------------- MODULE MCNavigation -----------------------------
(* Small instances of Navigation for TLC. *)
EXTENDS Navigation, TLC

CONSTANTS dev, first, second, t1, t2, pA, pB, m1, m2

OneRevision == dev :> {first}
TwoRevisions == dev :> {first, second}
InjectiveFingerprint == [f \in DestinationConfig |-> f]

\* Two connections of one project, or of two.
SameProject == t1 :> pA @@ t2 :> pA
TwoProjects == t1 :> pA @@ t2 :> pB

\* What the projects' files may list.
TwoListsOrMissing == [p \in ProjectRoot |-> {m1, m2, Missing}]
OneListEach == pA :> {m1} @@ pB :> {m2}

RootOnly == {<<Portal, FALSE>>, <<Portal, TRUE>>}
RootAndBelow == RootOnly \cup {<<m1, TRUE>>}

\* What can still be observed: the contents of contexts no Arc refers to are gone.
Observable ==
    LET live == InUse \cap Ctx IN
    <<slots, slot, builder, at, arg, answer, files, stage, request, missed, since,
      [c \in live |-> <<context[c], viewSlots[c], viewSlot[c], viewBuilder[c]>>]>>

\* Contexts, revisions, and connections together with their projects and their lists.
SymmetryOfTwoProjects ==
    Permutations(Ctx) \cup Permutations(DestinationConfig)
      \cup {t1 :> t2 @@ t2 :> t1 @@ pA :> pB @@ pB :> pA @@ m1 :> m2 @@ m2 :> m1}
SymmetryOfTasks == Permutations(Task)
==============================================================================
