-------------------------- MODULE MCTaskCoordinator --------------------------
(* Small instances of TaskCoordinator.                                     *)
EXTENDS TaskCoordinator, TLC

CONSTANTS o1, o2, o3, s1, s2, k1, k2, cpu, gpu, none

\* Two panes of one session and a pane of another; two recipes for one slot.
SessionOfOwner == o1 :> s1 @@ o2 :> s1 @@ o3 :> s2
OneSession     == o1 :> s1 @@ o2 :> s1
OnePane        == o1 :> s1
ResourceOfKey  == k1 :> cpu @@ k2 :> cpu
OneKey         == k1 :> cpu
OneSlot        == cpu :> 1

\* Two successive reports of one worker.
TwoReports     == {[phase_index |-> 0, phase_count |-> 2, completed_units |-> 2, total_units |-> 3],
                   [phase_index |-> 1, phase_count |-> 2, completed_units |-> 0, total_units |-> 3]}

\* The panes of one session are alike, and so are recipes for one resource.
PanesAndRecipes == {g @@ h : g \in Permutations({o1, o2}), h \in Permutations({k1, k2})}

=============================================================================
