---------------------------- MODULE RollingOrder ----------------------------
(***************************************************************************)
(* What the rolling image update promises (spec.md 4.4), without the      *)
(* status, the generations or the syncer: a component's Deployment        *)
(* template moves to the desired image only once every component it must  *)
(* wait for (its dependencies when upgrading, its dependents when         *)
(* downgrading) runs nothing but that image.  Pods then follow their      *)
(* template.  RollingUpdate implements this specification.                 *)
(***************************************************************************)
EXTENDS Naturals, Graphs

CONSTANTS Components, UpgradeEdges, Images

Graph == [node |-> Components, edge |-> UpgradeEdges]

VARIABLES
    target,   \* the desired [image, mode]
    tmpl,     \* per component: the image of its Deployment template
    run       \* per component: the set of images its pods run

absvars == <<target, tmpl, run>>

\* Whom c waits for in the direction of the declared mode; in mode All
\* the user waives the order and c waits for no one.
WaitsFor(c) ==
    CASE target.mode = "RollingUpgrade"   -> Successors(Graph, c)
      [] target.mode = "RollingDowngrade" -> Successors(Transpose(Graph), c)
      [] OTHER                            -> {}

\* The user sets a new desired image and mode.
Retarget ==
    /\ target' \in [image: Images,
                    mode: {"RollingUpgrade", "RollingDowngrade", "All"}]
    /\ UNCHANGED <<tmpl, run>>

\* c's template takes the desired image once everyone it waits for runs
\* only that image.
Promote(c) ==
    /\ tmpl[c] # target.image
    /\ \A d \in WaitsFor(c) : run[d] = {target.image}
    /\ tmpl' = [tmpl EXCEPT ![c] = target.image]
    /\ UNCHANGED <<target, run>>

\* Pods of the template's image come up beside the old ones.
Roll(c) ==
    /\ tmpl[c] \notin run[c]
    /\ run' = [run EXCEPT ![c] = @ \cup {tmpl[c]}]
    /\ UNCHANGED <<target, tmpl>>

\* The old pods go away.
Settle(c) ==
    /\ tmpl[c] \in run[c]
    /\ run[c] # {tmpl[c]}
    /\ run' = [run EXCEPT ![c] = {tmpl[c]}]
    /\ UNCHANGED <<target, tmpl>>

Init ==
    /\ target \in [image: Images, mode: {"RollingUpgrade"}]
    /\ tmpl = [c \in Components |-> target.image]
    /\ run = [c \in Components |-> {target.image}]

Next ==
    \/ Retarget
    \/ \E c \in Components : Promote(c) \/ Roll(c) \/ Settle(c)

\* Nothing that may proceed waits forever; the user is not fair.
Spec ==
    /\ Init /\ [][Next]_absvars
    /\ \A c \in Components :
          /\ WF_absvars(Promote(c))
          /\ WF_absvars(Roll(c))
          /\ WF_absvars(Settle(c))

=============================================================================
