---------------------------- MODULE MCResources ----------------------------
(***************************************************************************)
(* CommuResources and Lifecycle for TLC: two questions about what is built *)
(* and released, asked in one run.  A behaviour is about one of the two;   *)
(* the other stays in one initial state, so nothing is multiplied.         *)
(***************************************************************************)
EXTENDS CommuResources, Lifecycle, TLC

VARIABLE subject    \* what this behaviour is about

resourceVars == <<subject, commuVars, lifeVars>>

(* Any parameters will do for the one that stays where it is. *)
NoParameters == [devices |-> <<>>, dev_name |-> NoDevice, ib_port |-> 0,
                 phys_port_cnt |-> 1, active_mtu |-> CHOOSE m \in Mtus : TRUE,
                 elesize |-> CHOOSE s \in Sizes : TRUE]

ResourcesInit == /\ CommuInit /\ LifeInit
                 /\ \/ subject = "commu" /\ class = "datahandle"
                    \/ subject = "memory" /\ given = NoParameters

ResourcesNext == /\ UNCHANGED subject
                 /\ \/ subject = "commu" /\ CommuNext /\ UNCHANGED lifeVars
                    \/ subject = "memory" /\ LifeNext /\ UNCHANGED commuVars

ResourcesSpec == ResourcesInit /\ [][ResourcesNext]_resourceVars

(* The objects differ in nothing but what happens to them. *)
Symmetry == Permutations(Objects)
=============================================================================
