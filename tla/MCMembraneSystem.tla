------------------------- MODULE MCMembraneSystem -------------------------
(***************************************************************************)
(* Model-checking instance of MembraneSystem: the default depth 3 of       *)
(* FilterConfig.MembraneDepth (7 membranes, 4 leaves), a few objects.      *)
(***************************************************************************)
EXTENDS MembraneSystem

(* Objects as processMembraneSystem injects them (positive_signal: charge *)
(* 1, mobility 0.7; negative_signal: -1, 0.9), the "token" of the tests   *)
(* (0, 0.5) and an emotion_signal, which no caller in the repository      *)
(* creates (0, 0.6).                                                      *)
MCObjCharge == [t \in InTypes |->
                  CASE t = "positive_signal" -> 1
                    [] t = "negative_signal" -> -1
                    [] OTHER -> 0]
MCObjMob == [t \in InTypes |->
               CASE t = "positive_signal" -> 70
                 [] t = "negative_signal" -> 90
                 [] t = "token" -> 50
                 [] t = "emotion_signal" -> 60]

(* processMembraneSystem: both signals, injected into "root" only. *)
FilterInjectTypes == {"positive_signal", "negative_signal"}
FilterInjectTargets == {Root}

(* The public InjectObject API: any registered membrane, any input type. *)
AnyInjectTargets == Nodes

(* Reference: the registry as buildHierarchy fills it, recursively. *)
RECURSIVE BuildOrder(_)
BuildOrder(n) ==
    << n >> \o (IF HasChildren(n)
                THEN BuildOrder(n \o <<0>>) \o BuildOrder(n \o <<1>>)
                ELSE << >>)

(* NextNode enumerates exactly ms.All, in order, at the configured depth. *)
ASSUME RegistryOrder ==
    LET All == BuildOrder(Root)
    IN  /\ \A i \in 1..(Len(All) - 1) : NextNode(All[i]) = All[i + 1]
        /\ NextNode(All[Len(All)]) = Done
        /\ {All[i] : i \in 1..Len(All)} = Nodes
=============================================================================
