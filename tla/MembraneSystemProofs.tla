----------------------- MODULE MembraneSystemProofs -----------------------
(***************************************************************************)
(* Proofs about MembraneSystem, for every depth and every set of injected  *)
(* object kinds.                                                           *)
(***************************************************************************)
EXTENDS MembraneSystem, SequenceTheorems, TLAPS

(* A membrane is a 0/1 sequence shorter than the number of levels. *)
LEMMA LevelsType == Levels \in Nat \ {0}
BY DepthAssumption DEF Levels

USE LevelsType

LEMMA NodeElim ==
    ASSUME NEW n \in Nodes
    PROVE  n \in Seq({0, 1}) /\ Len(n) <= Levels - 1
<1>1. PICK k \in 0..(Levels - 1) : n \in [1..k -> {0, 1}]
  BY DEF Nodes
<1>2. n \in Seq({0, 1}) /\ Len(n) = k
  BY <1>1, LevelsType
<1>3. QED
  BY <1>1, <1>2

LEMMA NodeIntro ==
    ASSUME NEW n \in Seq({0, 1}), Len(n) <= Levels - 1
    PROVE  n \in Nodes
BY LevelsType DEF Nodes

(* Prefixes and one-bit extensions of bit sequences. *)
LEMMA BitPrefix ==
    ASSUME NEW s \in Seq({0, 1}), NEW k \in 0..Len(s)
    PROVE  SubSeq(s, 1, k) \in Seq({0, 1}) /\ Len(SubSeq(s, 1, k)) = k
<1>1. \A i \in 1..k : s[i] \in {0, 1}
  OBVIOUS
<1>2. QED
  BY <1>1, SubSeqProperties

LEMMA BitExtend ==
    ASSUME NEW s \in Seq({0, 1}), NEW b \in {0, 1}
    PROVE  s \o <<b>> \in Seq({0, 1}) /\ Len(s \o <<b>>) = Len(s) + 1
<1>1. <<b>> \in Seq({0, 1}) /\ Len(<<b>>) = 1
  OBVIOUS
<1>2. QED
  BY <1>1, ConcatProperties

(* The membrane after n in the registry is a membrane, or there is none. *)
LEMMA NextNodeType ==
    ASSUME NEW n \in Nodes
    PROVE  NextNode(n) \in Nodes \cup {Done}
<1>1. n \in Seq({0, 1}) /\ Len(n) <= Levels - 1
  BY NodeElim
<1>2. CASE HasChildren(n)
  <2>1. n \o <<0>> \in Seq({0, 1}) /\ Len(n \o <<0>>) = Len(n) + 1
    BY <1>1, BitExtend, Zenon
  <2>2. Len(n \o <<0>>) <= Levels - 1
    BY <1>2, <2>1, <1>1 DEF HasChildren
  <2>3. QED
    BY <1>2, <2>1, <2>2, NodeIntro DEF NextNode
<1>3. CASE ~HasChildren(n) /\ LastZero(n) \in 1..Len(n)
  <2> DEFINE k == LastZero(n)
  <2>1. SubSeq(n, 1, k - 1) \in Seq({0, 1}) /\ Len(SubSeq(n, 1, k - 1)) = k - 1
    <3>1. LastZero(n) - 1 \in 0..Len(n)
      BY <1>3, <1>1
    <3>2. QED
      BY <1>1, <3>1, BitPrefix, Zenon
  <2>2. SubSeq(n, 1, k - 1) \o <<1>> \in Seq({0, 1})
        /\ Len(SubSeq(n, 1, k - 1) \o <<1>>) = Len(SubSeq(n, 1, k - 1)) + 1
    BY <2>1, BitExtend, Zenon
  <2>3. Len(SubSeq(n, 1, k - 1) \o <<1>>) <= Levels - 1
    BY <1>1, <1>3, <2>1, <2>2
  <2>4. SubSeq(n, 1, k - 1) \o <<1>> \in Nodes
    BY <2>2, <2>3, NodeIntro, Zenon
  <2>5. QED
    BY <1>3, <2>4 DEF NextNode
<1>4. QED
  BY <1>2, <1>3 DEF NextNode

(* The targets of a membrane's passes are at most three other membranes. *)
LEMMA TargetsType ==
    ASSUME NEW n \in Nodes
    PROVE  /\ Targets(n) \in Seq(Nodes)
           /\ Len(Targets(n)) <= 3
           /\ \A i \in 1..Len(Targets(n)) : Targets(n)[i] # n
<1>1. n \in Seq({0, 1}) /\ Len(n) <= Levels - 1
  BY NodeElim
<1> DEFINE P == IF n = Root THEN << >> ELSE << Parent(n) >>
<1>2. /\ P \in Seq(Nodes) /\ Len(P) <= 1
      /\ \A i \in 1..Len(P) : P[i] # n
  <2>1. CASE n = Root
    BY <2>1
  <2>2. CASE n # Root
    <3>1. Len(n) > 0
      BY <1>1, <2>2 DEF Root
    <3>2. Parent(n) \in Seq({0, 1}) /\ Len(Parent(n)) = Len(n) - 1
      <4>1. Len(n) - 1 \in 0..Len(n)
        BY <1>1, <3>1
      <4>2. SubSeq(n, 1, Len(n) - 1) \in Seq({0, 1})
            /\ Len(SubSeq(n, 1, Len(n) - 1)) = Len(n) - 1
        BY <1>1, <4>1, BitPrefix, Zenon
      <4>3. QED
        BY <4>2 DEF Parent
    <3>3. Parent(n) \in Nodes /\ Parent(n) # n
      BY <1>1, <3>2, NodeIntro
    <3>4. QED
      BY <2>2, <3>3
  <2>3. QED
    BY <2>1, <2>2
<1>3. /\ Children(n) \in Seq(Nodes) /\ Len(Children(n)) <= 2
      /\ \A i \in 1..Len(Children(n)) : Children(n)[i] # n
  <2>1. CASE HasChildren(n)
    <3>1. /\ n \o <<0>> \in Seq({0, 1}) /\ Len(n \o <<0>>) = Len(n) + 1
          /\ n \o <<1>> \in Seq({0, 1}) /\ Len(n \o <<1>>) = Len(n) + 1
      BY <1>1, BitExtend, Zenon
    <3>2. Len(n \o <<0>>) <= Levels - 1 /\ Len(n \o <<1>>) <= Levels - 1
      BY <2>1, <3>1, <1>1 DEF HasChildren
    <3>3. n \o <<0>> \in Nodes /\ n \o <<1>> \in Nodes
      BY <3>1, <3>2, NodeIntro, Zenon
    <3>4. n \o <<0>> # n /\ n \o <<1>> # n
      BY <3>1
    <3>5. QED
      BY <2>1, <3>3, <3>4 DEF Children
  <2>2. CASE ~HasChildren(n)
    BY <2>2 DEF Children
  <2>3. QED
    BY <2>1, <2>2
<1>4. QED
  <2>1. Targets(n) = P \o Children(n)
    BY DEF Targets
  <2>2. Targets(n) \in Seq(Nodes) /\ Len(Targets(n)) = Len(P) + Len(Children(n))
    BY <1>2, <1>3, <2>1
  <2>3. \A i \in 1..Len(Targets(n)) :
           Targets(n)[i] = IF i <= Len(P) THEN P[i] ELSE Children(n)[i - Len(P)]
    BY <1>2, <1>3, <2>1
  <2>4. QED
    BY <1>2, <1>3, <2>2, <2>3

-----------------------------------------------------------------------------
(* The default rules: their inputs are types, their outputs bags.          *)
LEMMA RuleShape ==
    \A r \in {SpamRule, HamRule, AffRule} : r.in \subseteq Types /\ r.out \in Bag
BY DEF SpamRule, HamRule, AffRule, Unit, Bag, Types, InTypes, OutTypes

(* Evolve's exchange sort leaves the default rules in their order: the two *)
(* priority-100 rules come first and are never swapped.                    *)
LEMMA SortDefault == SortRules(DefaultRules) = DefaultRules
<1> DEFINE D == DefaultRules
<1>1. Len(D) = 3 /\ D[1].priority = 100 /\ D[2].priority = 100 /\ D[3].priority = 50
  BY DEF DefaultRules, SpamRule, HamRule, AffRule
<1>2. \A i, j \in 1..3 : i < j => SwapIf(D, i, j) = D
  BY <1>1 DEF SwapIf
<1>3. QED
  BY <1>1, <1>2 DEF SortRules

(* The rule loop's accumulator: what is used is there, what is made a bag. *)
Acc(b, st) ==
    /\ st.used \in [Types -> Nat]
    /\ st.made \in Bag
    /\ \A t \in Types : st.used[t] <= b[t]

LEMMA ApplyRuleAcc ==
    ASSUME NEW b \in Bag, NEW st, Acc(b, st),
           NEW r \in {SpamRule, HamRule, AffRule}
    PROVE  Acc(b, ApplyRule(b, st, r))
<1>1. r.in \subseteq Types /\ r.out \in Bag
  BY RuleShape
<1>2. CASE r.in # {} /\ \A t \in r.in : b[t] - st.used[t] >= 1
  BY <1>1, <1>2 DEF ApplyRule, Acc, Bag
<1>3. CASE ~(r.in # {} /\ \A t \in r.in : b[t] - st.used[t] >= 1)
  BY <1>3 DEF ApplyRule
<1>4. QED
  BY <1>2, <1>3

(* Evolve turns a bag into a bag. *)
LEMMA EvolveType ==
    ASSUME NEW b \in Bag, NEW n
    PROVE  Evolve(b, RulesOf(n)) \in Bag
<1>1. CASE n = Root
  BY <1>1 DEF Evolve, RulesOf
<1>2. CASE n # Root
  <2> DEFINE s0 == [used |-> EmptyBag, made |-> EmptyBag]
             s1 == ApplyRule(b, s0, SpamRule)
             s2 == ApplyRule(b, s1, HamRule)
             s3 == ApplyRule(b, s2, AffRule)
  <2>1. Acc(b, s0)
    BY DEF Acc, EmptyBag, Bag
  <2>2. Acc(b, s3)
    BY <2>1, ApplyRuleAcc
  <2>3. Evolve(b, RulesOf(n)) = [t \in Types |-> b[t] - s3.used[t] + s3.made[t]]
    BY <1>2, SortDefault DEF Evolve, RulesOf, DefaultRules
  <2>4. QED
    BY <2>2, <2>3 DEF Acc, Bag
<1>3. QED
  BY <1>1, <1>2

(* PassObjects between two membranes keeps every membrane a bag. *)
LEMMA PassObjectsType ==
    ASSUME NEW o \in [Nodes -> Bag], NEW src \in Nodes, NEW dst \in Nodes
    PROVE  PassObjects(o, src, dst) \in [Nodes -> Bag]
BY DEF PassObjects, Bag

LEMMA RootIsNode == Root \in Nodes
<1>1. << >> \in Seq({0, 1}) /\ Len(<< >>) <= Levels - 1
  OBVIOUS
<1>2. QED
  BY <1>1, NodeIntro, Zenon DEF Root

-----------------------------------------------------------------------------
(* Every step keeps the membranes' contents bags, the loop cursor on a     *)
(* membrane and the target index within the three targets plus one.       *)
LEMMA TypeOKStep == TypeOK /\ [Next]_vars => TypeOK'
<1> SUFFICES ASSUME TypeOK, [Next]_vars PROVE TypeOK'
  OBVIOUS
<1>1. CASE \E n \in InjectTargets, t \in InjectTypes : InjectObject(n, t)
  <2>1. PICK n \in InjectTargets, t \in InjectTypes : InjectObject(n, t)
    BY <1>1
  <2>2. n \in Nodes /\ t \in Types
    BY InjectAssumption DEF Types
  <2>3. objs' = [objs EXCEPT ![n] = [objs[n] EXCEPT ![t] = objs[n][t] + 1]]
    BY <2>1, <2>2 DEF InjectObject, TypeOK
  <2>4. objs' \in [Nodes -> Bag]
    BY <2>2, <2>3 DEF TypeOK, Bag
  <2>5. QED
    BY <2>1, <2>4 DEF InjectObject, TypeOK
<1>2. CASE StepStart
  BY <1>2, RootIsNode DEF StepStart, TypeOK
<1>3. CASE EvolveAt
  <2>1. objs' \in [Nodes -> Bag]
    BY <1>3, EvolveType DEF EvolveAt, TypeOK
  <2>2. NextNode(cur) \in Nodes \cup {Done}
    BY NextNodeType DEF TypeOK
  <2>3. QED
    BY <1>3, <2>1, <2>2, RootIsNode DEF EvolveAt, TypeOK
<1>4. CASE PassAt
  <2>1. Targets(cur) \in Seq(Nodes) /\ Len(Targets(cur)) <= 3
    BY TargetsType DEF TypeOK
  <2>2. Targets(cur)[tix] \in Nodes
    BY <1>4, <2>1 DEF PassAt, TypeOK
  <2>3. objs' \in [Nodes -> Bag]
    BY <1>4, <2>2, PassObjectsType DEF PassAt, TypeOK
  <2>4. QED
    BY <1>4, <2>1, <2>3 DEF PassAt, TypeOK
<1>5. CASE PassNext
  <2>1. NextNode(cur) \in Nodes \cup {Done}
    BY NextNodeType DEF TypeOK
  <2>2. QED
    BY <1>5, <2>1, RootIsNode DEF PassNext, TypeOK
<1>6. CASE UNCHANGED vars
  BY <1>6 DEF vars, TypeOK
<1>7. QED
  BY <1>1, <1>2, <1>3, <1>4, <1>5, <1>6 DEF Next, StepWork

LEMMA TypeOKInit == Init => TypeOK
BY RootIsNode DEF Init, TypeOK, EmptyBag, Bag

(* The type invariant of the membrane hierarchy. *)
THEOREM TypeCorrect == Spec => []TypeOK
BY TypeOKInit, TypeOKStep, PTL DEF Spec

-----------------------------------------------------------------------------
(***************************************************************************)
(* Objects injected only at the root stay in root and root_0.  The        *)
(* invariant is not inductive alone: while PassAt walks the targets of a   *)
(* membrane, the second and third targets must find the membrane already  *)
(* drained of every object that passes its test (PassedOn), which is what *)
(* keeps root from feeding root_1 and root_0 from feeding its children.    *)
(***************************************************************************)
NoPassers(n) == \A t \in Types : Passes(n, t) => objs[n][t] = 0
PassedOn == (phase = "pass" /\ tix >= 2) => NoPassers(cur)
IInv == TypeOK /\ RootOnlyReach /\ PassedOn

(* What PassObjects does to the source, the target and everyone else. *)
LEMMA PassObjectsEffect ==
    ASSUME NEW o \in [Nodes -> Bag], NEW src \in Nodes, NEW dst \in Nodes,
           src # dst
    PROVE  LET p == PassObjects(o, src, dst) IN
           /\ \A t \in Types : p[src][t] = IF Passes(src, t) THEN 0 ELSE o[src][t]
           /\ \A t \in Types : p[dst][t] = IF Passes(src, t)
                                           THEN o[dst][t] + o[src][t]
                                           ELSE o[dst][t]
           /\ \A n \in Nodes \ {src, dst} : p[n] = o[n]
BY DEF PassObjects

(* An empty membrane evolves into an empty one: no rule finds its inputs. *)
LEMMA EvolveEmpty ==
    ASSUME NEW n
    PROVE  Evolve(EmptyBag, RulesOf(n)) = EmptyBag
<1>1. CASE n = Root
  BY <1>1 DEF Evolve, RulesOf
<1>2. CASE n # Root
  <2> DEFINE s0 == [used |-> EmptyBag, made |-> EmptyBag]
  <2>1. \A r \in {SpamRule, HamRule, AffRule} : ApplyRule(EmptyBag, s0, r) = s0
    BY DEF ApplyRule, EmptyBag, SpamRule, HamRule, AffRule, Types, InTypes
  <2>2. Evolve(EmptyBag, RulesOf(n))
          = [t \in Types |-> EmptyBag[t] - s0.used[t] + s0.made[t]]
    BY <1>2, <2>1, SortDefault DEF Evolve, RulesOf, DefaultRules
  <2>3. QED
    BY <2>2 DEF EmptyBag
<1>3. QED
  BY <1>1, <1>2

(* The first target of the root is root_0, the first of root_0 the root. *)
LEMMA FirstTargets ==
    /\ Len(Targets(Root)) >= 1 => Targets(Root)[1] = Root0
    /\ Root0 \in Nodes => Targets(Root0)[1] = Root
<1>1. Targets(Root) = Children(Root)
  BY DEF Targets
<1>2. Len(Targets(Root)) >= 1 => Targets(Root)[1] = Root0
  BY <1>1 DEF Children, Root, Root0
<1>3. ASSUME Root0 \in Nodes PROVE Targets(Root0)[1] = Root
  <2>1. Root0 # Root /\ Parent(Root0) = Root
    BY DEF Root0, Root, Parent
  <2>2. CASE HasChildren(Root0)
    BY <2>1, <2>2 DEF Targets, Children
  <2>3. CASE ~HasChildren(Root0)
    BY <2>1, <2>3 DEF Targets, Children
  <2>4. QED
    BY <2>2, <2>3
<1>4. QED
  BY <1>2, <1>3

LEMMA IInvStep ==
    ASSUME InjectTargets \subseteq {Root}
    PROVE  IInv /\ [Next]_vars => IInv'
<1> SUFFICES ASSUME IInv, [Next]_vars PROVE IInv'
  OBVIOUS
<1>1. TypeOK'
  BY TypeOKStep DEF IInv
<1>2. CASE \E n \in InjectTargets, t \in InjectTypes : InjectObject(n, t)
  <2>1. PICK n \in InjectTargets, t \in InjectTypes : InjectObject(n, t)
    BY <1>2
  <2>2. n = Root
    OBVIOUS
  <2>3. \A m \in Nodes \ {Root} : objs'[m] = objs[m]
    BY <2>1, <2>2 DEF InjectObject
  <2>4. RootOnlyReach'
    BY <2>3 DEF IInv, RootOnlyReach
  <2>5. PassedOn'
    BY <2>1 DEF InjectObject, PassedOn
  <2>6. QED
    BY <1>1, <2>4, <2>5 DEF IInv
<1>3. CASE StepStart
  BY <1>1, <1>3 DEF StepStart, IInv, RootOnlyReach, PassedOn
<1>4. CASE EvolveAt
  <2>1. RootOnlyReach'
    <3>1. CASE cur \in {Root, Root0}
      BY <1>4, <3>1 DEF EvolveAt, IInv, RootOnlyReach, TypeOK
    <3>2. CASE cur \notin {Root, Root0}
      <4>1. objs[cur] = EmptyBag
        BY <3>2 DEF IInv, RootOnlyReach, TypeOK
      <4>2. Evolve(objs[cur], RulesOf(cur)) = EmptyBag
        BY <4>1, EvolveEmpty
      <4>3. objs' = [objs EXCEPT ![cur] = EmptyBag]
        BY <1>4, <4>2 DEF EvolveAt
      <4>4. QED
        BY <4>3 DEF IInv, RootOnlyReach, TypeOK
    <3>3. QED
      BY <3>1, <3>2
  <2>2. PassedOn'
    BY <1>4 DEF EvolveAt, PassedOn
  <2>3. QED
    BY <1>1, <2>1, <2>2 DEF IInv
<1>5. CASE PassAt
  <2> DEFINE d == Targets(cur)[tix]
  <2>1. /\ cur \in Nodes /\ tix \in 1..Len(Targets(cur))
        /\ d \in Nodes /\ d # cur
        /\ objs \in [Nodes -> Bag]
    BY <1>5, TargetsType DEF PassAt, IInv, TypeOK
  <2>2. objs' = PassObjects(objs, cur, d)
    BY <1>5 DEF PassAt
  <2> USE <2>1, <2>2
  (* Whatever passes out of cur is allowed where it lands. *)
  <2>3. d \notin {Root, Root0} => \A t \in Types : Passes(cur, t) => objs[cur][t] = 0
    <3>1. CASE cur \notin {Root, Root0}
      BY <3>1 DEF IInv, RootOnlyReach, EmptyBag
    <3>2. CASE tix >= 2
      BY <1>5, <3>2 DEF PassAt, IInv, PassedOn, NoPassers
    <3>3. CASE cur = Root /\ tix = 1
      BY <3>3, FirstTargets
    <3>4. CASE cur = Root0 /\ tix = 1
      BY <3>4, FirstTargets
    <3>5. QED
      BY <3>1, <3>2, <3>3, <3>4
  <2>4. RootOnlyReach'
    <3> SUFFICES ASSUME NEW n \in Nodes \ {Root, Root0} PROVE objs'[n] = EmptyBag
      BY DEF RootOnlyReach
    <3>1. objs[n] = EmptyBag
      BY DEF IInv, RootOnlyReach
    <3>2. objs'[n] \in [Types -> Nat]
      BY <1>1 DEF TypeOK, Bag
    <3>3. CASE n = cur
      <4>1. \A t \in Types : objs'[n][t] = 0
        BY <3>1, <3>3, PassObjectsEffect DEF EmptyBag
      <4>2. QED
        BY <3>2, <4>1 DEF EmptyBag
    <3>4. CASE n = d
      <4>1. \A t \in Types : objs'[n][t] = 0
        BY <3>1, <3>4, <2>3, PassObjectsEffect DEF EmptyBag
      <4>2. QED
        BY <3>2, <4>1 DEF EmptyBag
    <3>5. CASE n \notin {cur, d}
      BY <3>1, <3>5, PassObjectsEffect
    <3>6. QED
      BY <3>3, <3>4, <3>5
  <2>5. PassedOn'
    <3>1. cur' = cur /\ tix' >= 2
      BY <1>5 DEF PassAt
    <3>2. \A t \in Types : Passes(cur, t) => objs'[cur][t] = 0
      BY PassObjectsEffect
    <3>3. QED
      BY <3>1, <3>2 DEF PassedOn, NoPassers
  <2>6. QED
    BY <1>1, <2>4, <2>5 DEF IInv
<1>6. CASE PassNext
  BY <1>1, <1>6 DEF PassNext, IInv, RootOnlyReach, PassedOn
<1>7. CASE UNCHANGED vars
  BY <1>7 DEF vars, IInv, RootOnlyReach, PassedOn, NoPassers, TypeOK
<1>8. QED
  BY <1>2, <1>3, <1>4, <1>5, <1>6, <1>7 DEF Next, StepWork

LEMMA IInvInit == Init => IInv
BY TypeOKInit DEF Init, IInv, RootOnlyReach, PassedOn

(* When every object is injected at the root, as processMembraneSystem     *)
(* does, no membrane but root and root_0 ever holds an object: the leaves  *)
(* CollectResults reads stay empty.                                        *)
THEOREM RootOnlyReachHolds ==
    ASSUME InjectTargets \subseteq {Root}
    PROVE  Spec => []RootOnlyReach
<1>1. Init => IInv
  BY IInvInit
<1>2. IInv /\ [Next]_vars => IInv'
  BY IInvStep
<1>3. IInv => RootOnlyReach
  BY DEF IInv
<1>4. QED
  BY <1>1, <1>2, <1>3, PTL DEF Spec

-----------------------------------------------------------------------------
(***************************************************************************)
(* No downward flow, for objects injected anywhere.  PassedOn alone is     *)
(* inductive: Step's transport loop hands cur's passing objects to the     *)
(* first target, and the later targets find them gone.                     *)
(***************************************************************************)
DInv == TypeOK /\ PassedOn

(* The parent of a membrane below the root is one level up. *)
LEMMA ParentLen ==
    ASSUME NEW n \in Nodes, n # Root
    PROVE  Parent(n) \in Nodes /\ Len(Parent(n)) = Len(n) - 1
<1>1. n \in Seq({0, 1}) /\ Len(n) <= Levels - 1 /\ Len(n) > 0
  BY NodeElim DEF Root
<1>2. Len(n) - 1 \in 0..Len(n)
  BY <1>1
<1>3. SubSeq(n, 1, Len(n) - 1) \in Seq({0, 1})
      /\ Len(SubSeq(n, 1, Len(n) - 1)) = Len(n) - 1
  BY <1>1, <1>2, BitPrefix, Zenon
<1>4. Len(SubSeq(n, 1, Len(n) - 1)) <= Levels - 1
  BY <1>1, <1>3
<1>5. SubSeq(n, 1, Len(n) - 1) \in Nodes
  BY <1>3, <1>4, NodeIntro, Zenon
<1>6. QED
  BY <1>3, <1>5 DEF Parent

(* Below the root, Step's transport loop passes to the parent first. *)
LEMMA ParentFirst ==
    ASSUME NEW n \in Nodes, n # Root
    PROVE  Targets(n)[1] = Parent(n)
<1>1. CASE HasChildren(n)
  BY <1>1 DEF Targets, Children
<1>2. CASE ~HasChildren(n)
  BY <1>2 DEF Targets, Children
<1>3. QED
  BY <1>1, <1>2

LEMMA DInvStep == DInv /\ [Next]_vars => DInv'
<1> SUFFICES ASSUME DInv, [Next]_vars PROVE DInv'
  OBVIOUS
<1>1. TypeOK'
  BY TypeOKStep DEF DInv
<1>2. PassedOn'
  <2>1. CASE \E n \in InjectTargets, t \in InjectTypes : InjectObject(n, t)
    BY <2>1 DEF InjectObject, PassedOn
  <2>2. CASE StepStart
    BY <2>2 DEF StepStart, PassedOn
  <2>3. CASE EvolveAt
    BY <2>3 DEF EvolveAt, PassedOn
  <2>4. CASE PassAt
    <3> DEFINE d == Targets(cur)[tix]
    <3>1. cur \in Nodes /\ d \in Nodes /\ d # cur /\ objs \in [Nodes -> Bag]
      BY <2>4, TargetsType DEF PassAt, DInv, TypeOK
    <3>2. objs' = PassObjects(objs, cur, d) /\ cur' = cur /\ tix' >= 2
      BY <2>4 DEF PassAt, DInv, TypeOK
    <3>3. \A t \in Types : Passes(cur, t) => objs'[cur][t] = 0
      BY <3>1, <3>2, PassObjectsEffect
    <3>4. QED
      BY <3>2, <3>3 DEF PassedOn, NoPassers
  <2>5. CASE PassNext
    BY <2>5 DEF PassNext, PassedOn
  <2>6. CASE UNCHANGED vars
    BY <2>6 DEF vars, DInv, PassedOn, NoPassers
  <2>7. QED
    BY <2>1, <2>2, <2>3, <2>4, <2>5, <2>6 DEF Next, StepWork
<1>3. QED
  BY <1>1, <1>2 DEF DInv

LEMMA DInvInit == Init => DInv
BY TypeOKInit DEF Init, DInv, PassedOn

(* A pass to a child of cur other than root_0 changes nothing: tix >= 2   *)
(* there, and cur has already lost every object that passes its test.     *)
LEMMA NoDownflowStep ==
    ASSUME DInv, PassAt, NEW c \in Nodes \ {Root, Root0}, Parent(c) = cur
    PROVE  objs'[c] = objs[c]
<1> DEFINE d == Targets(cur)[tix]
<1>1. /\ cur \in Nodes /\ tix \in 1..Len(Targets(cur))
      /\ d \in Nodes /\ d # cur /\ objs \in [Nodes -> Bag]
      /\ objs' = PassObjects(objs, cur, d)
  BY TargetsType DEF PassAt, DInv, TypeOK
<1>2. Len(cur) = Len(c) - 1 /\ c # cur
  BY ParentLen
<1>3. CASE c # d
  BY <1>1, <1>2, <1>3, PassObjectsEffect
<1>4. CASE c = d
  <2>1. tix # 1
    <3>1. CASE cur = Root
      BY <1>1, <1>4, <3>1, FirstTargets
    <3>2. CASE cur # Root
      <4>1. Targets(cur)[1] = Parent(cur) /\ Len(Parent(cur)) = Len(cur) - 1
        BY <1>1, <3>2, ParentFirst, ParentLen
      <4>2. QED
        BY <1>2, <1>4, <4>1
    <3>3. QED
      BY <3>1, <3>2
  <2>2. NoPassers(cur)
    BY <1>1, <2>1 DEF PassAt, DInv, PassedOn
  <2>3. \A t \in Types : objs'[c][t] = IF Passes(cur, t)
                                        THEN objs[c][t] + objs[cur][t]
                                        ELSE objs[c][t]
    <3>1. LET p == PassObjects(objs, cur, d) IN
          \A t \in Types : p[d][t] = IF Passes(cur, t)
                                     THEN objs[d][t] + objs[cur][t]
                                     ELSE objs[d][t]
      BY <1>1, PassObjectsEffect
    <3>2. QED
      BY <1>1, <1>4, <3>1
  <2>4. objs'[c] \in [Types -> Nat] /\ objs[c] \in [Types -> Nat]
    <3>1. objs' \in [Nodes -> Bag]
      BY <1>1, PassObjectsType
    <3>2. QED
      BY <1>1, <3>1 DEF Bag
  <2>5. \A t \in Types : objs'[c][t] = objs[c][t]
    BY <2>2, <2>3, <2>4 DEF NoPassers
  <2>6. QED
    BY <2>4, <2>5
<1>5. QED
  BY <1>3, <1>4

(* Step's transport loop never moves an object down into a child other    *)
(* than root_0, wherever objects are injected (the public InjectObject).  *)
THEOREM NoDownflowHolds == Spec => NoDownflow
<1>1. Init => DInv
  BY DInvInit
<1>2. DInv /\ [Next]_vars => DInv'
  BY DInvStep
<1>3. DInv /\ [Next]_vars => [PassAt => \A c \in Nodes \ {Root, Root0} :
                                Parent(c) = cur => objs'[c] = objs[c]]_vars
  BY NoDownflowStep
<1>4. QED
  BY <1>1, <1>2, <1>3, PTL DEF Spec, NoDownflow

=============================================================================
