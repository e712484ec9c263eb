--------------------------- MODULE MembraneSystem ---------------------------
(***************************************************************************)
(* The P-system membrane hierarchy of reservoir/membrane.go.               *)
(*                                                                         *)
(* A membrane is identified by its path from the root: <<>> is "root",     *)
(* <<0,1>> is "root_0_1" (the id buildHierarchy formats).  The contents    *)
(* of a membrane are kept as a bag of object types: ObjCharge and ObjMob   *)
(* give every object of one type the same charge and mobility (as the      *)
(* filter's InjectObject calls and the rule transforms do), so the only    *)
(* thing the code's ordered list decides (which object of a type           *)
(* findMatches takes first) cannot be told apart.  The                     *)
(* float Value of an object is not modelled: no guard reads it.            *)
(*                                                                         *)
(* MembraneSystem.Step is modelled as the sequence of calls it makes: one  *)
(* EvolveAt per membrane in registry order, then one PassAt per            *)
(* (membrane, target) pair in registry order.  No other operation runs     *)
(* while a Step is in progress (the hierarchy has a single sequential      *)
(* owner, spec section 5).                                                 *)
(***************************************************************************)
EXTENDS Integers, Sequences, FiniteSets

CONSTANTS
    Depth,          \* the depth argument of NewMembraneSystem
    MaxObjects,     \* bound on the objects held by the whole hierarchy
    InjectTypes,    \* types of the objects callers inject
    InjectTargets,  \* membranes callers inject into
    ObjCharge,      \* ObjCharge[t]: Charge of an injected object of type t
    ObjMob          \* ObjMob[t]: Mobility of an object of type t, in percent

\* Object types named by CreateDefaultRules.
InTypes  == {"token", "negative_signal", "positive_signal", "emotion_signal"}
OutTypes == {"spam_score", "ham_score", "modulated_signal"}
Types    == InTypes \cup OutTypes

\* Number of levels buildHierarchy creates: the root alone when Depth <= 1.
Levels == IF Depth >= 1 THEN Depth ELSE 1

Root  == << >>
Nodes == UNION {[1..k -> {0, 1}] : k \in 0..(Levels - 1)}
Level(n) == Len(n)
Parent(n) == SubSeq(n, 1, Len(n) - 1)
HasChildren(n) == Len(n) < Levels - 1
Children(n) == IF HasChildren(n) THEN << n \o <<0>>, n \o <<1>> >> ELSE << >>
Leaves == {n \in Nodes : ~HasChildren(n)}

ASSUME DepthAssumption == Depth \in Nat
ASSUME MaxObjectsAssumption == MaxObjects \in Nat
ASSUME InjectAssumption ==
    /\ InjectTypes \subseteq InTypes
    /\ InjectTargets \subseteq Nodes
    /\ ObjCharge \in [InTypes -> Int]
    /\ ObjMob \in [InTypes -> 0..100]

(* The transforms of CreateDefaultRules give their outputs fixed charge and *)
(* mobility (0.8); modulated_signal keeps those of the emotion_signal.      *)
Charge(t) ==
    CASE t \in InTypes       -> ObjCharge[t]
      [] t = "spam_score"    -> -1
      [] t = "ham_score"     -> 1
      [] t = "modulated_signal" -> ObjCharge["emotion_signal"]
Mobility(t) ==
    CASE t \in InTypes       -> ObjMob[t]
      [] t \in {"spam_score", "ham_score"} -> 80
      [] t = "modulated_signal" -> ObjMob["emotion_signal"]

(* NewMembrane(id, level, perm): 1.0 for the root, 0.5 + 0.1*level below. *)
Permeability(n) == IF n = Root THEN 100 ELSE 50 + 10 * Level(n)

(* PassObjects: passProb = perm * mobility, times 1.2 when charged, > 0.5, *)
(* in integer units of 1/100 for perm and mobility and 1/10 for 1.2.       *)
Passes(n, t) ==
    Permeability(n) * Mobility(t) * (IF Charge(t) # 0 THEN 12 ELSE 10) > 50000

Bag == [Types -> Nat]
EmptyBag == [t \in Types |-> 0]
Unit(t) == [u \in Types |-> IF u = t THEN 1 ELSE 0]

(* CreateDefaultRules: input types (a set, as findMatches's typeNeeded) and *)
(* the bag of objects the Transform returns for one match.                 *)
SpamRule == [name |-> "spam_detection", priority |-> 100,
             in |-> {"token", "negative_signal"}, out |-> Unit("spam_score")]
HamRule  == [name |-> "ham_detection", priority |-> 100,
             in |-> {"token", "positive_signal"}, out |-> Unit("ham_score")]
AffRule  == [name |-> "affective_modulation", priority |-> 50,
             in |-> {"emotion_signal"}, out |-> Unit("modulated_signal")]
DefaultRules == << SpamRule, HamRule, AffRule >>

(* The exchange sort of Evolve, for the three default rules: the pairs     *)
(* (i, j), i < j, in loop order, swapped when rs[j] has higher priority.   *)
SwapIf(rs, i, j) ==
    IF rs[j].priority > rs[i].priority
    THEN [rs EXCEPT ![i] = rs[j], ![j] = rs[i]] ELSE rs
SortRules(rs) ==
    IF Len(rs) = 3 THEN SwapIf(SwapIf(SwapIf(rs, 1, 2), 1, 3), 2, 3) ELSE rs

(* Only the children get CreateDefaultRules; the root has no rule.         *)
RulesOf(n) == IF n = Root THEN << >> ELSE DefaultRules

(* Mutant of ApplyRule: a match accepted without checking that its       *)
(* objects are there.                                                      *)
ApplyRuleNoGuard(b, st, r) ==
    IF r.in # {}
    THEN [used |-> [t \in Types |-> st.used[t] + (IF t \in r.in THEN 1 ELSE 0)],
          made |-> [t \in Types |-> st.made[t] + r.out[t]]]
    ELSE st

(* One iteration of Evolve's rule loop: findMatches finds, for each needed  *)
(* type, an object not yet used; the match marks them used and the         *)
(* transform's outputs are set aside (not matchable in this Evolve).       *)
ApplyRule(b, st, r) ==
    IF /\ r.in # {}
       /\ \A t \in r.in : b[t] - st.used[t] >= 1
    THEN [used |-> [t \in Types |-> st.used[t] + (IF t \in r.in THEN 1 ELSE 0)],
          made |-> [t \in Types |-> st.made[t] + r.out[t]]]
    ELSE st

(* Mutant of Evolve: the used objects are kept as well. *)
EvolveKeepsUsed(b, rules) ==
    IF rules = << >> THEN b
    ELSE LET rs == SortRules(rules)
             s0 == [used |-> EmptyBag, made |-> EmptyBag]
             s3 == ApplyRule(b, ApplyRule(b, ApplyRule(b, s0, rs[1]), rs[2]), rs[3])
         IN  [t \in Types |-> b[t] + s3.made[t]]

(* Evolve: rules in priority order, then the unused objects followed by    *)
(* the new ones.                                                           *)
Evolve(b, rules) ==
    IF rules = << >> THEN b
    ELSE LET rs == SortRules(rules)
             s0 == [used |-> EmptyBag, made |-> EmptyBag]
             s3 == ApplyRule(b, ApplyRule(b, ApplyRule(b, s0, rs[1]), rs[2]), rs[3])
         IN  [t \in Types |-> b[t] - s3.used[t] + s3.made[t]]

(* PassObjects(target): every object that passes moves to target.          *)
PassObjects(o, src, dst) ==
    [o EXCEPT ![src] = [t \in Types |-> IF Passes(src, t) THEN 0 ELSE o[src][t]],
              ![dst] = [t \in Types |-> IF Passes(src, t)
                                        THEN o[dst][t] + o[src][t]
                                        ELSE o[dst][t]]]

(* Mutant of Targets: the children before the parent. *)
TargetsChildrenFirst(n) ==
    Children(n) \o (IF n = Root THEN << >> ELSE << Parent(n) >>)

(* Step's transport loop: the parent first, then the children in order.    *)
Targets(n) == (IF n = Root THEN << >> ELSE << Parent(n) >>) \o Children(n)

(* The registry ms.All in creation order: buildHierarchy appends a child   *)
(* and recurses into it before its sibling, so All is the preorder.        *)
(* NextNode(n) is the membrane after n in All, or Done after the last.     *)
Done == << 2 >>
LastZero(n) == CHOOSE k \in 0..Len(n) :
                  /\ (k > 0 => n[k] = 0)
                  /\ \A j \in (k + 1)..Len(n) : n[j] = 1
NextNode(n) ==
    IF HasChildren(n) THEN n \o <<0>>
    ELSE IF LastZero(n) \in 1..Len(n)
         THEN SubSeq(n, 1, LastZero(n) - 1) \o <<1>>
         ELSE Done

(* The sum of val(x) over the finite set S. *)
Tally(S, val(_)) ==
    LET F[T \in SUBSET S] ==
            IF T = {} THEN 0
            ELSE LET x == CHOOSE x \in T : TRUE IN val(x) + F[T \ {x}]
    IN  F[S]

(* The number of objects held by all membranes. *)
Total(o) == Tally(Nodes \X Types, LAMBDA x : o[x[1]][x[2]])

(* The number of objects of type t held by all membranes. *)
CountOf(o, t) == Tally(Nodes, LAMBDA n : o[n][t])

-----------------------------------------------------------------------------
VARIABLES
    objs,    \* objs[n][t]: objects of type t in membrane n
    phase,   \* "idle", or the loop of Step in progress: "evolve" / "pass"
    cur,     \* the membrane of ms.All the loop is at
    tix      \* index into Targets(cur) of the next PassObjects call

vars == << objs, phase, cur, tix >>

Init ==
    /\ objs = [n \in Nodes |-> EmptyBag]
    /\ phase = "idle"
    /\ cur = Root
    /\ tix = 1

(* InjectObject(id, obj) for a registered id: AddObject appends obj.       *)
InjectObject(n, t) ==
    /\ phase = "idle"
    /\ Total(objs) < MaxObjects
    /\ objs' = [objs EXCEPT ![n][t] = @ + 1]
    /\ UNCHANGED << phase, cur, tix >>

(* Step is called: its evolution loop starts at ms.All[0], the root.       *)
StepStart ==
    /\ phase = "idle"
    /\ phase' = "evolve"
    /\ cur' = Root
    /\ UNCHANGED << objs, tix >>

(* membrane.Evolve() for the membrane the evolution loop is at.            *)
EvolveAt ==
    /\ phase = "evolve"
    /\ objs' = [objs EXCEPT ![cur] = Evolve(objs[cur], RulesOf(cur))]
    /\ IF NextNode(cur) = Done
       THEN /\ phase' = "pass"
            /\ cur' = Root
            /\ tix' = 1
       ELSE /\ cur' = NextNode(cur)
            /\ UNCHANGED << phase, tix >>

(* membrane.PassObjects(target) for the next target of cur.                *)
PassAt ==
    /\ phase = "pass"
    /\ tix <= Len(Targets(cur))
    /\ objs' = PassObjects(objs, cur, Targets(cur)[tix])
    /\ tix' = tix + 1
    /\ UNCHANGED << phase, cur >>

(* The transport loop moves to the next membrane; after the last, Step     *)
(* increments StepCount (not modelled: nothing reads it but GetStats) and  *)
(* returns.                                                                *)
PassNext ==
    /\ phase = "pass"
    /\ tix > Len(Targets(cur))
    /\ tix' = 1
    /\ IF NextNode(cur) = Done
       THEN /\ phase' = "idle"
            /\ cur' = Root
       ELSE /\ cur' = NextNode(cur)
            /\ UNCHANGED phase
    /\ UNCHANGED objs

StepWork == StepStart \/ EvolveAt \/ PassAt \/ PassNext

Next ==
    \/ \E n \in InjectTargets, t \in InjectTypes : InjectObject(n, t)
    \/ StepWork

Spec == Init /\ [][Next]_vars

(* A caller that keeps calling Step, and a Step that runs to completion.   *)
FairSpec == Spec /\ WF_vars(StepWork)

-----------------------------------------------------------------------------
TypeOK ==
    /\ objs \in [Nodes -> Bag]
    /\ phase \in {"idle", "evolve", "pass"}
    /\ cur \in Nodes
    /\ tix \in 1..4

-----------------------------------------------------------------------------
(***************************************************************************)
(* Where objects can go.  Step passes in registry order and every membrane *)
(* passes to its parent before its children, with the same pass test       *)
(* (it depends on the source's permeability only): whatever root hands to  *)
(* root_0 is handed straight back.  When every object enters at the root   *)
(* (processMembraneSystem injects only into "root"), no membrane other     *)
(* than root and root_0 ever holds an object.                              *)
(***************************************************************************)
Root0 == <<0>>
RootOnlyReach == \A n \in Nodes \ {Root, Root0} : objs[n] = EmptyBag

(* PassObjects never moves an object down into a child other than root_0: *)
(* a membrane's passing objects have already gone to its parent (or, for  *)
(* the root, to its first child) when its children's turn comes.          *)
NoDownflow ==
    [][PassAt => \A c \in Nodes \ {Root, Root0} :
                    Parent(c) = cur => objs'[c] = objs[c]]_vars

(* Evolve's rules and Step's transport conserve, over the whole hierarchy, *)
(* every token (free or inside a spam_score or ham_score), every negative  *)
(* and positive signal (free or scored) and every emotion signal (raw or   *)
(* modulated): each match consumes exactly its inputs once.                *)
Balance(o) ==
    << CountOf(o, "token") + CountOf(o, "spam_score") + CountOf(o, "ham_score"),
       CountOf(o, "negative_signal") + CountOf(o, "spam_score"),
       CountOf(o, "positive_signal") + CountOf(o, "ham_score"),
       CountOf(o, "emotion_signal") + CountOf(o, "modulated_signal") >>
StepConservesSignals == [][StepWork => Balance(objs') = Balance(objs)]_vars

(* RESERVOIR_COMPUTING.md: objects injected at the root "evolve through    *)
(* the membrane hierarchy, with spam/ham signals emerging at leaf          *)
(* membranes", which CollectResults reads.  Under a caller that keeps      *)
(* calling Step, every object injected at the root should eventually make  *)
(* some leaf non-empty.                                                    *)
SignalsReachLeaves ==
    \A t \in InjectTypes :
        (objs[Root][t] > 0) ~> (\E l \in Leaves : objs[l] # EmptyBag)

=============================================================================
