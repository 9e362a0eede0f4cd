------------------------------- MODULE Plans -------------------------------
(***************************************************************************)
(* Plans made from the provider's bundles: an import takes one bundle      *)
(* after the other, each in a transaction that looks for a plan of the     *)
(* bundle without a lock; administrators create, change and delete plans,  *)
(* and orders refer to them.                                               *)
(***************************************************************************)
EXTENDS Requests

CONSTANTS Plans, Bundles, Purchases, NoPlan, NoBundle

ASSUME PlansAssumption ==
  NoPlan \notin Plans /\ NoBundle \notin Bundles

VARIABLES
  bundleOf,   \* provider_bundle_id of the rows of plans; NoBundle without a row
  byHand,     \* bundles that an administrator has given to a plan
  purchase,   \* orders: their status and plan_id
  editor,     \* what the workers do
  contested   \* bundles that two imports were about to add at the same time

planVars == <<bundleOf, byHand, purchase, editor, contested>>

\* todo: the bundles an import has yet to look at; plan: the one a request has read;
\* cleared: the orders that a deletion takes it from.
Editor == [at : {"out", "importing", "adding", "buying", "deleting"},
           todo : SUBSET Bundles, bundle : Bundles \cup {NoBundle},
           plan : Plans \cup {NoPlan}, cleared : SUBSET Purchases]

Out == [at |-> "out", todo |-> {}, bundle |-> NoBundle, plan |-> NoPlan, cleared |-> {}]

PlansTypeOK ==
  /\ bundleOf \in [Plans -> Bundles \cup {NoBundle}]
  /\ byHand \in SUBSET Bundles /\ contested \in SUBSET Bundles
  /\ purchase \in [Purchases -> [status : {"none", "waiting", "paid"}, plan : Plans \cup {NoPlan}]]
  /\ editor \in [Workers -> Editor]

PlansInit ==
  /\ bundleOf = [p \in Plans |-> NoBundle]
  /\ byHand = {} /\ contested = {}
  /\ purchase = [n \in Purchases |-> [status |-> "none", plan |-> NoPlan]]
  /\ editor = [w \in Workers |-> Out]

PlansOf(b) == {p \in Plans : bundleOf[p] = b}
OrdersOf(p) == {n \in Purchases : purchase[n].plan = p}

\* Ids are not used twice.
Unused(p) == bundleOf[p] = NoBundle /\ \A w \in Workers : editor[w].plan # p

AtWork(w, step) == editor[w].at = step
Edit(w, r) == editor' = [editor EXCEPT ![w] = r]

-----------------------------------------------------------------------------
(* Import                                                                  *)

ImportCatalogue(w, todo) ==
  /\ AtWork(w, "out") /\ todo # {}
  /\ Edit(w, [Out EXCEPT !.at = "importing", !.todo = todo])
  /\ UNCHANGED <<bundleOf, byHand, purchase, contested>>

\* The bundle is not found, has a plan already or has no price.
SkipBundle(w, b) ==
  /\ AtWork(w, "importing") /\ b \in editor[w].todo
  /\ Edit(w, [editor[w] EXCEPT !.todo = @ \ {b}])
  /\ UNCHANGED <<bundleOf, byHand, purchase, contested>>

Adding(w, b) ==
  /\ AtWork(w, "importing") /\ b \in editor[w].todo
  /\ Edit(w, [editor[w] EXCEPT !.at = "adding", !.todo = @ \ {b}, !.bundle = b])
  /\ contested' = IF \E v \in Workers : editor[v].bundle = b THEN contested \cup {b} ELSE contested
  /\ UNCHANGED <<bundleOf, byHand, purchase>>

\* Variant: a plan of the bundle that is there already is not looked for.
NewBundleUnchecked(w, b) == Adding(w, b)

NewBundle(w, b) == PlansOf(b) = {} /\ Adding(w, b)

AddPlan(w, p) ==
  /\ AtWork(w, "adding") /\ Unused(p)
  /\ bundleOf' = [bundleOf EXCEPT ![p] = editor[w].bundle]
  /\ Edit(w, [editor[w] EXCEPT !.at = "importing", !.bundle = NoBundle])
  /\ UNCHANGED <<byHand, purchase, contested>>

\* The list is done; or an error or the end of the worker leaves the plans that are
\* committed, and the administrator may import the same bundles again.
EndImport(w) ==
  /\ editor[w].at \in {"importing", "adding"}
  /\ Edit(w, Out)
  /\ UNCHANGED <<bundleOf, byHand, purchase, contested>>

-----------------------------------------------------------------------------
(* Administration                                                          *)

CreatePlan(p, b) ==
  /\ Unused(p)
  /\ bundleOf' = [bundleOf EXCEPT ![p] = b]
  /\ byHand' = byHand \cup {b}
  /\ UNCHANGED <<purchase, editor, contested>>

UpdatePlan(p, b) ==
  /\ bundleOf[p] # NoBundle
  /\ bundleOf' = [bundleOf EXCEPT ![p] = b]
  /\ byHand' = IF b = bundleOf[p] THEN byHand ELSE byHand \cup {b}
  /\ UNCHANGED <<purchase, editor, contested>>

\* A batch deletes one plan after the other.
DeletePlan(w, p) ==
  /\ AtWork(w, "out") /\ bundleOf[p] # NoBundle
  /\ Edit(w, [Out EXCEPT !.at = "deleting", !.plan = p, !.cleared = OrdersOf(p)])
  /\ UNCHANGED <<bundleOf, byHand, purchase, contested>>

\* The orders lose the plan, whatever their status.
Remove(gone) ==
  /\ bundleOf' = [p \in Plans |-> IF p \in gone THEN NoBundle ELSE bundleOf[p]]
  /\ purchase' = [n \in Purchases |->
       IF purchase[n].plan \in gone THEN [purchase[n] EXCEPT !.plan = NoPlan] ELSE purchase[n]]
  /\ UNCHANGED <<byHand, contested>>

\* An order that has been placed since the orders were cleared keeps the plan.
CommitDelete(w) ==
  LET p == editor[w].plan IN
  /\ AtWork(w, "deleting") /\ OrdersOf(p) \subseteq editor[w].cleared
  /\ Remove({p})
  /\ Edit(w, Out)

DeleteFails(w) ==
  /\ AtWork(w, "deleting")
  /\ Edit(w, Out)
  /\ UNCHANGED <<bundleOf, byHand, purchase, contested>>

DeleteAllPlans ==
  /\ Remove(Plans)
  /\ UNCHANGED editor

-----------------------------------------------------------------------------
(* Orders                                                                  *)

BuyPlan(w, p) ==
  /\ AtWork(w, "out") /\ bundleOf[p] # NoBundle
  /\ Edit(w, [Out EXCEPT !.at = "buying", !.plan = p])
  /\ UNCHANGED <<bundleOf, byHand, purchase, contested>>

\* The row of the plan must still be there.
PlacePurchase(w, n) ==
  LET p == editor[w].plan IN
  /\ AtWork(w, "buying") /\ bundleOf[p] # NoBundle /\ purchase[n].status = "none"
  /\ \E s \in {"waiting", "paid"} : purchase' = [purchase EXCEPT ![n] = [status |-> s, plan |-> p]]
  /\ Edit(w, Out)
  /\ UNCHANGED <<bundleOf, byHand, contested>>

BuyFails(w) ==
  /\ AtWork(w, "buying")
  /\ Edit(w, Out)
  /\ UNCHANGED <<bundleOf, byHand, purchase, contested>>

\* Without its plan an order cannot be approved: its name is read first.
ApprovePurchase(n) ==
  /\ purchase[n].status = "waiting" /\ purchase[n].plan # NoPlan
  /\ purchase' = [purchase EXCEPT ![n].status = "paid"]
  /\ UNCHANGED <<bundleOf, byHand, editor, contested>>

PlansNext ==
  \/ DeleteAllPlans
  \/ \E n \in Purchases : ApprovePurchase(n)
  \/ \E p \in Plans, b \in Bundles : CreatePlan(p, b) \/ UpdatePlan(p, b)
  \/ \E w \in Workers :
       \/ EndImport(w) \/ CommitDelete(w) \/ DeleteFails(w) \/ BuyFails(w)
       \/ \E todo \in SUBSET Bundles : ImportCatalogue(w, todo)
       \/ \E b \in Bundles : SkipBundle(w, b) \/ NewBundle(w, b)
       \/ \E p \in Plans : AddPlan(w, p) \/ DeletePlan(w, p) \/ BuyPlan(w, p)
       \/ \E n \in Purchases : PlacePurchase(w, n)

PlansSpec == PlansInit /\ [][PlansNext]_planVars

-----------------------------------------------------------------------------
\* Imports make one plan of a bundle however often they are repeated, also after they
\* stopped half-way, unless two were about to add it at the same time or an
\* administrator has given the bundle to a plan.
OnePlanPerBundle ==
  \A p, q \in Plans :
    bundleOf[p] = bundleOf[q] /\ bundleOf[p] \notin {NoBundle} \cup byHand \cup contested => p = q

\* An order refers to a plan that is there, whatever is deleted while it is placed.
OrdersHaveTheirPlan ==
  \A n \in Purchases : purchase[n].plan # NoPlan => bundleOf[purchase[n].plan] # NoBundle
=============================================================================
