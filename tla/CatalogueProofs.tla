-------------------------- MODULE CatalogueProofs --------------------------
(***************************************************************************)
(* The catalogue's files, its plans and the exchange rates: what their     *)
(* unlocked handlers keep, for any number of workers.                      *)
(***************************************************************************)
EXTENDS MCOperations, TLAPS

-----------------------------------------------------------------------------
(* Rates: a change that no other has crossed has read the only row there is. *)

ChangesRate ==
  /\ \A v, w \in Workers : setter[v].busy /\ setter[w].busy => v = w
  /\ \A w \in Workers : setter[w].busy =>
       IF setter[w].row = NoRow THEN Rows = {}
       ELSE setter[w].row \in Rows /\ setter[w].copy = rate[setter[w].row]

RatesInv == RatesTypeOK /\ RateAsTold /\ (~crossed => ChangesRate)

LEMMA RatesInitially == RatesInit => RatesInv
<1> SUFFICES ASSUME RatesInit
             PROVE  RatesInv
  OBVIOUS
<1>1. Absent \in Rate
  BY DEF Absent, Rate, Sources
<1>2. Unset \in Setter /\ ~Unset.busy
  BY <1>1 DEF Unset, Setter
<1>3. RatesTypeOK
  BY <1>1, <1>2 DEF RatesInit, RatesTypeOK, Sources
<1>4. Rows = {}
  BY DEF RatesInit, Rows, Absent
<1>5. ChangesRate
  BY <1>2 DEF RatesInit, ChangesRate
<1> QED
  BY <1>3, <1>4, <1>5 DEF RatesInv, RateAsTold

LEMMA RatesKeptBy == RatesInv /\ [RatesNext]_rateVars => RatesInv'
<1> SUFFICES ASSUME RatesInv, [RatesNext]_rateVars
             PROVE  RatesInv'
  OBVIOUS
<1> USE DEF RatesInv, RatesTypeOK, RateAsTold, ChangesRate, Rows, Rate, Setter
<1>a. CASE UNCHANGED rateVars
  BY <1>a DEF rateVars
<1>b. Absent \in Rate /\ Unset \in Setter /\ ~Unset.busy
  <2>1. Absent \in Rate
    BY DEF Absent, Sources
  <2> QED
    BY <2>1 DEF Unset
<1>1. ASSUME NEW w \in Workers, NEW r \in RateRows \cup {NoRow}, NEW set \in Rate,
             ReadRate(w, r, set)
      PROVE  RatesInv'
  BY <1>1, <1>b, RatesAssumption DEF ReadRate
<1>2. ASSUME NEW w \in Workers, NEW r \in RateRows, InsertRate(w, r)
      PROVE  RatesInv'
  BY <1>2, <1>b DEF InsertRate
<1>3. ASSUME NEW w \in Workers, RateUnchanged(w)
      PROVE  RatesInv'
  BY <1>3, <1>b DEF RateUnchanged
<1>4. ASSUME NEW w \in Workers, UpdateRate(w)
      PROVE  RatesInv'
  <2> DEFINE r == setter[w].row
             new == [value |-> Value(w), source |-> Source(w)]
  <2>1. r \in RateRows /\ new \in Rate
    BY <1>4 DEF UpdateRate, Store, Value, Source, Written
  <2>2. setter' = [setter EXCEPT ![w] = Unset] /\ crossed' = crossed /\ setter[w].busy
        /\ rate' = [rate EXCEPT ![r] = new]
        /\ told' = IF new.value = setter[w].set.value
                   THEN [told EXCEPT ![r] = setter[w].set.source] ELSE told
    BY <1>4 DEF UpdateRate, Store
  <2>3. RatesTypeOK'
    BY <2>1, <2>2, <1>b
  <2>4. ASSUME ~crossed
        PROVE  new.value = setter[w].set.value /\ new.source = setter[w].set.source
    BY <2>1, <2>2, <2>4, RatesAssumption DEF Value, Source, Written
  <2> HIDE DEF new
  <2>5. ASSUME ~crossed
        PROVE  ChangesRate'
    BY <2>1, <2>2, <2>5, <1>b
  <2>6. RateAsTold'
    BY <2>1, <2>2, <2>4
  <2> QED
    BY <2>2, <2>3, <2>5, <2>6
<1>5. ASSUME NEW w \in Workers, NEW r \in RateRows \cup {NoRow}, NEW v \in Values,
             SetRate(w, r, v) \/ AutoFetchRates(w, r, v)
      PROVE  RatesInv'
  BY <1>1, <1>5 DEF SetRate, AutoFetchRates, Sources
<1> QED
  BY <1>a, <1>2, <1>3, <1>4, <1>5 DEF RatesNext

-----------------------------------------------------------------------------
(* The network index: while no two builders have met at the lock file, one  *)
(* that is beyond looking at it has it for itself.                          *)

HoldsLock ==
  /\ \A v, w \in Workers : builder[v].at \in AtLock /\ builder[w].at \in AtLock => v = w
  /\ \A w \in Workers :
       /\ builder[w].at = "stale" => lock \in {"empty", "dead"}
       /\ builder[w].at = "creating" => lock = "absent"
       /\ builder[w].at = "signing" => lock = "empty"
       /\ builder[w].at \in Building => lock = w

IndexInv == IndexTypeOK /\ FilesReadable /\ (~raced => HoldsLock)

LEMMA IndexInitially == IndexInit => IndexInv
<1> SUFFICES ASSUME IndexInit
             PROVE  IndexInv
  OBVIOUS
<1>1. Off \in [at : Steps, data : {"absent"} \cup Contents] /\ Off.at = "off"
  BY DEF Off, Steps
<1>2. IndexTypeOK
  BY <1>1 DEF IndexInit, IndexTypeOK, Files
<1>3. HoldsLock
  BY <1>1 DEF IndexInit, HoldsLock, AtLock, Building
<1> QED
  BY <1>2, <1>3 DEF IndexInit, IndexInv, FilesReadable

LEMMA IndexKeptBy == IndexInv /\ [IndexNext]_indexVars => IndexInv'
<1> SUFFICES ASSUME IndexInv, [IndexNext]_indexVars
             PROVE  IndexInv'
  OBVIOUS
<1> USE IndexAssumption DEF IndexInv, IndexTypeOK, FilesReadable, HoldsLock, Off, Files,
  Contents, Steps, AtLock, Building, Others, Busy, Become, Leave
<1>a. CASE UNCHANGED indexVars
  BY <1>a DEF indexVars, caches
<1>1. ASSUME NEW w \in Workers, NEW pages \in Contents, FetchFullCatalogue(w, pages)
      PROVE  IndexInv'
  BY <1>1 DEF FetchFullCatalogue, caches
<1>2. ASSUME NEW w \in Workers, OpenCatalogue(w)
      PROVE  IndexInv'
  BY <1>2 DEF OpenCatalogue
<1>3. ASSUME NEW w \in Workers, SaveCatalogue(w)
      PROVE  IndexInv'
  BY <1>3 DEF SaveCatalogue
<1>4. ASSUME NEW w \in Workers, SaveFails(w)
      PROVE  IndexInv'
  BY <1>4 DEF SaveFails, caches
<1>5. ASSUME NEW w \in Workers, StartBuild(w)
      PROVE  IndexInv'
  <2>1. /\ builder' = [builder EXCEPT ![w].at = IF lock = "absent" THEN "creating" ELSE "found"]
        /\ builder[w].at = "off" /\ raced' \in BOOLEAN
        /\ ~raced' => ~raced /\ \A v \in Workers \ {w} : builder[v].at \notin AtLock
        /\ UNCHANGED <<catalogue, index, lock, spoiled>>
    BY <1>5 DEF StartBuild, Meets, caches
  <2>2. CASE lock = "absent"
    BY <2>1, <2>2
  <2>3. CASE lock # "absent"
    BY <2>1, <2>3
  <2> QED
    BY <2>2, <2>3
<1>6. ASSUME NEW w \in Workers, ReadPid(w)
      PROVE  IndexInv'
  BY <1>6 DEF ReadPid, Meets, caches
<1>7. ASSUME NEW w \in Workers, RemoveLock(w)
      PROVE  IndexInv'
  BY <1>7 DEF RemoveLock, Meets, caches
<1>8. ASSUME NEW w \in Workers, CreateLock(w)
      PROVE  IndexInv'
  BY <1>8 DEF CreateLock, Meets, caches
<1>9. ASSUME NEW w \in Workers, WritePid(w)
      PROVE  IndexInv'
  BY <1>9 DEF WritePid, Meets, caches
<1>10. ASSUME NEW w \in Workers, ReadCatalogue(w)
       PROVE  IndexInv'
  BY <1>10 DEF ReadCatalogue
<1>11. ASSUME NEW w \in Workers, BuildFails(w)
       PROVE  IndexInv'
  BY <1>11 DEF BuildFails, Unlock, caches
<1>12. ASSUME NEW w \in Workers, WriteIndex(w)
       PROVE  IndexInv'
  BY <1>12 DEF WriteIndex, Unlock
<1>13. ASSUME NEW w \in Workers, WriteIndexFails(w)
       PROVE  IndexInv'
  BY <1>13 DEF WriteIndexFails, Unlock, caches
<1>14. ASSUME NEW w \in Workers, BuilderDies(w)
       PROVE  IndexInv'
  BY <1>14 DEF BuilderDies, caches
<1> QED
  BY <1>a, <1>1, <1>2, <1>3, <1>4, <1>5, <1>6, <1>7, <1>8, <1>9, <1>10, <1>11, <1>12,
     <1>13, <1>14 DEF IndexNext

-----------------------------------------------------------------------------
(* Plans: a bundle that an import is about to add has no plan yet, and no   *)
(* other import is about to add it.                                         *)

AddsNew ==
  \A w \in Workers : editor[w].bundle \notin {NoBundle} \cup byHand \cup contested =>
    /\ PlansOf(editor[w].bundle) = {}
    /\ \A v \in Workers : editor[v].bundle = editor[w].bundle => v = w

PlansInv == PlansTypeOK /\ OnePlanPerBundle /\ OrdersHaveTheirPlan /\ AddsNew

LEMMA OutIsIdle ==
  /\ Out \in Editor /\ Out.at = "out" /\ Out.bundle = NoBundle
  /\ Out.plan = NoPlan /\ Out.cleared = {} /\ Out.todo = {}
BY DEF Out, Editor

LEMMA PlansInitially == PlansInit => PlansInv
<1> SUFFICES ASSUME PlansInit
             PROVE  PlansInv
  OBVIOUS
<1>1. PlansTypeOK
  BY OutIsIdle DEF PlansInit, PlansTypeOK
<1>2. OnePlanPerBundle /\ OrdersHaveTheirPlan
  BY DEF PlansInit, OnePlanPerBundle, OrdersHaveTheirPlan
<1>3. AddsNew
  BY OutIsIdle DEF PlansInit, AddsNew
<1> QED
  BY <1>1, <1>2, <1>3 DEF PlansInv

\* A step that gives no plan a bundle and takes up none.
LEMMA PlansShrink ==
  ASSUME PlansInv, PlansTypeOK', OrdersHaveTheirPlan',
         \A p \in Plans : bundleOf'[p] \in {bundleOf[p], NoBundle},
         \A w \in Workers : editor'[w].bundle \in {editor[w].bundle, NoBundle},
         UNCHANGED <<byHand, contested>>
  PROVE  PlansInv'
BY DEF PlansInv, OnePlanPerBundle, AddsNew, PlansOf, PlansTypeOK, Editor

LEMMA PlansKeptBy == PlansInv /\ [PlansNext]_planVars => PlansInv'
<1> SUFFICES ASSUME PlansInv, [PlansNext]_planVars
             PROVE  PlansInv'
  OBVIOUS
<1> USE PlansAssumption DEF PlansInv, PlansTypeOK, OrdersHaveTheirPlan, AtWork, Edit
<1>a. CASE UNCHANGED planVars
  BY <1>a DEF planVars, OnePlanPerBundle, AddsNew, PlansOf
<1>o. /\ Out \in Editor /\ Out.at = "out" /\ Out.bundle = NoBundle
      /\ Out.plan = NoPlan /\ Out.cleared = {} /\ Out.todo = {}
  BY OutIsIdle
<1>r. ASSUME NEW gone, Remove(gone)
      PROVE  /\ bundleOf' \in [Plans -> Bundles \cup {NoBundle}]
             /\ purchase' \in [Purchases -> [status : {"none", "waiting", "paid"},
                                            plan : Plans \cup {NoPlan}]]
             /\ \A p \in Plans : bundleOf'[p] \in {bundleOf[p], NoBundle}
             /\ OrdersHaveTheirPlan'
             /\ UNCHANGED <<byHand, contested>>
  BY <1>r DEF Remove
<1>e. ASSUME NEW w \in Workers, NEW e \in Editor, Edit(w, e),
             e.bundle \in {editor[w].bundle, NoBundle},
             UNCHANGED <<bundleOf, byHand, purchase, contested>>
      PROVE  PlansInv'
  <2>1. PlansTypeOK' /\ OrdersHaveTheirPlan'
    BY <1>e
  <2>2. \A v \in Workers : editor'[v].bundle \in {editor[v].bundle, NoBundle}
    BY <1>e
  <2> QED
    BY <1>e, <2>1, <2>2, PlansShrink
<1>1. CASE DeleteAllPlans
  BY <1>1, <1>r, PlansShrink DEF DeleteAllPlans
<1>2. ASSUME NEW n \in Purchases, ApprovePurchase(n)
      PROVE  PlansInv'
  <2>1. PlansTypeOK' /\ OrdersHaveTheirPlan'
    BY <1>2 DEF ApprovePurchase
  <2> QED
    BY <1>2, <2>1, PlansShrink DEF ApprovePurchase
<1>3. ASSUME NEW p \in Plans, NEW b \in Bundles, CreatePlan(p, b) \/ UpdatePlan(p, b)
      PROVE  PlansInv'
  <2>1. /\ bundleOf' = [bundleOf EXCEPT ![p] = b]
        /\ b \in byHand' \/ b = bundleOf[p]
        /\ byHand \subseteq byHand' /\ byHand' \subseteq Bundles
        /\ UNCHANGED <<purchase, editor, contested>>
    BY <1>3 DEF CreatePlan, UpdatePlan
  <2>2. PlansTypeOK' /\ OrdersHaveTheirPlan'
    BY <2>1
  <2>3. OnePlanPerBundle'
    BY <2>1 DEF OnePlanPerBundle
  <2>4. AddsNew'
    BY <2>1 DEF AddsNew, PlansOf, Editor
  <2> QED
    BY <2>2, <2>3, <2>4
<1>4. ASSUME NEW w \in Workers, NEW p \in Plans, AddPlan(w, p)
      PROVE  PlansInv'
  <2> DEFINE b == editor[w].bundle
  <2>1. /\ bundleOf' = [bundleOf EXCEPT ![p] = b] /\ bundleOf[p] = NoBundle
        /\ editor' = [editor EXCEPT ![w] =
             [editor[w] EXCEPT !.at = "importing", !.bundle = NoBundle]]
        /\ UNCHANGED <<byHand, purchase, contested>>
    BY <1>4 DEF AddPlan, Unused
  <2>2. PlansTypeOK' /\ OrdersHaveTheirPlan'
    <3>1. b \in Bundles \cup {NoBundle} /\ [editor[w] EXCEPT !.at = "importing", !.bundle = NoBundle] \in Editor
      BY DEF Editor
    <3>2. PlansTypeOK'
      BY <2>1, <3>1
    <3>3. \A n \in Purchases : purchase[n].plan # NoPlan => purchase[n].plan # p
      BY <2>1
    <3> QED
      BY <2>1, <3>1, <3>2, <3>3
  <2>3. OnePlanPerBundle'
    BY <2>1 DEF OnePlanPerBundle, AddsNew, PlansOf
  <2>4. AddsNew'
    BY <2>1 DEF AddsNew, PlansOf, Editor
  <2> QED
    BY <2>2, <2>3, <2>4
<1>5. ASSUME NEW w \in Workers, NEW b \in Bundles, NewBundle(w, b)
      PROVE  PlansInv'
  <2>1. /\ PlansOf(b) = {}
        /\ editor' = [editor EXCEPT ![w] =
             [editor[w] EXCEPT !.at = "adding", !.todo = @ \ {b}, !.bundle = b]]
        /\ contested' = IF \E v \in Workers : editor[v].bundle = b
                        THEN contested \cup {b} ELSE contested
        /\ UNCHANGED <<bundleOf, byHand, purchase>>
    BY <1>5 DEF NewBundle, Adding
  <2>2. PlansTypeOK' /\ OrdersHaveTheirPlan'
    <3>1. [editor[w] EXCEPT !.at = "adding", !.todo = @ \ {b}, !.bundle = b] \in Editor
      BY DEF Editor
    <3>2. editor' \in [Workers -> Editor] /\ contested' \in SUBSET Bundles
      BY <2>1, <3>1
    <3> QED
      BY <2>1, <3>2
  <2>3. OnePlanPerBundle'
    BY <2>1 DEF OnePlanPerBundle
  <2>4. AddsNew'
    BY <2>1 DEF AddsNew, PlansOf, Editor
  <2> QED
    BY <2>2, <2>3, <2>4
<1>6. ASSUME NEW w \in Workers, NEW todo \in SUBSET Bundles, ImportCatalogue(w, todo)
      PROVE  PlansInv'
  <2>1. [Out EXCEPT !.at = "importing", !.todo = todo] \in Editor
    BY <1>o DEF Editor
  <2> QED
    BY <1>6, <1>o, <1>e, <2>1 DEF ImportCatalogue, Editor
<1>7. ASSUME NEW w \in Workers, NEW b \in Bundles, SkipBundle(w, b)
      PROVE  PlansInv'
  <2>1. [editor[w] EXCEPT !.todo = @ \ {b}] \in Editor
    BY DEF Editor
  <2> QED
    BY <1>7, <1>e, <2>1 DEF SkipBundle, Editor
<1>8. ASSUME NEW w \in Workers, EndImport(w) \/ DeleteFails(w) \/ BuyFails(w)
      PROVE  PlansInv'
  BY <1>8, <1>o, <1>e DEF EndImport, DeleteFails, BuyFails
<1>9. ASSUME NEW w \in Workers, CommitDelete(w)
      PROVE  PlansInv'
  <2>1. Remove({editor[w].plan}) /\ editor' = [editor EXCEPT ![w] = Out]
    BY <1>9 DEF CommitDelete
  <2>2. PlansTypeOK' /\ OrdersHaveTheirPlan'
    BY <2>1, <1>r, <1>o
  <2>3. \A v \in Workers : editor'[v].bundle \in {editor[v].bundle, NoBundle}
    BY <2>1, <1>o
  <2> QED
    BY <2>1, <2>2, <2>3, <1>r, PlansShrink
<1>10. ASSUME NEW w \in Workers, NEW p \in Plans, DeletePlan(w, p)
       PROVE  PlansInv'
  <2>1. [Out EXCEPT !.at = "deleting", !.plan = p, !.cleared = OrdersOf(p)] \in Editor
    BY <1>o DEF Editor, OrdersOf
  <2> QED
    BY <1>10, <1>o, <1>e, <2>1 DEF DeletePlan, Editor
<1>11. ASSUME NEW w \in Workers, NEW p \in Plans, BuyPlan(w, p)
       PROVE  PlansInv'
  <2>1. [Out EXCEPT !.at = "buying", !.plan = p] \in Editor
    BY <1>o DEF Editor
  <2> QED
    BY <1>11, <1>o, <1>e, <2>1 DEF BuyPlan, Editor
<1>12. ASSUME NEW w \in Workers, NEW n \in Purchases, PlacePurchase(w, n)
       PROVE  PlansInv'
  <2>1. PlansTypeOK' /\ OrdersHaveTheirPlan'
    BY <1>12, <1>o DEF PlacePurchase, Editor
  <2>2. \A v \in Workers : editor'[v].bundle \in {editor[v].bundle, NoBundle}
    BY <1>12, <1>o DEF PlacePurchase
  <2> QED
    BY <1>12, <2>1, <2>2, PlansShrink DEF PlacePurchase
<1> QED
  BY <1>a, <1>1, <1>2, <1>3, <1>4, <1>5, <1>6, <1>7, <1>8, <1>9, <1>10, <1>11, <1>12
  DEF PlansNext

-----------------------------------------------------------------------------
(* All services side by side                                                *)

LEMMA InitiallyCatalogue == Init => IndexInit /\ PlansInit /\ RatesInit
BY DEF Init

LEMMA StepOfCatalogue ==
  [Next]_vars => /\ [IndexNext]_indexVars
                 /\ [PlansNext]_planVars
                 /\ [RatesNext]_rateVars
BY DEF Next, vars, catalogueVars, RequestsNext, TasksNext, CatalogueNext

\* CatalogueKept, for any number of workers, plans and rates.  Whatever overlaps, fails or
\* is interrupted half-way, every order's plan is a row.  The rest is of runs in which the
\* handlers did not meet, for the code does nothing to keep them apart: one builder of the
\* index, unless two were at the lock file together; files that can be read, unless a
\* writing failed or met another; one plan for each bundle, unless two imports were about
\* to add it or an administrator named it; and a rate with its source, unless two changes
\* crossed.
THEOREM CatalogueIsKept == Spec => []CatalogueKept
<1>1. Init => IndexInv /\ PlansInv /\ RatesInv
  BY InitiallyCatalogue, IndexInitially, PlansInitially, RatesInitially
<1>2. (IndexInv /\ PlansInv /\ RatesInv) /\ [Next]_vars => (IndexInv /\ PlansInv /\ RatesInv)'
  BY StepOfCatalogue, IndexKeptBy, PlansKeptBy, RatesKeptBy
<1>3. IndexInv /\ PlansInv /\ RatesInv => CatalogueKept
  BY IndexAssumption DEF IndexInv, PlansInv, RatesInv, CatalogueKept, OneBuild, HoldsLock
<1> QED
  BY <1>1, <1>2, <1>3, PTL DEF Spec
=============================================================================
