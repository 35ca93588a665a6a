--------------------------- MODULE DonationProofs ---------------------------
(***************************************************************************)
(* What overlapping donations keep, for every number of needs, donations   *)
(* and edits: rows are held to the commit and no credit is lost.  At the   *)
(* end, what overlapping decisions on a monetary donation keep.            *)
(***************************************************************************)
EXTENDS NeedCoverage, MonetaryDonation, FiniteSetTheorems, TLAPS

\* The items a donation has validated, and those it has credited.
Validated(d) ==
  IF pc[d] = "validate" THEN 1 .. item[d] - 1
  ELSE IF pc[d] \in {"credit", "commit", "recorded"} THEN DOMAIN items[d] ELSE {}

Updated(d) ==
  IF pc[d] = "credit" THEN 1 .. item[d] - 1
  ELSE IF pc[d] = "commit" THEN DOMAIN items[d] ELSE {}

\* Where a donation is in its list of items.
InItsItems(d) ==
  /\ pc[d] \in {"new", "commit", "recorded", "refused"} => item[d] = 1
  /\ pc[d] \in Working => items[d] # <<>>

\* What was validated, or read on the way, is given to needs that exist.
GivesToNeeds(d) ==
  /\ \A i \in Validated(d) : items[d][i].needId # NoNeed => IsCreated(need[items[d][i].needId])
  /\ \A n \in Needs : IsCreated(seen[d][n]) => IsCreated(need[n])

HoldsUpdated(d) ==
  \A i \in Updated(d) : items[d][i].needId # NoNeed => lock[items[d][i].needId] = d

LocksOfWorkers == \A n \in Needs : lock[n] # NoOne => pc[lock[n]] \in {"credit", "commit"}

\* Nobody makes a need uncreated.
EditsNeed(m) ==
  epc[m] \in {"save", "write"} =>
    target[m] \in Needs /\ IsCreated(copy[m]) /\ IsCreated(need[target[m]])

IInv ==
  /\ TypeOK
  /\ \A d \in Donations : InItsItems(d)
  /\ \A d \in Donations : GivesToNeeds(d)
  /\ \A d \in Donations : HoldsUpdated(d)
  /\ LocksOfWorkers
  /\ \A m \in Editors : EditsNeed(m)
  /\ \A n \in Needs : IsFiniteSet(Units(Recorded, n))

USE NeedAssumption

-----------------------------------------------------------------------------
(* Rows, items and units.                                                  *)

\* A row is its five columns.
LEMMA NeedFields ==
  ASSUME NEW r \in Need
  PROVE  /\ r.supplyId \in Supplies
         /\ r.requiredQuantity \in Required \cup {0} /\ r.requiredQuantity \in Nat
         /\ r.requiredQuantity <= MaxQuantity
         /\ r.coveredQuantity \in 0 .. MaxQuantity /\ r.coveredQuantity \in Nat
         /\ r.deadline \in 1 .. LastDay
         /\ r.closedManually \in BOOLEAN
         /\ DOMAIN r = {"supplyId", "requiredQuantity", "coveredQuantity", "deadline",
                        "closedManually"}
<1>1. /\ r.supplyId \in Supplies /\ r.requiredQuantity \in Required \cup {0}
      /\ r.coveredQuantity \in 0 .. MaxQuantity /\ r.deadline \in 1 .. LastDay
      /\ r.closedManually \in BOOLEAN
  BY DEF Need
<1>2. DOMAIN r = {"supplyId", "requiredQuantity", "coveredQuantity", "deadline",
                  "closedManually"}
  BY DEF Need
<1>3. \A q \in Required \cup {0} : q \in Nat /\ q <= MaxQuantity
  OBVIOUS
<1>4. r.requiredQuantity \in Nat /\ r.requiredQuantity <= MaxQuantity
  BY <1>1, <1>3
<1>5. r.coveredQuantity \in Nat
  BY <1>1
<1> QED
  BY <1>1, <1>2, <1>4, <1>5, Zenon

\* The row that stands for none is one, and is not created.
LEMMA UncreatedIsNeed ==
  /\ Uncreated \in Need /\ ~IsCreated(Uncreated)
  /\ Uncreated.coveredQuantity = 0 /\ Uncreated.requiredQuantity = 0
<1>1. (CHOOSE s \in Supplies : TRUE) \in Supplies
  OBVIOUS
<1>2. 0 \in 0 .. MaxQuantity /\ 1 \in 1 .. LastDay
  OBVIOUS
<1> QED
  BY <1>1, <1>2 DEF Uncreated, Need, IsCreated

\* What a need requires once it is created.
LEMMA RequiredIsPositive == \A q \in Required : q \in Nat /\ q > 0
OBVIOUS

\* What the handlers change in a row leaves it a row, created if it was.
LEMMA Edited ==
  ASSUME NEW r \in Need, NEW s \in Supplies, NEW q \in Required, NEW d \in 1 .. LastDay
  PROVE  LET e == [r EXCEPT !.supplyId = s, !.requiredQuantity = q, !.deadline = d] IN
           e \in Need /\ IsCreated(e) /\ e.coveredQuantity = r.coveredQuantity
BY RequiredIsPositive DEF Need, IsCreated

LEMMA Progressed ==
  ASSUME NEW r \in Need, NEW q \in 0 .. MaxQuantity
  PROVE  LET e == [r EXCEPT !.coveredQuantity = q] IN
           /\ e \in Need /\ IsCreated(e) = IsCreated(r)
           /\ e.coveredQuantity = q /\ e.requiredQuantity = r.requiredQuantity
BY DEF Need, IsCreated

LEMMA ClosedByHand ==
  ASSUME NEW r \in Need
  PROVE  LET e == [r EXCEPT !.closedManually = TRUE] IN
           e \in Need /\ IsCreated(e) = IsCreated(r)
BY DEF Need, IsCreated

\* A save writes a row, which is created if both were, and whose quantities are
\* those of the row unless they are among its columns.
LEMMA WrittenNeed ==
  ASSUME NEW r \in Need, NEW c \in Need, NEW cs
  PROVE  /\ Written(r, c, cs) \in Need
         /\ IsCreated(r) /\ IsCreated(c) => IsCreated(Written(r, c, cs))
         /\ cs \cap {"requiredQuantity", "coveredQuantity"} = {} =>
              /\ Written(r, c, cs).requiredQuantity = r.requiredQuantity
              /\ Written(r, c, cs).coveredQuantity = r.coveredQuantity
<1> DEFINE w == Written(r, c, cs)
<1>1. /\ w = [supplyId |-> w.supplyId, requiredQuantity |-> w.requiredQuantity,
              coveredQuantity |-> w.coveredQuantity, deadline |-> w.deadline,
              closedManually |-> w.closedManually]
      /\ \A f \in DOMAIN r : w[f] = IF f \in cs THEN c[f] ELSE r[f]
  BY NeedFields DEF Written, Need
<1>2. /\ w.supplyId \in {r.supplyId, c.supplyId}
      /\ w.requiredQuantity \in {r.requiredQuantity, c.requiredQuantity}
      /\ w.coveredQuantity \in {r.coveredQuantity, c.coveredQuantity}
      /\ w.deadline \in {r.deadline, c.deadline}
      /\ w.closedManually \in {r.closedManually, c.closedManually}
  BY <1>1, NeedFields
<1>3. w \in Need
  BY <1>1, <1>2, NeedFields DEF Need
<1> QED
  BY <1>1, <1>2, <1>3, NeedFields DEF IsCreated

\* The list of items of a donation.
LEMMA ItemsOf ==
  ASSUME TypeOK, NEW d \in Donations
  PROVE  /\ items[d] \in Seq(Item)
         /\ Len(items[d]) \in Nat /\ DOMAIN items[d] = 1 .. Len(items[d])
         /\ items[d] # <<>> => Len(items[d]) > 0
         /\ \A i \in DOMAIN items[d] :
              /\ items[d][i].needId \in Needs \cup {NoNeed}
              /\ items[d][i].quantity \in 1 .. MaxQuantity
<1>1. items[d] \in Seq(Item)
  <2>1. items[d] \in Baskets \cup {<<>>}
    BY DEF TypeOK
  <2>2. \A b \in Baskets : b \in Seq(Item)
    OBVIOUS
  <2>3. <<>> \in Seq(Item)
    OBVIOUS
  <2> QED
    BY <2>1, <2>2, <2>3
<1>2. /\ Len(items[d]) \in Nat /\ DOMAIN items[d] = 1 .. Len(items[d])
      /\ items[d] # <<>> => Len(items[d]) > 0
      /\ \A i \in DOMAIN items[d] : items[d][i] \in Item
  BY <1>1
<1> QED
  BY <1>1, <1>2 DEF Item

\* The units a donation brings are finitely many, and so many that are its own.
LEMMA UnitsFinite ==
  ASSUME TypeOK, NEW d \in Donations, NEW n
  PROVE  IsFiniteSet(Units({d}, n)) /\ Units({d}, n) = {d} \X UnitsOf(d, n)
<1>1. IsFiniteSet((1 .. Len(items[d])) \X (1 .. MaxQuantity))
  <2>1. Len(items[d]) \in Int /\ MaxQuantity \in Int /\ 1 \in Int
    BY ItemsOf
  <2>2. IsFiniteSet(1 .. Len(items[d])) /\ IsFiniteSet(1 .. MaxQuantity)
    BY <2>1, FS_Interval
  <2> QED
    BY <2>2, FS_Product
<1>2. IsFiniteSet(UnitsOf(d, n))
  BY <1>1, FS_Subset DEF UnitsOf
<1>3. IsFiniteSet({d} \X UnitsOf(d, n))
  BY <1>2, FS_Singleton, FS_Product
<1>4. Units({d}, n) = {d} \X UnitsOf(d, n)
  BY DEF Units
<1> QED
  BY <1>3, <1>4

\* One donation more brings its units and no others.
LEMMA BroughtAdds ==
  ASSUME TypeOK, NEW D \in SUBSET Donations, NEW d \in Donations, d \notin D, NEW n,
         IsFiniteSet(Units(D, n))
  PROVE  /\ IsFiniteSet(Units(D \cup {d}, n))
         /\ Brought(D \cup {d}, n) = Brought(D, n) + Brought({d}, n)
         /\ Brought(D, n) \in Nat /\ Brought({d}, n) \in Nat
<1>1. IsFiniteSet(Units({d}, n))
  BY UnitsFinite
<1>2. Units(D \cup {d}, n) = Units(D, n) \cup Units({d}, n)
  BY DEF Units
<1>3. Units(D, n) \cap Units({d}, n) = {}
  BY DEF Units
<1>4. /\ IsFiniteSet(Units(D, n) \cup Units({d}, n))
      /\ Cardinality(Units(D, n) \cup Units({d}, n)) =
           Cardinality(Units(D, n)) + Cardinality(Units({d}, n))
             - Cardinality(Units(D, n) \cap Units({d}, n))
  BY <1>1, FS_Union
<1>5. /\ Cardinality(Units(D, n)) \in Nat /\ Cardinality(Units({d}, n)) \in Nat
      /\ Cardinality(Units(D, n) \cap Units({d}, n)) = 0
  BY <1>1, <1>3, FS_CardinalityType, FS_EmptySet
<1>6. Brought(D \cup {d}, n) = Brought(D, n) + Brought({d}, n)
  <2>1. Cardinality(Units(D \cup {d}, n)) =
          Cardinality(Units(D, n)) + Cardinality(Units({d}, n))
            - Cardinality(Units(D, n) \cap Units({d}, n))
    BY <1>2, <1>4, Zenon
  <2>2. Cardinality(Units(D \cup {d}, n)) = Cardinality(Units(D, n)) + Cardinality(Units({d}, n))
    BY <2>1, <1>5
  <2> QED
    BY <2>2, Zenon DEF Brought
<1>7. IsFiniteSet(Units(D \cup {d}, n))
  BY <1>2, <1>4
<1>8. Brought(D, n) \in Nat /\ Brought({d}, n) \in Nat
  BY <1>5 DEF Brought
<1> QED
  BY <1>6, <1>7, <1>8

\* A donation brings nothing to a need that none of its items is given to.
LEMMA BringsNone ==
  ASSUME TypeOK, NEW d \in Donations, NEW n,
         \A i \in DOMAIN items[d] : items[d][i].needId # n
  PROVE  UnitsOf(d, n) = {} /\ Units({d}, n) = {} /\ Brought({d}, n) = 0
<1>1. UnitsOf(d, n) = {}
  BY ItemsOf DEF UnitsOf
<1>2. Units({d}, n) = {}
  BY <1>1, UnitsFinite
<1> QED
  BY <1>1, <1>2, FS_EmptySet DEF Brought

\* What was brought depends on the items of those who brought it.
LEMMA UnitsSame ==
  ASSUME Recorded' = Recorded, \A d \in Recorded : items'[d] = items[d], NEW n
  PROVE  /\ Units(Recorded, n)' = Units(Recorded, n)
         /\ Brought(Recorded, n)' = Brought(Recorded, n)
<1>1. \A d \in Recorded : UnitsOf(d, n)' = UnitsOf(d, n)
  BY DEF UnitsOf
<1>2. Units(Recorded, n)' = Units(Recorded, n)
  BY <1>1 DEF Units
<1> QED
  BY <1>2 DEF Brought

-----------------------------------------------------------------------------
(* The invariant, by what a step leaves alone.                             *)

\* What was validated or credited is items of the donation.
LEMMA DoneAreItems ==
  ASSUME TypeOK, NEW d \in Donations
  PROVE  Validated(d) \subseteq DOMAIN items[d] /\ Updated(d) \subseteq DOMAIN items[d]
<1>1. pc[d] \in {"validate", "credit"} => item[d] \in DOMAIN items[d] /\ item[d] \in Nat
  BY DEF TypeOK
<1>2. Len(items[d]) \in Nat /\ DOMAIN items[d] = 1 .. Len(items[d])
  BY ItemsOf
<1>3. pc[d] \in {"validate", "credit"} => 1 .. item[d] - 1 \subseteq DOMAIN items[d]
  BY <1>1, <1>2
<1> QED
  BY <1>3 DEF Validated, Updated

\* No step makes a need uncreated.
NeedsStay == \A n \in Needs : IsCreated(need[n]) => IsCreated(need[n])'

\* What is left of the invariant when the donations do nothing.
LEMMA DonationsIdle ==
  ASSUME IInv, UNCHANGED <<lock, donationVars>>, NeedsStay
  PROVE  /\ \A d \in Donations : InItsItems(d)' /\ GivesToNeeds(d)' /\ HoldsUpdated(d)'
         /\ LocksOfWorkers'
         /\ \A n \in Needs : IsFiniteSet(Units(Recorded, n))'
<1>1. UNCHANGED <<lock, pc, items, item, seen>>
  BY DEF donationVars
<1>2. \A d \in Donations : InItsItems(d)' /\ HoldsUpdated(d)'
  BY <1>1 DEF IInv, InItsItems, HoldsUpdated, Updated
<1>3. \A d \in Donations : GivesToNeeds(d)'
  <2> SUFFICES ASSUME NEW d \in Donations
               PROVE  GivesToNeeds(d)'
    OBVIOUS
  <2>1. Validated(d)' = Validated(d)
    BY <1>1 DEF Validated
  <2>2. GivesToNeeds(d) /\ Validated(d) \subseteq DOMAIN items[d]
    BY DoneAreItems DEF IInv
  <2> QED
    BY <1>1, <2>1, <2>2, ItemsOf DEF GivesToNeeds, NeedsStay, IInv
<1>4. LocksOfWorkers'
  BY <1>1 DEF IInv, LocksOfWorkers
<1>5. \A n \in Needs : IsFiniteSet(Units(Recorded, n))'
  BY <1>1, UnitsSame DEF IInv, Recorded
<1> QED
  BY <1>2, <1>3, <1>4, <1>5

\* What is left of it when the edits do nothing.
LEMMA EditsIdle ==
  ASSUME IInv, UNCHANGED editVars, NeedsStay
  PROVE  \A m \in Editors : EditsNeed(m)'
BY DEF IInv, EditsNeed, editVars, NeedsStay

\* What is left of it to the donations that are not at work in a step.
LEMMA OthersIdle ==
  ASSUME IInv, NEW d \in Donations, NeedsStay,
         NEW e \in Donations \ {d},
         pc'[e] = pc[e], items'[e] = items[e], item'[e] = item[e], seen'[e] = seen[e],
         \A n \in Needs : lock[n] = e => lock'[n] = e
  PROVE  InItsItems(e)' /\ GivesToNeeds(e)' /\ HoldsUpdated(e)'
<1>1. Validated(e)' = Validated(e) /\ Updated(e)' = Updated(e)
  BY DEF Validated, Updated
<1>2. TypeOK /\ InItsItems(e) /\ GivesToNeeds(e) /\ HoldsUpdated(e)
  BY DEF IInv
<1>3. Validated(e) \subseteq DOMAIN items[e] /\ Updated(e) \subseteq DOMAIN items[e]
  BY <1>2, DoneAreItems
<1>4. InItsItems(e)'
  BY <1>2 DEF InItsItems
<1>5. GivesToNeeds(e)'
  BY <1>1, <1>2, <1>3, ItemsOf DEF GivesToNeeds, NeedsStay
<1>6. HoldsUpdated(e)'
  BY <1>1, <1>2, <1>3, ItemsOf DEF HoldsUpdated
<1> QED
  BY <1>4, <1>5, <1>6

-----------------------------------------------------------------------------
(* The invariant, step by step.                                            *)

LEMMA InitIInv == Init => IInv
<1> SUFFICES ASSUME Init
             PROVE  IInv
  OBVIOUS
<1>1. TypeOK
  BY UncreatedIsNeed DEF Init, TypeOK, Working
<1>2. \A d \in Donations : InItsItems(d) /\ HoldsUpdated(d)
  BY DEF Init, InItsItems, HoldsUpdated, Updated, Working
<1>3. \A d \in Donations : GivesToNeeds(d)
  BY UncreatedIsNeed DEF Init, GivesToNeeds, Validated
<1>4. LocksOfWorkers /\ \A m \in Editors : EditsNeed(m)
  BY DEF Init, LocksOfWorkers, EditsNeed
<1>5. \A n \in Needs : IsFiniteSet(Units(Recorded, n))
  <2>1. Recorded = {}
    BY DEF Init, Recorded
  <2>2. \A n \in Needs : Units(Recorded, n) = {}
    BY <2>1 DEF Units
  <2> QED
    BY <2>2, FS_EmptySet
<1> QED
  BY <1>1, <1>2, <1>3, <1>4, <1>5 DEF IInv

LEMMA NextDayKeeps == IInv /\ NextDay => IInv'
<1> SUFFICES ASSUME IInv, NextDay
             PROVE  IInv'
  OBVIOUS
<1>1. UNCHANGED <<need, lock, donationVars, editVars>>
  BY DEF NextDay
<1>2. TypeOK'
  BY <1>1 DEF IInv, TypeOK, NextDay, donationVars, editVars
<1>3. NeedsStay
  BY <1>1 DEF NeedsStay
<1> QED
  BY <1>1, <1>2, <1>3, DonationsIdle, EditsIdle DEF IInv

LEMMA CreateNeedKeeps == ASSUME NEW n \in Needs PROVE IInv /\ CreateNeed(n) => IInv'
<1> SUFFICES ASSUME IInv, CreateNeed(n)
             PROVE  IInv'
  OBVIOUS
<1>1. UNCHANGED <<today, lock, donationVars, editVars>>
  BY DEF CreateNeed
<1>2. PICK r \in Need : IsCreated(r) /\ need' = [need EXCEPT ![n] = r]
  <2>1. PICK s \in Supplies, q \in Required, d \in today .. LastDay :
          need' = [need EXCEPT ![n] = [Uncreated EXCEPT !.supplyId = s,
                                        !.requiredQuantity = q, !.deadline = d]]
    BY DEF CreateNeed
  <2>2. d \in 1 .. LastDay
    BY DEF IInv, TypeOK
  <2> QED
    BY <2>1, <2>2, UncreatedIsNeed, Edited
<1>3. need \in [Needs -> Need]
  BY DEF IInv, TypeOK
<1>4. TypeOK'
  BY <1>1, <1>2, <1>3 DEF IInv, TypeOK, donationVars, editVars
<1>5. NeedsStay
  BY <1>2, <1>3 DEF NeedsStay
<1> QED
  BY <1>1, <1>4, <1>5, DonationsIdle, EditsIdle DEF IInv

\* An edit of a need begins with a copy of it that is created too.
LEMMA BeginEditKeeps ==
  ASSUME NEW m \in Editors, NEW n \in Needs, NEW op, NEW open,
         NEW edited \in Need, IsCreated(edited)
  PROVE  IInv /\ BeginEdit(m, n, op, open, edited) => IInv'
<1> SUFFICES ASSUME IInv, BeginEdit(m, n, op, open, edited)
             PROVE  IInv'
  OBVIOUS
<1>1. /\ UNCHANGED <<need, today, lock, donationVars, cols>>
      /\ epc[m] = "new" /\ IsCreated(need[n])
      /\ epc' = [epc EXCEPT ![m] = "save"]
      /\ target' = [target EXCEPT ![m] = n]
      /\ copy' = [copy EXCEPT ![m] = edited]
  BY DEF BeginEdit
<1>2. TypeOK'
  BY <1>1 DEF IInv, TypeOK, donationVars
<1>3. NeedsStay
  BY <1>1 DEF NeedsStay
<1>4. \A q \in Editors : EditsNeed(q)'
  BY <1>1 DEF IInv, EditsNeed, TypeOK
<1> QED
  BY <1>1, <1>2, <1>3, <1>4, DonationsIdle DEF IInv

LEMMA BeginsKeep ==
  ASSUME NEW m \in Editors, NEW n \in Needs
  PROVE  IInv /\ (Update(m, n) \/ UpdateProgress(m, n) \/ Close(m, n)) => IInv'
<1> SUFFICES ASSUME IInv, Update(m, n) \/ UpdateProgress(m, n) \/ Close(m, n)
             PROVE  IInv'
  OBVIOUS
<1>1. need[n] \in Need
  BY DEF IInv, TypeOK
<1>2. CASE Update(m, n)
  <2>1. PICK s \in Supplies, q \in Required, d \in 1 .. LastDay :
          BeginEdit(m, n, "update", ~IsSettled(need[n]),
                    [need[n] EXCEPT !.supplyId = s, !.requiredQuantity = q, !.deadline = d])
    BY <1>2 DEF Update
  <2>2. PICK e \in Need : /\ IsCreated(e)
                          /\ BeginEdit(m, n, "update", ~IsSettled(need[n]), e)
    BY <1>1, <2>1, Edited
  <2> QED
    BY <2>2, BeginEditKeeps
<1>3. CASE UpdateProgress(m, n)
  <2>1. PICK q \in 0 .. MaxQuantity :
          BeginEdit(m, n, "updateProgress", ~IsNeedClosed(need[n]),
                    [need[n] EXCEPT !.coveredQuantity = q])
    BY <1>3 DEF UpdateProgress
  <2>2. IsCreated(need[n])
    BY <2>1 DEF BeginEdit
  <2>3. PICK e \in Need : /\ IsCreated(e)
                          /\ BeginEdit(m, n, "updateProgress", ~IsNeedClosed(need[n]), e)
    BY <1>1, <2>1, <2>2, Progressed
  <2> QED
    BY <2>3, BeginEditKeeps
<1>4. CASE Close(m, n)
  <2>1. IsCreated(need[n])
    BY <1>4 DEF Close, BeginEdit
  <2>2. PICK e \in Need : /\ IsCreated(e)
                          /\ BeginEdit(m, n, "close", ~IsNeedClosed(need[n]), e)
    BY <1>1, <1>4, <2>1, ClosedByHand DEF Close
  <2> QED
    BY <2>2, BeginEditKeeps
<1> QED
  BY <1>2, <1>3, <1>4

LEMMA EditSaveKeeps == ASSUME NEW m \in Editors PROVE IInv /\ EditSave(m) => IInv'
<1> SUFFICES ASSUME IInv, EditSave(m)
             PROVE  IInv'
  OBVIOUS
<1>1. /\ UNCHANGED <<need, today, lock, donationVars, target, copy>>
      /\ epc[m] = "save" /\ epc' = [epc EXCEPT ![m] = "write"]
      /\ cols' = [cols EXCEPT ![m] = Dirty(copy[m], need[target[m]])]
  BY DEF EditSave
<1>2. need[target[m]] \in Need
  BY <1>1 DEF IInv, EditsNeed, TypeOK
<1>3. Dirty(copy[m], need[target[m]]) \subseteq DOMAIN Uncreated
  BY <1>2, NeedFields, UncreatedIsNeed DEF Dirty
<1>4. TypeOK'
  BY <1>1, <1>3 DEF IInv, TypeOK, donationVars
<1>5. NeedsStay
  BY <1>1 DEF NeedsStay
<1>6. \A q \in Editors : EditsNeed(q)'
  BY <1>1 DEF IInv, EditsNeed, TypeOK
<1> QED
  BY <1>1, <1>4, <1>5, <1>6, DonationsIdle DEF IInv

\* The end of an edit, with what it did to the needs.
LEMMA EndEditKeeps ==
  ASSUME NEW m \in Editors, IInv, EndEdit(m), need' \in [Needs -> Need], NeedsStay
  PROVE  IInv'
<1>1. /\ epc' = [epc EXCEPT ![m] = "done"]
      /\ target' = [target EXCEPT ![m] = NoNeed]
      /\ copy' = [copy EXCEPT ![m] = Uncreated]
      /\ cols' = [cols EXCEPT ![m] = {}]
      /\ UNCHANGED <<today, lock, donationVars>>
  BY DEF EndEdit
<1>2. TypeOK'
  BY <1>1, UncreatedIsNeed DEF IInv, TypeOK, donationVars
<1>3. \A q \in Editors : EditsNeed(q)'
  BY <1>1 DEF IInv, EditsNeed, TypeOK, NeedsStay
<1> QED
  BY <1>1, <1>2, <1>3, DonationsIdle DEF IInv

LEMMA EditWriteKeeps == ASSUME NEW m \in Editors PROVE IInv /\ EditWrite(m) => IInv'
<1> SUFFICES ASSUME IInv, EditWrite(m)
             PROVE  IInv'
  OBVIOUS
<1>1. /\ epc[m] = "write" /\ EndEdit(m)
      /\ need' = [need EXCEPT ![target[m]] = Written(need[target[m]], copy[m], cols[m])]
  BY DEF EditWrite
<1>2. /\ need \in [Needs -> Need] /\ target[m] \in Needs /\ copy[m] \in Need
      /\ IsCreated(copy[m]) /\ IsCreated(need[target[m]])
  BY <1>1 DEF IInv, TypeOK, EditsNeed
<1>3. PICK r \in Need : IsCreated(r) /\ r = Written(need[target[m]], copy[m], cols[m])
  BY <1>2, WrittenNeed
<1>4. need' \in [Needs -> Need] /\ NeedsStay
  BY <1>1, <1>2, <1>3 DEF NeedsStay
<1> QED
  BY <1>1, <1>4, EndEditKeeps

LEMMA FailEditKeeps == ASSUME NEW m \in Editors PROVE IInv /\ FailEdit(m) => IInv'
<1> SUFFICES ASSUME IInv, FailEdit(m)
             PROVE  IInv'
  OBVIOUS
<1>1. EndEdit(m) /\ UNCHANGED need
  BY DEF FailEdit
<1>2. need' \in [Needs -> Need] /\ NeedsStay
  BY <1>1 DEF IInv, TypeOK, NeedsStay
<1> QED
  BY <1>1, <1>2, EndEditKeeps

\* The end of a donation lets its rows go and leaves the others'.
LEMMA Unlocked ==
  ASSUME IInv, NEW d \in Donations, Unlock(d), pc' \in [Donations -> {"new", "recorded", "refused"} \cup Working],
         \A e \in Donations \ {d} : pc'[e] = pc[e]
  PROVE  /\ lock' \in [Needs -> Donations \cup {NoOne}]
         /\ \A e \in Donations \ {d}, n \in Needs : lock[n] = e => lock'[n] = e
         /\ LocksOfWorkers'
<1>1. lock' = [n \in Needs |-> IF lock[n] = d THEN NoOne ELSE lock[n]]
  BY DEF Unlock
<1>2. lock \in [Needs -> Donations \cup {NoOne}] /\ LocksOfWorkers
  BY DEF IInv, TypeOK
<1>3. \A n \in Needs : lock'[n] # NoOne => lock'[n] = lock[n] /\ lock[n] \in Donations \ {d}
  BY <1>1, <1>2
<1>4. LocksOfWorkers'
  BY <1>2, <1>3 DEF LocksOfWorkers
<1> QED
  BY <1>1, <1>2, <1>4

LEMMA RollbackKeeps ==
  ASSUME NEW d \in Donations, IInv, pc[d] \in Working, Rollback(d)
  PROVE  IInv'
<1>1. /\ pc' = [pc EXCEPT ![d] = "refused"]
      /\ item' = [item EXCEPT ![d] = 1]
      /\ seen' = [seen EXCEPT ![d] = [n \in Needs |-> Uncreated]]
      /\ UNCHANGED <<need, today, items, editVars>>
      /\ Unlock(d)
  BY DEF Rollback, Forget
<1>2. /\ TypeOK /\ pc \in [Donations -> {"new", "recorded", "refused"} \cup Working]
      /\ item \in [Donations -> Nat \ {0}] /\ seen \in [Donations -> [Needs -> Need]]
  BY DEF IInv, TypeOK
<1>3. /\ pc' \in [Donations -> {"new", "recorded", "refused"} \cup Working]
      /\ pc'[d] = "refused" /\ item'[d] = 1
      /\ \A e \in Donations \ {d} : pc'[e] = pc[e] /\ item'[e] = item[e] /\ seen'[e] = seen[e]
  BY <1>1, <1>2
<1>4. /\ lock' \in [Needs -> Donations \cup {NoOne}]
      /\ \A e \in Donations \ {d}, n \in Needs : lock[n] = e => lock'[n] = e
      /\ LocksOfWorkers'
  BY <1>1, <1>3, Unlocked
<1>5. TypeOK'
  <2>1. seen' \in [Donations -> [Needs -> Need]]
    BY <1>1, <1>2, UncreatedIsNeed
  <2>2. item' \in [Donations -> Nat \ {0}]
    BY <1>1, <1>2
  <2>3. \A e \in Donations : pc'[e] \in {"validate", "credit"} => item'[e] \in DOMAIN items'[e]
    BY <1>1, <1>2, <1>3 DEF TypeOK
  <2> QED
    BY <1>1, <1>2, <1>3, <1>4, <2>1, <2>2, <2>3 DEF TypeOK, editVars
<1>6. NeedsStay
  BY <1>1 DEF NeedsStay
<1>7. \A e \in Donations : InItsItems(e)' /\ GivesToNeeds(e)' /\ HoldsUpdated(e)'
  <2>1. \A e \in Donations \ {d} : InItsItems(e)' /\ GivesToNeeds(e)' /\ HoldsUpdated(e)'
    BY <1>1, <1>3, <1>4, <1>6, OthersIdle
  <2>2. InItsItems(d)' /\ HoldsUpdated(d)'
    BY <1>3 DEF InItsItems, HoldsUpdated, Updated, Working
  <2>3. seen'[d] = [n \in Needs |-> Uncreated]
    BY <1>1, <1>2
  <2>4. GivesToNeeds(d)'
    BY <1>3, <2>3, UncreatedIsNeed DEF GivesToNeeds, Validated
  <2> QED
    BY <2>1, <2>2, <2>4
<1>8. \A n \in Needs : IsFiniteSet(Units(Recorded, n))'
  <2>1. Recorded' = Recorded
    BY <1>1, <1>2, <1>3 DEF Recorded, Working
  <2> QED
    BY <1>1, <2>1, UnitsSame DEF IInv
<1>9. \A m \in Editors : EditsNeed(m)'
  BY <1>1, <1>6, EditsIdle
<1> QED
  BY <1>4, <1>5, <1>7, <1>8, <1>9 DEF IInv

LEMMA BeginDonationKeeps ==
  ASSUME NEW d \in Donations PROVE IInv /\ BeginDonation(d) => IInv'
<1> SUFFICES ASSUME IInv, BeginDonation(d)
             PROVE  IInv'
  OBVIOUS
<1>1. PICK b \in Baskets : items' = [items EXCEPT ![d] = b]
  BY DEF BeginDonation
<1>2. /\ pc[d] = "new" /\ pc' = [pc EXCEPT ![d] = "validate"]
      /\ UNCHANGED <<need, today, lock, item, seen, editVars>>
  BY DEF BeginDonation
<1>3. /\ TypeOK /\ pc \in [Donations -> {"new", "recorded", "refused"} \cup Working]
      /\ items \in [Donations -> Baskets \cup {<<>>}]
      /\ InItsItems(d) /\ GivesToNeeds(d)
  BY DEF IInv, TypeOK
<1>4. /\ pc'[d] = "validate" /\ items'[d] = b /\ item'[d] = 1
      /\ \A e \in Donations \ {d} : pc'[e] = pc[e] /\ items'[e] = items[e]
  BY <1>1, <1>2, <1>3 DEF InItsItems
<1>5. b # <<>> /\ 1 \in DOMAIN b
  <2>1. b \in Seq(Item) /\ b # <<>>
    OBVIOUS
  <2> QED
    BY <2>1
<1>6. TypeOK'
  <2>1. pc' \in [Donations -> {"new", "recorded", "refused"} \cup Working]
    BY <1>2, <1>3 DEF Working
  <2>2. items' \in [Donations -> Baskets \cup {<<>>}]
    BY <1>1, <1>3
  <2>3. \A e \in Donations : pc'[e] \in {"validate", "credit"} => item'[e] \in DOMAIN items'[e]
    BY <1>2, <1>3, <1>4, <1>5 DEF TypeOK
  <2> QED
    BY <1>2, <1>3, <2>1, <2>2, <2>3 DEF TypeOK, editVars
<1>7. NeedsStay
  BY <1>2 DEF NeedsStay
<1>8. \A e \in Donations : InItsItems(e)' /\ GivesToNeeds(e)' /\ HoldsUpdated(e)'
  <2>1. \A e \in Donations \ {d} : InItsItems(e)' /\ GivesToNeeds(e)' /\ HoldsUpdated(e)'
    BY <1>2, <1>4, <1>7, OthersIdle
  <2>2. InItsItems(d)' /\ HoldsUpdated(d)'
    BY <1>4, <1>5 DEF InItsItems, HoldsUpdated, Updated, Working
  <2>3. Validated(d)' = {}
    BY <1>4 DEF Validated
  <2>4. GivesToNeeds(d)'
    BY <1>2, <1>3, <2>3 DEF GivesToNeeds
  <2> QED
    BY <2>1, <2>2, <2>4
<1>9. LocksOfWorkers'
  BY <1>2, <1>3, <1>4 DEF IInv, LocksOfWorkers, TypeOK
<1>10. \A n \in Needs : IsFiniteSet(Units(Recorded, n))'
  <2>1. Recorded' = Recorded /\ \A e \in Recorded : items'[e] = items[e]
    BY <1>2, <1>3, <1>4 DEF Recorded
  <2> QED
    BY <2>1, UnitsSame DEF IInv
<1>11. \A m \in Editors : EditsNeed(m)'
  BY <1>2, <1>7, EditsIdle
<1> QED
  BY <1>6, <1>8, <1>9, <1>10, <1>11 DEF IInv

\* A donation goes to its next item, or to the first one of its next phase.
LEMMA ToNextItem ==
  ASSUME IInv, NEW d \in Donations, pc[d] \in {"validate", "credit"},
         NEW phase \in {"credit", "commit"}, NextItem(d, phase)
  PROVE  /\ pc' \in [Donations -> {"new", "recorded", "refused"} \cup Working]
         /\ item' \in [Donations -> Nat \ {0}]
         /\ \A e \in Donations \ {d} : pc'[e] = pc[e] /\ item'[e] = item[e]
         /\ item'[d] \in DOMAIN items[d]
         /\ \/ pc'[d] = pc[d] /\ item'[d] = item[d] + 1
            \/ pc'[d] = phase /\ item'[d] = 1 /\ item[d] = Len(items[d])
<1>1. /\ pc \in [Donations -> {"new", "recorded", "refused"} \cup Working]
      /\ item \in [Donations -> Nat \ {0}]
      /\ item[d] \in DOMAIN items[d]
  BY DEF IInv, TypeOK
<1>2. Len(items[d]) \in Nat /\ DOMAIN items[d] = 1 .. Len(items[d])
  BY ItemsOf DEF IInv
<1>3. item[d] \in Nat /\ item[d] >= 1 /\ item[d] <= Len(items[d])
  BY <1>1, <1>2
<1>4. CASE item[d] < Len(items[d])
  <2>1. item' = [item EXCEPT ![d] = item[d] + 1] /\ pc' = pc
    BY <1>4 DEF NextItem
  <2>2. item[d] + 1 \in Nat \ {0} /\ item[d] + 1 \in 1 .. Len(items[d])
    BY <1>2, <1>3, <1>4
  <2> QED
    BY <1>1, <1>2, <2>1, <2>2
<1>5. CASE ~(item[d] < Len(items[d]))
  <2>1. item' = [item EXCEPT ![d] = 1] /\ pc' = [pc EXCEPT ![d] = phase]
    BY <1>5 DEF NextItem
  <2>2. item[d] = Len(items[d]) /\ 1 \in 1 .. Len(items[d])
    BY <1>2, <1>3, <1>5
  <2>3. phase \in Working
    BY DEF Working
  <2> QED
    BY <1>1, <1>2, <2>1, <2>2, <2>3
<1> QED
  BY <1>4, <1>5

LEMMA ValidateKeeps == ASSUME NEW d \in Donations PROVE IInv /\ Validate(d) => IInv'
<1> SUFFICES ASSUME IInv, Validate(d)
             PROVE  IInv'
  OBVIOUS
<1>1. /\ pc[d] = "validate" /\ Fits(d) /\ NextItem(d, "credit")
      /\ seen' = [seen EXCEPT ![d] = [n \in Needs |->
                    IF n = Current(d).needId THEN RowOf(d, n) ELSE seen[d][n]]]
      /\ UNCHANGED <<need, today, lock, items, editVars>>
  BY DEF Validate
<1>2. /\ TypeOK /\ need \in [Needs -> Need] /\ seen \in [Donations -> [Needs -> Need]]
      /\ InItsItems(d) /\ GivesToNeeds(d)
  BY DEF IInv, TypeOK
<1>3. /\ pc' \in [Donations -> {"new", "recorded", "refused"} \cup Working]
      /\ item' \in [Donations -> Nat \ {0}]
      /\ \A e \in Donations \ {d} : pc'[e] = pc[e] /\ item'[e] = item[e]
      /\ item'[d] \in DOMAIN items[d]
      /\ \/ pc'[d] = "validate" /\ item'[d] = item[d] + 1
         \/ pc'[d] = "credit" /\ item'[d] = 1 /\ item[d] = Len(items[d])
  BY <1>1, ToNextItem
<1>4. /\ \A e \in Donations \ {d} : seen'[e] = seen[e]
      /\ \A n \in Needs : seen'[d][n] \in {seen[d][n], need[n]}
      /\ seen' \in [Donations -> [Needs -> Need]]
  <2>1. \A n \in Needs : RowOf(d, n) \in {seen[d][n], need[n]}
    BY DEF RowOf
  <2> QED
    BY <1>1, <1>2, <2>1
<1>5. TypeOK'
  <2>1. \A e \in Donations : pc'[e] \in {"validate", "credit"} => item'[e] \in DOMAIN items'[e]
    BY <1>1, <1>2, <1>3 DEF TypeOK
  <2> QED
    BY <1>1, <1>2, <1>3, <1>4, <2>1 DEF TypeOK, editVars
<1>6. NeedsStay
  BY <1>1 DEF NeedsStay
<1>7. \A e \in Donations : InItsItems(e)' /\ GivesToNeeds(e)' /\ HoldsUpdated(e)'
  <2>1. \A e \in Donations \ {d} : InItsItems(e)' /\ GivesToNeeds(e)' /\ HoldsUpdated(e)'
    BY <1>1, <1>3, <1>4, <1>6, OthersIdle
  <2>2. InItsItems(d)'
    BY <1>1, <1>2, <1>3 DEF InItsItems, Working
  <2>3. Len(items[d]) \in Nat /\ DOMAIN items[d] = 1 .. Len(items[d])
    BY <1>2, ItemsOf
  <2>4. HoldsUpdated(d)'
    <3>1. Updated(d)' = {}
      BY <1>3 DEF Updated
    <3> QED
      BY <3>1 DEF HoldsUpdated
  <2>5. Current(d).needId # NoNeed => IsCreated(need[Current(d).needId])
    <3> SUFFICES ASSUME Current(d).needId # NoNeed
                 PROVE  IsCreated(need[Current(d).needId])
      OBVIOUS
    <3>1. Current(d).needId \in Needs
      BY <1>1, <1>2, ItemsOf DEF Current, TypeOK
    <3>2. IsCreated(RowOf(d, Current(d).needId))
      BY <1>1 DEF Fits
    <3> QED
      BY <1>2, <3>1, <3>2 DEF RowOf, GivesToNeeds
  <2>6. \A i \in Validated(d)' : i \in Validated(d) \/ i = item[d]
    <3>1. item[d] \in Nat
      BY <1>2 DEF TypeOK
    <3> QED
      BY <1>1, <1>3, <2>3, <3>1 DEF Validated
  <2>7. GivesToNeeds(d)'
    BY <1>1, <1>2, <1>4, <2>5, <2>6 DEF GivesToNeeds, Current
  <2> QED
    BY <2>1, <2>2, <2>4, <2>7
<1>8. LocksOfWorkers'
  BY <1>1, <1>2, <1>3 DEF IInv, LocksOfWorkers, TypeOK
<1>9. \A n \in Needs : IsFiniteSet(Units(Recorded, n))'
  <2>1. Recorded' = Recorded
    BY <1>1, <1>3 DEF Recorded
  <2> QED
    BY <1>1, <2>1, UnitsSame DEF IInv
<1>10. \A m \in Editors : EditsNeed(m)'
  BY <1>1, <1>6, EditsIdle
<1> QED
  BY <1>5, <1>7, <1>8, <1>9, <1>10 DEF IInv

LEMMA CreditKeeps == ASSUME NEW d \in Donations PROVE IInv /\ Credit(d) => IInv'
<1> SUFFICES ASSUME IInv, Credit(d)
             PROVE  IInv'
  OBVIOUS
<1>1. /\ pc[d] = "credit" /\ NextItem(d, "commit")
      /\ UNCHANGED <<need, today, items, seen, editVars>>
  BY DEF Credit
<1>2. /\ TypeOK /\ lock \in [Needs -> Donations \cup {NoOne}] /\ item[d] \in Nat
      /\ InItsItems(d) /\ GivesToNeeds(d) /\ HoldsUpdated(d)
  BY DEF IInv, TypeOK
<1>3. /\ pc' \in [Donations -> {"new", "recorded", "refused"} \cup Working]
      /\ item' \in [Donations -> Nat \ {0}]
      /\ \A e \in Donations \ {d} : pc'[e] = pc[e] /\ item'[e] = item[e]
      /\ item'[d] \in DOMAIN items[d]
      /\ \/ pc'[d] = "credit" /\ item'[d] = item[d] + 1
         \/ pc'[d] = "commit" /\ item'[d] = 1 /\ item[d] = Len(items[d])
  BY <1>1, ToNextItem
<1>4. /\ lock' \in [Needs -> Donations \cup {NoOne}]
      /\ \A n \in Needs : \/ lock'[n] = lock[n]
                          \/ lock'[n] = d /\ lock[n] \in {NoOne, d}
      /\ Current(d).needId # NoNeed => lock'[Current(d).needId] = d
  <2>1. Current(d).needId \in Needs \cup {NoNeed}
    BY <1>1, <1>2, ItemsOf DEF Current, TypeOK
  <2>2. CASE Current(d).needId = NoNeed /\ UNCHANGED lock
    BY <1>2, <2>2
  <2>3. CASE /\ Current(d).needId # NoNeed
             /\ lock[Current(d).needId] \in {NoOne, d}
             /\ lock' = [lock EXCEPT ![Current(d).needId] = d]
    BY <1>2, <2>1, <2>3
  <2> QED
    BY <2>2, <2>3 DEF Credit
<1>5. TypeOK'
  <2>1. \A e \in Donations : pc'[e] \in {"validate", "credit"} => item'[e] \in DOMAIN items'[e]
    BY <1>1, <1>2, <1>3 DEF TypeOK
  <2> QED
    BY <1>1, <1>2, <1>3, <1>4, <2>1 DEF TypeOK, editVars
<1>6. NeedsStay
  BY <1>1 DEF NeedsStay
<1>7. \A e \in Donations : InItsItems(e)' /\ GivesToNeeds(e)' /\ HoldsUpdated(e)'
  <2>1. \A e \in Donations \ {d} : InItsItems(e)' /\ GivesToNeeds(e)' /\ HoldsUpdated(e)'
    BY <1>1, <1>3, <1>4, <1>6, OthersIdle
  <2>2. InItsItems(d)'
    BY <1>1, <1>2, <1>3 DEF InItsItems, Working
  <2>3. Len(items[d]) \in Nat /\ DOMAIN items[d] = 1 .. Len(items[d])
    BY <1>2, ItemsOf
  <2>4. GivesToNeeds(d)'
    <3>1. Validated(d)' = Validated(d)
      BY <1>1, <1>3 DEF Validated
    <3> QED
      BY <1>1, <1>2, <3>1 DEF GivesToNeeds
  <2>5. \A i \in Updated(d)' : i \in Updated(d) \/ i = item[d]
    BY <1>1, <1>2, <1>3, <2>3 DEF Updated
  <2>6. HoldsUpdated(d)'
    <3> SUFFICES ASSUME NEW i \in Updated(d)', items[d][i].needId # NoNeed
                 PROVE  lock'[items[d][i].needId] = d
      BY <1>1 DEF HoldsUpdated
    <3>1. CASE i \in Updated(d)
      <4>1. lock[items[d][i].needId] = d
        BY <1>2, <3>1 DEF HoldsUpdated
      <4>2. items[d][i].needId \in Needs
        BY <1>2, <3>1, ItemsOf, DoneAreItems
      <4> QED
        BY <1>4, <4>1, <4>2
    <3>2. CASE i = item[d]
      BY <1>4, <3>2 DEF Current
    <3> QED
      BY <2>5, <3>1, <3>2
  <2> QED
    BY <2>1, <2>2, <2>4, <2>6
<1>8. LocksOfWorkers'
  BY <1>1, <1>2, <1>3, <1>4 DEF IInv, LocksOfWorkers, TypeOK
<1>9. \A n \in Needs : IsFiniteSet(Units(Recorded, n))'
  <2>1. Recorded' = Recorded
    BY <1>1, <1>3 DEF Recorded
  <2> QED
    BY <1>1, <2>1, UnitsSame DEF IInv
<1>10. \A m \in Editors : EditsNeed(m)'
  BY <1>1, <1>6, EditsIdle
<1> QED
  BY <1>5, <1>7, <1>8, <1>9, <1>10 DEF IInv

\* What the database makes of a row it credits.
LEMMA CreditedNeed ==
  ASSUME NEW r \in Need, NEW q \in Nat
  PROVE  /\ Credited(r, q) \in Need
         /\ IsCreated(Credited(r, q)) = IsCreated(r)
         /\ Credited(r, q).requiredQuantity = r.requiredQuantity
         /\ Credited(r, q).coveredQuantity = Least(r.requiredQuantity, r.coveredQuantity + q)
<1>1. PICK c : c = Least(r.requiredQuantity, r.coveredQuantity + q)
  OBVIOUS
<1>2. c \in 0 .. MaxQuantity
  BY <1>1, NeedFields DEF Least
<1>3. Credited(r, q) = [r EXCEPT !.coveredQuantity = c]
  BY <1>1 DEF Credited, Need
<1> QED
  BY <1>1, <1>2, <1>3, Progressed

\* A commit credits the rows it has with all that it brought.
LEMMA Committed ==
  ASSUME NEW d \in Donations, IInv, Commit(d)
  PROVE  /\ pc' \in [Donations -> {"new", "recorded", "refused"} \cup Working]
         /\ pc[d] = "commit" /\ pc'[d] = "recorded"
         /\ \A e \in Donations \ {d} : pc'[e] = pc[e]
         /\ Recorded' = Recorded \cup {d} /\ d \notin Recorded
         /\ UNCHANGED items
         /\ \A n \in Needs :
              /\ Brought({d}, n) \in Nat
              /\ IsFiniteSet(Units(Recorded, n))'
              /\ Brought(Recorded, n)' = Brought(Recorded, n) + Brought({d}, n)
<1>1. /\ pc[d] = "commit" /\ pc' = [pc EXCEPT ![d] = "recorded"] /\ UNCHANGED items
      /\ pc \in [Donations -> {"new", "recorded", "refused"} \cup Working] /\ TypeOK
  BY DEF Commit, IInv, TypeOK
<1>2. Recorded' = Recorded \cup {d} /\ d \notin Recorded /\ Recorded \in SUBSET Donations
  BY <1>1 DEF Recorded
<1>3. \A n \in Needs : Units(Recorded, n)' = Units(Recorded \cup {d}, n)
  BY <1>1, <1>2 DEF Units, UnitsOf
<1>4. \A n \in Needs : Brought(Recorded, n)' = Brought(Recorded \cup {d}, n)
  BY <1>3 DEF Brought
<1>5. \A n \in Needs : IsFiniteSet(Units(Recorded, n))
  BY DEF IInv
<1>6. \A n \in Needs :
        /\ IsFiniteSet(Units(Recorded \cup {d}, n))
        /\ Brought(Recorded \cup {d}, n) = Brought(Recorded, n) + Brought({d}, n)
        /\ Brought({d}, n) \in Nat
  BY <1>1, <1>2, <1>5, BroughtAdds
<1> QED
  BY <1>1, <1>2, <1>3, <1>4, <1>6

LEMMA CommitKeeps == ASSUME NEW d \in Donations PROVE IInv /\ Commit(d) => IInv'
<1> SUFFICES ASSUME IInv, Commit(d)
             PROVE  IInv'
  OBVIOUS
<1>1. /\ need' = [n \in Needs |-> IF lock[n] = d
                    THEN Credited(need[n], Brought({d}, n)) ELSE need[n]]
      /\ seen' = [seen EXCEPT ![d] = [n \in Needs |-> Uncreated]]
      /\ UNCHANGED <<today, items, item, editVars>>
      /\ Unlock(d)
  BY DEF Commit, Forget
<1>2. /\ TypeOK /\ need \in [Needs -> Need] /\ seen \in [Donations -> [Needs -> Need]]
      /\ InItsItems(d) /\ GivesToNeeds(d)
  BY DEF IInv, TypeOK
<1>3. /\ pc' \in [Donations -> {"new", "recorded", "refused"} \cup Working]
      /\ pc[d] = "commit" /\ pc'[d] = "recorded"
      /\ \A e \in Donations \ {d} : pc'[e] = pc[e]
      /\ \A n \in Needs : Brought({d}, n) \in Nat /\ IsFiniteSet(Units(Recorded, n))'
  BY Committed
<1>4. need' \in [Needs -> Need] /\ NeedsStay
  <2>1. \A n \in Needs : need'[n] \in Need /\ IsCreated(need'[n]) = IsCreated(need[n])
    BY <1>1, <1>2, <1>3, CreditedNeed
  <2> QED
    BY <1>1, <2>1 DEF NeedsStay
<1>5. /\ lock' \in [Needs -> Donations \cup {NoOne}]
      /\ \A e \in Donations \ {d}, n \in Needs : lock[n] = e => lock'[n] = e
      /\ LocksOfWorkers'
  BY <1>1, <1>3, Unlocked
<1>6. /\ seen' \in [Donations -> [Needs -> Need]]
      /\ \A e \in Donations \ {d} : seen'[e] = seen[e]
      /\ \A n \in Needs : seen'[d][n] = Uncreated
  BY <1>1, <1>2, UncreatedIsNeed
<1>7. TypeOK'
  <2>1. \A e \in Donations : pc'[e] \in {"validate", "credit"} => item'[e] \in DOMAIN items'[e]
    BY <1>1, <1>2, <1>3 DEF TypeOK
  <2> QED
    BY <1>1, <1>2, <1>3, <1>4, <1>5, <1>6, <2>1 DEF TypeOK, editVars
<1>8. \A e \in Donations : InItsItems(e)' /\ GivesToNeeds(e)' /\ HoldsUpdated(e)'
  <2>1. \A e \in Donations \ {d} : InItsItems(e)' /\ GivesToNeeds(e)' /\ HoldsUpdated(e)'
    BY <1>1, <1>3, <1>4, <1>5, <1>6, OthersIdle
  <2>2. InItsItems(d)' /\ HoldsUpdated(d)'
    BY <1>1, <1>2, <1>3 DEF InItsItems, HoldsUpdated, Updated, Working
  <2>3. Validated(d)' = DOMAIN items[d] /\ Validated(d) = DOMAIN items[d]
    BY <1>1, <1>3 DEF Validated
  <2>4. \A i \in DOMAIN items[d] : items[d][i].needId \in Needs \cup {NoNeed}
    BY <1>2, ItemsOf
  <2>5. GivesToNeeds(d)'
    BY <1>1, <1>2, <1>4, <1>6, <2>3, <2>4, UncreatedIsNeed DEF GivesToNeeds, NeedsStay
  <2> QED
    BY <2>1, <2>2, <2>5
<1>9. \A m \in Editors : EditsNeed(m)'
  BY <1>1, <1>4, EditsIdle
<1> QED
  BY <1>3, <1>5, <1>7, <1>8, <1>9 DEF IInv

\* Every step keeps it.
LEMMA NextIInv == IInv /\ [Next]_vars => IInv'
<1> SUFFICES ASSUME IInv, [Next]_vars
             PROVE  IInv'
  OBVIOUS
<1>1. CASE NextDay
  BY <1>1, NextDayKeeps
<1>2. CASE \E n \in Needs : CreateNeed(n)
  BY <1>2, CreateNeedKeeps
<1>3. ASSUME NEW d \in Donations, BeginDonation(d) \/ DonationStep(d) \/ FailDonation(d)
      PROVE  IInv'
  <2>1. CASE BeginDonation(d)
    BY <2>1, BeginDonationKeeps
  <2>2. CASE Validate(d)
    BY <2>2, ValidateKeeps
  <2>3. CASE ValidateRefuses(d)
    <3>1. pc[d] \in Working /\ Rollback(d)
      BY <2>3 DEF ValidateRefuses, Working
    <3> QED
      BY <3>1, RollbackKeeps
  <2>4. CASE Credit(d)
    BY <2>4, CreditKeeps
  <2>5. CASE Commit(d)
    BY <2>5, CommitKeeps
  <2>6. CASE DeadlockVictim(d)
    <3>1. pc[d] \in Working /\ Rollback(d)
      BY <2>6 DEF DeadlockVictim, WaitsFor, Working
    <3> QED
      BY <3>1, RollbackKeeps
  <2>7. CASE FailDonation(d)
    BY <2>7, RollbackKeeps DEF FailDonation
  <2> QED
    BY <1>3, <2>1, <2>2, <2>3, <2>4, <2>5, <2>6, <2>7 DEF DonationStep
<1>4. ASSUME NEW m \in Editors, Edit(m)
      PROVE  IInv'
  <2>1. CASE \E n \in Needs : Update(m, n) \/ UpdateProgress(m, n) \/ Close(m, n)
    BY <2>1, BeginsKeep
  <2>2. CASE EditSave(m)
    BY <2>2, EditSaveKeeps
  <2>3. CASE EditWrite(m)
    BY <2>3, EditWriteKeeps
  <2>4. CASE FailEdit(m)
    BY <2>4, FailEditKeeps
  <2> QED
    BY <1>4, <2>1, <2>2, <2>3, <2>4 DEF Edit
<1>5. CASE UNCHANGED vars
  <2>1. UNCHANGED <<need, today, lock, donationVars, editVars>>
    BY <1>5 DEF vars
  <2>2. TypeOK'
    BY <2>1 DEF IInv, TypeOK, donationVars, editVars
  <2>3. NeedsStay
    BY <2>1 DEF NeedsStay
  <2> QED
    BY <2>1, <2>2, <2>3, DonationsIdle, EditsIdle DEF IInv
<1> QED
  BY <1>1, <1>2, <1>3, <1>4, <1>5 DEF Next

\* Every state of a run has it.
LEMMA AlwaysIInv == Spec => []IInv
BY InitIInv, NextIInv, PTL DEF Spec

-----------------------------------------------------------------------------
(* What follows.                                                           *)

\* Rows, donations and edits keep their types, and no coverage leaves its range.
THEOREM TypeCorrect == Spec => []TypeOK
<1>1. IInv => TypeOK
  BY DEF IInv
<1> QED
  BY <1>1, AlwaysIInv, PTL

\* A donation about to commit has every row it credits, and only donations in
\* the middle of their transaction have rows, whatever fails or is ended.
THEOREM RowsHeld == Spec => []CommitHoldsItsRows
<1>1. IInv => CommitHoldsItsRows
  BY DEF IInv, HoldsUpdated, Updated, LocksOfWorkers, CommitHoldsItsRows
<1> QED
  BY <1>1, AlwaysIInv, PTL

-----------------------------------------------------------------------------
(* No credit is lost.                                                      *)

\* A need stays exact when its quantities and what was brought stay.
LEMMA ExactSame ==
  ASSUME NEW n, IsExact(n), Recorded' = Recorded, \A d \in Recorded : items'[d] = items[d],
         need'[n].requiredQuantity = need[n].requiredQuantity,
         need'[n].coveredQuantity = need[n].coveredQuantity
  PROVE  IsExact(n)'
<1>1. Brought(Recorded, n)' = Brought(Recorded, n)
  BY UnitsSame
<1> QED
  BY <1>1 DEF IsExact

\* A need that is created has been brought nothing.
LEMMA ExactCreated ==
  ASSUME IInv, NEW n \in Needs, NEW c \in Needs, CreateNeed(c), IsExact(n)
  PROVE  IsExact(n)'
<1>1. /\ ~IsCreated(need[c]) /\ UNCHANGED <<pc, items>> /\ need \in [Needs -> Need] /\ TypeOK
  BY DEF CreateNeed, donationVars, IInv, TypeOK
<1>2. PICK r \in Need : r.coveredQuantity = 0 /\ need' = [need EXCEPT ![c] = r]
  <2>1. PICK s \in Supplies, q \in Required, d \in today .. LastDay :
          need' = [need EXCEPT ![c] = [Uncreated EXCEPT !.supplyId = s,
                                        !.requiredQuantity = q, !.deadline = d]]
    BY DEF CreateNeed
  <2>2. d \in 1 .. LastDay
    BY DEF IInv, TypeOK
  <2> DEFINE r == [Uncreated EXCEPT !.supplyId = s, !.requiredQuantity = q, !.deadline = d]
  <2>3. r \in Need /\ r.coveredQuantity = 0
    <3>1. PICK u \in Need : u = Uncreated /\ u.coveredQuantity = 0
      BY UncreatedIsNeed
    <3>2. /\ [u EXCEPT !.supplyId = s, !.requiredQuantity = q, !.deadline = d] \in Need
          /\ [u EXCEPT !.supplyId = s, !.requiredQuantity = q, !.deadline = d].coveredQuantity
               = u.coveredQuantity
      BY <2>2 DEF Need
    <3> QED
      BY <3>1, <3>2
  <2>4. need' = [need EXCEPT ![c] = r]
    BY <2>1
  <2> HIDE DEF r
  <2> QED
    BY <2>3, <2>4
<1>3. Recorded' = Recorded
  BY <1>1 DEF Recorded
<1>4. CASE n # c
  BY <1>1, <1>2, <1>3, <1>4, ExactSame
<1>5. CASE n = c
  <2>1. \A d \in Recorded : UnitsOf(d, n) = {}
    <3> SUFFICES ASSUME NEW d \in Recorded
                 PROVE  UnitsOf(d, n) = {}
      OBVIOUS
    <3>1. d \in Donations /\ pc[d] = "recorded" /\ GivesToNeeds(d)
      BY DEF Recorded, IInv
    <3>2. Validated(d) = DOMAIN items[d]
      BY <3>1 DEF Validated
    <3>3. \A i \in DOMAIN items[d] : items[d][i].needId # n
      BY <1>1, <1>5, <3>1, <3>2 DEF GivesToNeeds
    <3> QED
      BY <1>1, <3>1, <3>3, BringsNone
  <2>2. Units(Recorded, n) = {}
    BY <2>1 DEF Units
  <2>3. Brought(Recorded, n) = 0
    BY <2>2, FS_EmptySet DEF Brought
  <2>4. Brought(Recorded, n)' = 0
    BY <1>1, <1>3, <2>3, UnitsSame
  <2>5. need'[n].coveredQuantity = 0 /\ need'[n].requiredQuantity \in Nat
    BY <1>1, <1>2, <1>5, NeedFields
  <2>6. Least(need'[n].requiredQuantity, 0) = 0
    BY <2>5 DEF Least
  <2> QED
    BY <2>4, <2>5, <2>6 DEF IsExact
<1> QED
  BY <1>4, <1>5

\* A commit adds what the donation brought to the rows it has, and it has the
\* row of every need it brought something to.
LEMMA ExactCommitted ==
  ASSUME IInv, NEW n \in Needs, NEW d \in Donations, Commit(d), IsExact(n)
  PROVE  IsExact(n)'
<1>1. /\ pc[d] = "commit" /\ TypeOK /\ HoldsUpdated(d) /\ need[n] \in Need
      /\ need'[n] = IF lock[n] = d THEN Credited(need[n], Brought({d}, n)) ELSE need[n]
  BY DEF Commit, IInv, TypeOK
<1>2. /\ Brought({d}, n) \in Nat
      /\ Brought(Recorded, n)' = Brought(Recorded, n) + Brought({d}, n)
  BY Committed
<1>3. Brought(Recorded, n) \in Nat
  BY FS_CardinalityType DEF IInv, Brought
<1>4. need[n].requiredQuantity \in Nat /\ need[n].coveredQuantity \in Nat
  BY <1>1, NeedFields
<1>5. CASE lock[n] = d
  <2>1. /\ need'[n].requiredQuantity = need[n].requiredQuantity
        /\ need'[n].coveredQuantity =
             Least(need[n].requiredQuantity, need[n].coveredQuantity + Brought({d}, n))
    BY <1>1, <1>2, <1>5, CreditedNeed
  <2>2. need[n].coveredQuantity = Least(need[n].requiredQuantity, Brought(Recorded, n))
    BY DEF IsExact
  <2>3. \A a, b, c, q \in Nat : c = Least(a, b) => Least(a, c + q) = Least(a, b + q)
    BY DEF Least
  <2>4. need'[n].coveredQuantity =
          Least(need[n].requiredQuantity, Brought(Recorded, n) + Brought({d}, n))
    BY <1>2, <1>3, <1>4, <2>1, <2>2, <2>3
  <2> QED
    BY <1>2, <2>1, <2>4 DEF IsExact
<1>6. CASE lock[n] # d
  <2>1. Updated(d) = DOMAIN items[d]
    BY <1>1 DEF Updated
  <2>2. \A i \in DOMAIN items[d] : items[d][i].needId # n
    BY <1>1, <1>6, <2>1 DEF HoldsUpdated
  <2>3. Brought({d}, n) = 0
    BY <1>1, <2>2, BringsNone
  <2>4. Brought(Recorded, n)' = Brought(Recorded, n)
    BY <1>2, <1>3, <2>3
  <2> QED
    BY <1>1, <1>6, <2>4 DEF IsExact
<1> QED
  BY <1>5, <1>6

\* The write of an edit changes the quantities of its need only when it writes them.
LEMMA ExactWritten ==
  ASSUME IInv, NEW n \in Needs, NEW m \in Editors, EditWrite(m), IsExact(n),
         ~(/\ target[m] = n /\ epc[m] = "write" /\ epc'[m] = "done"
           /\ cols[m] \cap {"requiredQuantity", "coveredQuantity"} # {})
  PROVE  IsExact(n)'
<1>1. /\ epc[m] = "write" /\ epc' = [epc EXCEPT ![m] = "done"]
      /\ need' = [need EXCEPT ![target[m]] = Written(need[target[m]], copy[m], cols[m])]
      /\ UNCHANGED <<pc, items>>
  BY DEF EditWrite, EndEdit, donationVars
<1>2. /\ need \in [Needs -> Need] /\ target[m] \in Needs /\ copy[m] \in Need
      /\ epc'[m] = "done"
  BY <1>1 DEF IInv, TypeOK, EditsNeed
<1>3. Recorded' = Recorded
  BY <1>1 DEF Recorded
<1>4. CASE target[m] # n
  BY <1>1, <1>2, <1>3, <1>4, ExactSame
<1>5. CASE target[m] = n
  <2>1. cols[m] \cap {"requiredQuantity", "coveredQuantity"} = {}
    BY <1>1, <1>2, <1>5
  <2>2. need'[n] = Written(need[n], copy[m], cols[m])
    BY <1>1, <1>2, <1>5
  <2>3. /\ need'[n].requiredQuantity = need[n].requiredQuantity
        /\ need'[n].coveredQuantity = need[n].coveredQuantity
    BY <1>2, <2>1, <2>2, WrittenNeed
  <2> QED
    BY <1>1, <1>3, <2>3, ExactSame
<1> QED
  BY <1>4, <1>5

\* A step that leaves the needs alone and records no donation.
LEMMA ExactUntouched ==
  ASSUME NEW n, IsExact(n), UNCHANGED need, Recorded' = Recorded,
         \A d \in Recorded : items'[d] = items[d]
  PROVE  IsExact(n)'
BY ExactSame

LEMMA ExactDonation ==
  ASSUME IInv, NEW n \in Needs, IsExact(n),
         NEW d \in Donations, BeginDonation(d) \/ DonationStep(d) \/ FailDonation(d)
  PROVE  IsExact(n)'
<1>1. pc \in [Donations -> {"new", "recorded", "refused"} \cup Working]
  BY DEF IInv, TypeOK
<1>2. CASE BeginDonation(d)
  <2>1. items \in [Donations -> Baskets \cup {<<>>}]
    BY DEF IInv, TypeOK
  <2>2. /\ UNCHANGED need /\ Recorded' = Recorded
        /\ \A e \in Recorded : items'[e] = items[e]
    BY <1>1, <1>2, <2>1 DEF BeginDonation, Recorded
  <2> QED
    BY <2>2, ExactUntouched
<1>3. CASE Validate(d)
  <2>1. pc[d] = "validate" /\ NextItem(d, "credit") /\ UNCHANGED <<need, items>>
    BY <1>3 DEF Validate
  <2>2. Recorded' = Recorded
    BY <2>1, ToNextItem DEF Recorded
  <2> QED
    BY <2>1, <2>2, ExactUntouched
<1>4. CASE Credit(d)
  <2>1. pc[d] = "credit" /\ NextItem(d, "commit") /\ UNCHANGED <<need, items>>
    BY <1>4 DEF Credit
  <2>2. Recorded' = Recorded
    BY <2>1, ToNextItem DEF Recorded
  <2> QED
    BY <2>1, <2>2, ExactUntouched
<1>5. CASE Commit(d)
  BY <1>5, ExactCommitted
<1>6. CASE ValidateRefuses(d) \/ DeadlockVictim(d) \/ FailDonation(d)
  <2>1. pc[d] \in Working /\ Rollback(d)
    BY <1>6 DEF ValidateRefuses, DeadlockVictim, WaitsFor, FailDonation, Working
  <2>2. UNCHANGED <<need, items>> /\ Recorded' = Recorded
    BY <1>1, <2>1 DEF Rollback, Recorded, Working
  <2> QED
    BY <2>2, ExactUntouched
<1> QED
  BY <1>2, <1>3, <1>4, <1>5, <1>6 DEF DonationStep

\* What `NoCreditLost` says of a step.
LEMMA NextKeepsExact ==
  IInv /\ [Next]_vars =>
    [\A n \in Needs : IsExact(n) =>
       \/ IsExact(n)'
       \/ \E m \in Editors :
            /\ target[m] = n /\ epc[m] = "write" /\ epc'[m] = "done"
            /\ cols[m] \cap {"requiredQuantity", "coveredQuantity"} # {}]_vars
<1> SUFFICES ASSUME IInv, [Next]_vars, NEW n \in Needs, IsExact(n),
                    ~ \E m \in Editors :
                        /\ target[m] = n /\ epc[m] = "write" /\ epc'[m] = "done"
                        /\ cols[m] \cap {"requiredQuantity", "coveredQuantity"} # {}
             PROVE  IsExact(n)'
  OBVIOUS
<1>1. UNCHANGED <<need, pc, items>> => IsExact(n)'
  BY ExactUntouched DEF Recorded
<1>2. CASE NextDay
  BY <1>1, <1>2 DEF NextDay, donationVars
<1>3. CASE \E c \in Needs : CreateNeed(c)
  BY <1>3, ExactCreated
<1>4. CASE \E d \in Donations : BeginDonation(d) \/ DonationStep(d) \/ FailDonation(d)
  BY <1>4, ExactDonation
<1>5. ASSUME NEW m \in Editors, Edit(m)
      PROVE  IsExact(n)'
  <2>1. CASE \E c \in Needs : Update(m, c) \/ UpdateProgress(m, c) \/ Close(m, c)
    BY <1>1, <2>1 DEF Update, UpdateProgress, Close, BeginEdit, donationVars
  <2>2. CASE EditSave(m)
    BY <1>1, <2>2 DEF EditSave, donationVars
  <2>3. CASE EditWrite(m)
    BY <2>3, ExactWritten
  <2>4. CASE FailEdit(m)
    BY <1>1, <2>4 DEF FailEdit, EndEdit, donationVars
  <2> QED
    BY <1>5, <2>1, <2>2, <2>3, <2>4 DEF Edit
<1>6. CASE UNCHANGED vars
  BY <1>1, <1>6 DEF vars, donationVars
<1> QED
  BY <1>2, <1>3, <1>4, <1>5, <1>6 DEF Next

\* A need that is covered by exactly what the recorded donations brought to it
\* stays so through every overlap, failure and deadlock, until an edit writes
\* one of its quantities.
THEOREM CreditKept == Spec => NoCreditLost
BY AlwaysIInv, NextKeepsExact, PTL DEF Spec, NoCreditLost

-----------------------------------------------------------------------------
(* Monetary donations: what overlapping decisions keep, for every number   *)
(* of deciders.                                                            *)

\* The saves mix columns of several decisions.  What keeps the signature is
\* that every copy is decided and signed, and that a save which compared with a
\* pending row writes both columns.  Whoever is still to save when the row is
\* decided was overtaken: so who decided first is told as the row says, unless one
\* of those replaced it.
MonetaryIInv ==
  /\ MonetaryTypeOK
  /\ DecisionIsSigned
  /\ \A u \in Deciders : deciding[u] # "idle" =>
       IsDecided(loaded[u].status) /\ loaded[u].decidedByUserId # NoDecider
  /\ \A u \in Deciders : deciding[u] = "write" /\ ~IsDecided(donation.status) =>
       {"status", "decidedByUserId"} \subseteq columns[u]
  /\ \A u \in Deciders : deciding[u] = "notify" => IsDecided(donation.status)
  /\ \A u \in Deciders : deciding[u] # "idle" => donation.status # "absent"
  /\ donation.status # "absent" => declaring \in {"notify", "done"}
  /\ \A u \in Deciders : deciding[u] \in {"save", "write"} /\ IsDecided(donation.status) =>
       u \in overtaken
  /\ \A u \in Deciders : deciding[u] = "notify" => loaded[u].status = donation.status \/ replaced
  /\ MailAfterDecision

USE DonationAssumption

\* The invariant holds before anything is declared.
LEMMA InitMonetaryIInv == MonetaryInit => MonetaryIInv
<1> SUFFICES ASSUME MonetaryInit PROVE MonetaryIInv
  OBVIOUS
<1> USE DEF MonetaryInit, NoDonation
<1>1. MonetaryTypeOK
  BY DEF MonetaryTypeOK, Donation, Columns
<1>2. /\ DecisionIsSigned /\ MailAfterDecision
      /\ donation.status = "absent"
      /\ \A u \in Deciders : deciding[u] = "idle"
  BY DEF DecisionIsSigned, MailAfterDecision, IsDecided
<1> QED
  BY <1>1, <1>2 DEF MonetaryIInv, IsDecided

\* Every step keeps it.
LEMMA NextMonetaryIInv == MonetaryIInv /\ [MonetaryNext]_monetaryVars => MonetaryIInv'
<1> SUFFICES ASSUME MonetaryIInv, [MonetaryNext]_monetaryVars PROVE MonetaryIInv'
  OBVIOUS
<1> USE DEF MonetaryIInv, MonetaryTypeOK, DecisionIsSigned, MailAfterDecision,
            IsDecided, Donation, NoDonation, Columns, decisions
<1>1. CASE Declare
  BY <1>1 DEF Declare
<1>2. CASE UploadReceipt
  BY <1>2 DEF UploadReceipt
<1>3. CASE InsertDeclared
  BY <1>3 DEF InsertDeclared
<1>4. CASE NotifyDeclared
  BY <1>4 DEF NotifyDeclared, Send
<1>5. CASE FailDeclare
  BY <1>5 DEF FailDeclare
<1>6. ASSUME NEW u \in Deciders, Confirm(u) \/ Reject(u) PROVE MonetaryIInv'
  <2>1. PICK s \in {"confirmada", "rechazada"}, b \in BOOLEAN : Decide(u, s, b)
    BY <1>6 DEF Confirm, Reject
  <2>2. /\ Transition(u, s, b) \in Donation
        /\ Transition(u, s, b).status = s
        /\ Transition(u, s, b).decidedByUserId = u
    BY DEF Transition
  <2>3. /\ loaded' = [loaded EXCEPT ![u] = Transition(u, s, b)]
        /\ deciding' = [deciding EXCEPT ![u] = "save"]
        /\ donation.status = "declarada"
        /\ UNCHANGED <<donation, declaring, stored, mails, columns, overtaken, replaced>>
    BY <2>1 DEF Decide
  <2>4. MonetaryTypeOK'
    BY <2>2, <2>3
  <2> QED
    BY <2>2, <2>3, <2>4
<1>7. ASSUME NEW u \in Deciders, Save(u) PROVE MonetaryIInv'
  BY <1>7 DEF Save, Dirty
<1>8. ASSUME NEW u \in Deciders, Write(u) PROVE MonetaryIInv'
  BY <1>8 DEF Write, SetDonation, Written
<1>9. ASSUME NEW u \in Deciders, WriteRefused(u) \/ Fail(u) PROVE MonetaryIInv'
  <2>1. /\ deciding' = [deciding EXCEPT ![u] = "idle"]
        /\ loaded' = [loaded EXCEPT ![u] = NoDonation]
        /\ columns' = [columns EXCEPT ![u] = {}]
        /\ overtaken' = overtaken \ {u}
        /\ UNCHANGED <<donation, declaring, stored, mails, replaced>>
    BY <1>9 DEF WriteRefused, Fail, End
  <2>2. MonetaryTypeOK'
    BY <2>1
  <2> QED
    BY <2>1, <2>2
<1>10. ASSUME NEW u \in Deciders, NotifyDecided(u) PROVE MonetaryIInv'
  BY <1>10 DEF NotifyDecided, Send, End
<1>11. CASE UNCHANGED monetaryVars
  BY <1>11 DEF monetaryVars
<1> QED
  BY <1>1, <1>2, <1>3, <1>4, <1>5, <1>6, <1>7, <1>8, <1>9, <1>10, <1>11 DEF MonetaryNext

\* Hence every reachable state has it.
LEMMA AlwaysMonetaryIInv == MonetarySpec => []MonetaryIInv
BY InitMonetaryIInv, NextMonetaryIInv, PTL DEF MonetarySpec

\* However many people decide the same donation at once, it is signed exactly
\* when it is decided.
THEOREM DecisionSigned == MonetarySpec => []DecisionIsSigned
BY AlwaysMonetaryIInv, PTL DEF MonetaryIInv

\* However many people decide it at once and whatever save fails, the donor is
\* told of a decision only when the row has one, and of the one that it has unless
\* an overtaken decision replaced it.
THEOREM MailFollowsDecision == MonetarySpec => []MailAfterDecision
BY AlwaysMonetaryIInv, PTL DEF MonetaryIInv

\* However many people decide it at once, the decision that is in the row is final
\* for every request but those that had read the donation before it.
THEOREM DecisionFinal == MonetarySpec => DecidedIsFinal
<1>1. ASSUME MonetaryIInv, [MonetaryNext]_monetaryVars
      PROVE  [IsDecided(donation.status) /\ donation' # donation
                => \E u \in overtaken : deciding[u] = "write" /\ deciding'[u] = "notify"]_monetaryVars
  <2> SUFFICES ASSUME IsDecided(donation.status), donation' # donation
               PROVE  \E u \in overtaken : deciding[u] = "write" /\ deciding'[u] = "notify"
    OBVIOUS
  <2>1. ~InsertDeclared
    BY <1>1 DEF InsertDeclared, MonetaryIInv, IsDecided
  <2>2. PICK u \in Deciders : Write(u)
    BY <1>1, <2>1 DEF MonetaryNext, monetaryVars, Declare, UploadReceipt, NotifyDeclared,
         FailDeclare, Confirm, Reject, Decide, Save, WriteRefused, NotifyDecided, Fail
  <2>3. deciding[u] = "write" /\ deciding'[u] = "notify" /\ u \in overtaken
    BY <1>1, <2>2 DEF Write, SetDonation, MonetaryIInv, MonetaryTypeOK
  <2> QED
    BY <2>3
<1> QED
  BY <1>1, AlwaysMonetaryIInv, PTL DEF MonetarySpec, DecidedIsFinal

\* The row, the copies and the steps of the requests are of their types.
THEOREM MonetaryTypeCorrect == MonetarySpec => []MonetaryTypeOK
BY AlwaysMonetaryIInv, PTL DEF MonetaryIInv
=============================================================================
