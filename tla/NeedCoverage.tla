---------------------------- MODULE NeedCoverage ----------------------------
(***************************************************************************)
(* The needs of an organization and the donations in kind that cover them. *)
(* A donation (donation.service.ts) is one transaction: it validates every *)
(* item against the needs, writes itself and its items and adds each       *)
(* quantity to its need.  Meanwhile the people of the organization edit,   *)
(* correct and close the same needs (need.service.ts), each operation a    *)
(* read and a later save, and the days go by.                              *)
(*                                                                         *)
(* A transaction's writes are made by its commit, and the rows it updated  *)
(* stay locked until then.                                                 *)
(***************************************************************************)
EXTENDS Naturals, Sequences, FiniteSets, TypeOrmSave

CONSTANTS
  Needs,        \* rows of `needs`
  Donations,    \* requests to register a donation, each made once
  Editors,      \* requests to edit a need, each made once
  Supplies,     \* the catalog
  Required,     \* the quantities a need may require
  MaxQuantity,  \* bound on those quantities, on coverages and on items
  Baskets,      \* the lists of items a donation may bring
  LastDay,      \* bound on the days that go by
  EditOps,      \* the operations on needs that are in play
  NoNeed,       \* an item given to no need in particular
  NoOne         \* nobody holds the lock on a need's row

Item == [supplyId : Supplies, needId : Needs \cup {NoNeed}, quantity : 1 .. MaxQuantity]

ASSUME NeedAssumption ==
  /\ MaxQuantity \in Nat \ {0} /\ LastDay \in Nat \ {0}
  /\ Supplies # {}
  /\ EditOps \subseteq {"update", "updateProgress", "close"}
  /\ NoNeed \notin Needs
  /\ NoOne \notin Donations
  /\ Required \subseteq 1 .. MaxQuantity
  /\ \A b \in Baskets : b \in Seq(Item) /\ b # <<>>

VARIABLES
  need,      \* the rows; requiredQuantity 0 before a need is created
  today,     \* todayAr()
  lock,      \* the donation that updated each row and has not committed yet
  pc,        \* where each donation is
  items,     \* what it brings
  item,      \* index of the item it is at
  seen,      \* the needs it read (the `needs` map of assertItemsAreValid)
  epc,       \* where each edit is
  target,    \* the need it edits
  copy,      \* its copy of the row
  cols       \* the columns its save is about to write

donationVars == <<pc, items, item, seen>>
editVars == <<epc, target, copy, cols>>
vars == <<need, today, lock, donationVars, editVars>>

Need ==
  [supplyId : Supplies,
   requiredQuantity : Required \cup {0},
   coveredQuantity : 0 .. MaxQuantity,
   deadline : 1 .. LastDay,
   closedManually : BOOLEAN]

Uncreated ==
  [supplyId |-> CHOOSE s \in Supplies : TRUE, requiredQuantity |-> 0,
   coveredQuantity |-> 0, deadline |-> 1, closedManually |-> FALSE]

\* A donation ends `recorded`, or `refused` with nothing written.
Working == {"validate", "credit", "commit"}

TypeOK ==
  /\ need \in [Needs -> Need]
  /\ today \in 1 .. LastDay
  /\ lock \in [Needs -> Donations \cup {NoOne}]
  /\ pc \in [Donations -> {"new", "recorded", "refused"} \cup Working]
  /\ items \in [Donations -> Baskets \cup {<<>>}]
  /\ item \in [Donations -> Nat \ {0}]
  /\ \A d \in Donations : pc[d] \in {"validate", "credit"} => item[d] \in DOMAIN items[d]
  /\ seen \in [Donations -> [Needs -> Need]]
  /\ epc \in [Editors -> {"new", "save", "write", "done"}]
  /\ target \in [Editors -> Needs \cup {NoNeed}]
  /\ copy \in [Editors -> Need]
  /\ cols \in [Editors -> SUBSET DOMAIN Uncreated]

Init ==
  /\ need = [n \in Needs |-> Uncreated]
  /\ today = 1
  /\ lock = [n \in Needs |-> NoOne]
  /\ pc = [d \in Donations |-> "new"]
  /\ items = [d \in Donations |-> <<>>]
  /\ item = [d \in Donations |-> 1]
  /\ seen = [d \in Donations |-> [n \in Needs |-> Uncreated]]
  /\ epc = [m \in Editors |-> "new"]
  /\ target = [m \in Editors |-> NoNeed]
  /\ copy = [m \in Editors |-> Uncreated]
  /\ cols = [m \in Editors |-> {}]

-----------------------------------------------------------------------------
(* Needs.                                                                  *)

IsCreated(n) == n.requiredQuantity > 0
IsNeedExpired(n) == n.deadline < today

\* Closed whatever its deadline: what an edit that may move it looks at.
IsSettled(n) == n.closedManually \/ n.coveredQuantity >= n.requiredQuantity
IsNeedClosed(n) == IsSettled(n) \/ IsNeedExpired(n)

NextDay ==
  /\ today < LastDay
  /\ today' = today + 1
  /\ UNCHANGED <<need, lock, donationVars, editVars>>

CreateNeed(n) ==
  /\ ~IsCreated(need[n])
  /\ \E s \in Supplies, q \in Required, d \in today .. LastDay :
       need' = [need EXCEPT ![n] = [Uncreated EXCEPT !.supplyId = s,
                                      !.requiredQuantity = q, !.deadline = d]]
  /\ UNCHANGED <<today, lock, donationVars, editVars>>

\* findOpenOrFail and the change in memory; `open` is what it asks of the row.
BeginEdit(m, n, op, open, edited) ==
  /\ op \in EditOps
  /\ IsCreated(need[n]) /\ open
  /\ epc[m] = "new"
  /\ epc' = [epc EXCEPT ![m] = "save"]
  /\ target' = [target EXCEPT ![m] = n]
  /\ copy' = [copy EXCEPT ![m] = edited]
  /\ UNCHANGED <<need, today, lock, donationVars, cols>>

\* Moving the deadline to a day that has not passed reopens an expired need.
Update(m, n) ==
  \E s \in Supplies, q \in Required, d \in 1 .. LastDay :
    /\ IsNeedExpired(need[n]) \/ d # need[n].deadline => d >= today
    /\ BeginEdit(m, n, "update", ~IsSettled(need[n]),
                 [need[n] EXCEPT !.supplyId = s, !.requiredQuantity = q, !.deadline = d])

UpdateProgress(m, n) ==
  \E q \in 0 .. MaxQuantity :
    BeginEdit(m, n, "updateProgress", ~IsNeedClosed(need[n]),
              [need[n] EXCEPT !.coveredQuantity = q])

Close(m, n) ==
  BeginEdit(m, n, "close", ~IsNeedClosed(need[n]), [need[n] EXCEPT !.closedManually = TRUE])

EditSave(m) ==
  /\ epc[m] = "save"
  /\ epc' = [epc EXCEPT ![m] = "write"]
  /\ cols' = [cols EXCEPT ![m] = Dirty(copy[m], need[target[m]])]
  /\ UNCHANGED <<need, today, lock, donationVars, target, copy>>

EndEdit(m) ==
  /\ epc' = [epc EXCEPT ![m] = "done"]
  /\ target' = [target EXCEPT ![m] = NoNeed]
  /\ copy' = [copy EXCEPT ![m] = Uncreated]
  /\ cols' = [cols EXCEPT ![m] = {}]
  /\ UNCHANGED <<today, lock, donationVars>>

\* The update waits for the donation that has the row.
EditWrite(m) ==
  /\ epc[m] = "write"
  /\ lock[target[m]] = NoOne
  /\ need' = [need EXCEPT ![target[m]] = Written(@, copy[m], cols[m])]
  /\ EndEdit(m)

FailEdit(m) ==
  /\ epc[m] \in {"save", "write"}
  /\ EndEdit(m)
  /\ UNCHANGED need

-----------------------------------------------------------------------------
(* Donations.                                                              *)

Current(d) == items[d][item[d]]

\* Mutant of NextItem: the loop stays at an item that is not the last.
NextItemStays(d, phase) ==
  IF item[d] < Len(items[d])
  THEN UNCHANGED <<item, pc>>
  ELSE item' = [item EXCEPT ![d] = 1] /\ pc' = [pc EXCEPT ![d] = phase]

\* To the next item, or to the first one of the next phase.
NextItem(d, phase) ==
  IF item[d] < Len(items[d])
  THEN item' = [item EXCEPT ![d] = @ + 1] /\ UNCHANGED pc
  ELSE item' = [item EXCEPT ![d] = 1] /\ pc' = [pc EXCEPT ![d] = phase]

Forget(d) == seen' = [seen EXCEPT ![d] = [n \in Needs |-> Uncreated]]

Unlock(d) == lock' = [n \in Needs |-> IF lock[n] = d THEN NoOne ELSE lock[n]]

Rollback(d) ==
  /\ pc' = [pc EXCEPT ![d] = "refused"]
  /\ item' = [item EXCEPT ![d] = 1]
  /\ Unlock(d)
  /\ Forget(d)
  /\ UNCHANGED <<need, today, items, editVars>>

BeginDonation(d) ==
  /\ pc[d] = "new"
  /\ \E b \in Baskets : items' = [items EXCEPT ![d] = b]
  /\ pc' = [pc EXCEPT ![d] = "validate"]
  /\ UNCHANGED <<need, today, lock, item, seen, editVars>>

\* The row an item is checked against: read once for each donation.
RowOf(d, n) == IF IsCreated(seen[d][n]) THEN seen[d][n] ELSE need[n]

Fits(d) ==
  LET i == Current(d) IN
    i.needId # NoNeed =>
      /\ IsCreated(RowOf(d, i.needId))
      /\ ~IsNeedClosed(RowOf(d, i.needId))
      /\ RowOf(d, i.needId).supplyId = i.supplyId

Validate(d) ==
  /\ pc[d] = "validate"
  /\ Fits(d)
  /\ NextItem(d, "credit")
  /\ seen' = [seen EXCEPT ![d] = [n \in Needs |->
                IF n = Current(d).needId THEN RowOf(d, n) ELSE seen[d][n]]]
  /\ UNCHANGED <<need, today, lock, items, editVars>>

ValidateRefuses(d) ==
  /\ pc[d] = "validate"
  /\ ~Fits(d)
  /\ Rollback(d)

\* Mutant of Credit: updates that are not part of the transaction.
CreditUnlocked(d) ==
  /\ pc[d] = "credit"
  /\ NextItem(d, "commit")
  /\ UNCHANGED <<need, today, lock, items, seen, editVars>>

\* The donation's rows are inserted (nobody sees them yet) and each item updates
\* its need, waiting for another donation that updated it.
Credit(d) ==
  /\ pc[d] = "credit"
  /\ NextItem(d, "commit")
  /\ LET n == Current(d).needId IN
       \/ n = NoNeed /\ UNCHANGED lock
       \/ /\ n # NoNeed
          /\ lock[n] \in {NoOne, d}
          /\ lock' = [lock EXCEPT ![n] = d]
  /\ UNCHANGED <<need, today, items, seen, editVars>>

\* What the donations of D bring to a need, item by item and unit by unit.
UnitsOf(d, n) ==
  {u \in (1 .. Len(items[d])) \X (1 .. MaxQuantity) :
     items[d][u[1]].needId = n /\ u[2] <= items[d][u[1]].quantity}

Units(D, n) == UNION {{d} \X UnitsOf(d, n) : d \in D}

Brought(D, n) == Cardinality(Units(D, n))

Least(a, b) == IF a < b THEN a ELSE b

\* Mutant of Credited: no cap at the required quantity.
CreditedInFull(row, quantity) ==
  [row EXCEPT !.coveredQuantity = @ + quantity]

\* `LEAST("requiredQuantity", "coveredQuantity" + :quantity)`, computed by the
\* database on the row it locked.
Credited(row, quantity) ==
  [row EXCEPT !.coveredQuantity = Least(row.requiredQuantity, @ + quantity)]

\* Mutant of Commit: the sum is computed in memory, on the row that was read.
CommitFromCopy(d) ==
  /\ pc[d] = "commit"
  /\ pc' = [pc EXCEPT ![d] = "recorded"]
  /\ need' = [n \in Needs |-> IF lock[n] = d
                THEN [need[n] EXCEPT !.coveredQuantity =
                        Credited(seen[d][n], Brought({d}, n)).coveredQuantity]
                ELSE need[n]]
  /\ Unlock(d)
  /\ Forget(d)
  /\ UNCHANGED <<today, items, item, editVars>>

\* The items of one need are credited one by one: the last LEAST is the one of
\* their sum.
Commit(d) ==
  /\ pc[d] = "commit"
  /\ pc' = [pc EXCEPT ![d] = "recorded"]
  /\ need' = [n \in Needs |-> IF lock[n] = d
                THEN Credited(need[n], Brought({d}, n)) ELSE need[n]]
  /\ Unlock(d)
  /\ Forget(d)
  /\ UNCHANGED <<today, items, item, editVars>>

\* A query fails or the connection breaks.
FailDonation(d) == pc[d] \in Working /\ Rollback(d)

\* d waits for the row that e has.
WaitsFor(d, e) ==
  /\ pc[d] = "credit"
  /\ d # e
  /\ Current(d).needId # NoNeed
  /\ lock[Current(d).needId] = e

\* PostgreSQL looks for cycles of waiting transactions and ends one of them.
DeadlockVictim(d) ==
  /\ \E D \in SUBSET Donations :
       d \in D /\ \A e \in D : \E f \in D : WaitsFor(e, f)
  /\ Rollback(d)

-----------------------------------------------------------------------------
DonationStep(d) ==
  Validate(d) \/ ValidateRefuses(d) \/ Credit(d) \/ Commit(d) \/ DeadlockVictim(d)

Edit(m) ==
  \/ \E n \in Needs : Update(m, n) \/ UpdateProgress(m, n) \/ Close(m, n)
  \/ EditSave(m) \/ EditWrite(m) \/ FailEdit(m)

Next ==
  \/ NextDay
  \/ \E n \in Needs : CreateNeed(n)
  \/ \E d \in Donations : BeginDonation(d) \/ DonationStep(d) \/ FailDonation(d)
  \/ \E m \in Editors : Edit(m)

Spec == Init /\ [][Next]_vars

\* The statements of a donation complete.  Donations take locks for their own
\* statements only and never come back, so a row in the end stays free.
Fairness == \A d \in Donations : WF_vars(DonationStep(d))

FairSpec == Spec /\ Fairness

-----------------------------------------------------------------------------
(* Properties.                                                             *)

Recorded == {d \in Donations : pc[d] = "recorded"}

\* A need is covered by all that the recorded donations brought to it, and by no
\* part of the others, up to what it requires.
IsExact(n) ==
  need[n].coveredQuantity = Least(need[n].requiredQuantity, Brought(Recorded, n))

\* "Para que dos cargas simultaneas no se pisen": a need that is covered exactly
\* stays so through every donation, failure and edit that overlap, until an edit
\* writes one of its two quantities.
NoCreditLost ==
  [][\A n \in Needs : IsExact(n) =>
       \/ IsExact(n)'
       \/ \E m \in Editors :
            /\ target[m] = n /\ epc[m] = "write" /\ epc'[m] = "done"
            /\ cols[m] \cap {"requiredQuantity", "coveredQuantity"} # {}]_vars

\* A donation about to commit has every row it credits, and nobody who is not
\* in the middle of its transaction has any, whoever failed before.
CommitHoldsItsRows ==
  /\ \A d \in Donations : pc[d] = "commit" =>
       \A i \in DOMAIN items[d] : items[d][i].needId # NoNeed => lock[items[d][i].needId] = d
  /\ \A n \in Needs : lock[n] # NoOne => pc[lock[n]] \in {"credit", "commit"}

\* Every donation is recorded or refused, also when two of them credit the same
\* needs in opposite order.
DonationsEnd ==
  \A d \in Donations : pc[d] = "validate" ~> pc[d] \in {"recorded", "refused"}

=============================================================================
