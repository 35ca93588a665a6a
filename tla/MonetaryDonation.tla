-------------------------- MODULE MonetaryDonation --------------------------
(***************************************************************************)
(* One monetary donation (monetary-donation.service.ts): a visitor         *)
(* declares it, maybe with a receipt that is stored in Cloudinary, and the *)
(* people who manage the organization confirm or reject it.  A decision is *)
(* a read, a transition in memory (monetary/states/), a save and a mail to *)
(* the donor; nothing holds the row between them.  Its names differ from   *)
(* those of NeedCoverage, so that one module proves about both donations.  *)
(***************************************************************************)
EXTENDS TypeOrmSave

CONSTANTS
  Deciders,  \* owners and admins; each has at most one request in flight
  NoDecider  \* decidedByUserId is null

ASSUME DonationAssumption == NoDecider \notin Deciders

VARIABLES
  donation,   \* the row
  declaring,  \* where the visitor's request is
  stored,     \* the receipt of this attempt is in Cloudinary
  mails,      \* the statuses the donor was told of
  deciding,   \* where each decision is
  loaded,     \* its copy of the row
  columns,    \* the columns its save is about to write
  overtaken,  \* deciders whose donation somebody decided after they read it (history)
  replaced    \* such a decision was saved over another one (history)

decisions == <<deciding, loaded, columns, overtaken, replaced>>
monetaryVars == <<donation, declaring, stored, mails, decisions>>

\* decidedAt is written together with decidedByUserId, always with a new value.
Donation ==
  [status : {"absent", "declarada", "confirmada", "rechazada"},
   receipt : BOOLEAN,                       \* receiptUrl is set
   decidedByUserId : Deciders \cup {NoDecider},
   rejectReason : BOOLEAN]                  \* rejectReason is set

Columns == {"status", "receipt", "decidedByUserId", "rejectReason"}

NoDonation ==
  [status |-> "absent", receipt |-> FALSE, decidedByUserId |-> NoDecider,
   rejectReason |-> FALSE]

MonetaryTypeOK ==
  /\ donation \in Donation
  /\ declaring \in {"idle", "upload", "insert", "notify", "done"}
  /\ stored \in BOOLEAN
  /\ mails \subseteq {"declarada", "confirmada", "rechazada"}
  /\ deciding \in [Deciders -> {"idle", "save", "write", "notify"}]
  /\ loaded \in [Deciders -> Donation]
  /\ columns \in [Deciders -> SUBSET Columns]
  /\ overtaken \subseteq Deciders
  /\ replaced \in BOOLEAN

MonetaryInit ==
  /\ donation = NoDonation
  /\ declaring = "idle"
  /\ stored = FALSE
  /\ mails = {}
  /\ deciding = [u \in Deciders |-> "idle"]
  /\ loaded = [u \in Deciders |-> NoDonation]
  /\ columns = [u \in Deciders |-> {}]
  /\ overtaken = {}
  /\ replaced = FALSE

-----------------------------------------------------------------------------
(* declare.                                                                *)

\* The organization is validated and has a payment alias, the method is a
\* transfer and the file, if any, is an image: else the request ends at once.
Declare ==
  /\ declaring = "idle"
  /\ declaring' \in {"upload", "insert"}
  /\ UNCHANGED <<donation, stored, mails, decisions>>

UploadReceipt ==
  /\ declaring = "upload"
  /\ stored' = TRUE
  /\ declaring' = "insert"
  /\ UNCHANGED <<donation, mails, decisions>>

InsertDeclared ==
  /\ declaring = "insert"
  /\ donation' = [NoDonation EXCEPT !.status = "declarada", !.receipt = stored]
  /\ declaring' = "notify"
  /\ UNCHANGED <<stored, mails, decisions>>

\* trySend: a donor who left no mail, or a mail that fails, changes nothing else.
Send(status) == mails' \in {mails, mails \cup {status}}

NotifyDeclared ==
  /\ declaring = "notify"
  /\ Send("declarada")
  /\ declaring' = "done"
  /\ UNCHANGED <<donation, stored, decisions>>

\* Cloudinary or the insert fails; the visitor may try again, the file of the
\* first attempt stays where it is and is not the one of the next.
FailDeclare ==
  /\ declaring \in {"upload", "insert"}
  /\ declaring' = "idle"
  /\ stored' = FALSE
  /\ UNCHANGED <<donation, mails, decisions>>

-----------------------------------------------------------------------------
(* decide.                                                                 *)

Transition(u, status, reason) ==
  [donation EXCEPT !.status = status, !.decidedByUserId = u, !.rejectReason = reason]

\* Mutant of Decide: the states of a decided donation have transitions too.
DecideAgain(u, status, reason) ==
  /\ deciding[u] = "idle"
  /\ donation.status # "absent"
  /\ loaded' = [loaded EXCEPT ![u] = Transition(u, status, reason)]
  /\ deciding' = [deciding EXCEPT ![u] = "save"]
  /\ UNCHANGED <<donation, declaring, stored, mails, columns, overtaken, replaced>>

\* Only declaradaState has transitions; the states of a decided donation throw.
Decide(u, status, reason) ==
  /\ deciding[u] = "idle"
  /\ donation.status = "declarada"
  /\ loaded' = [loaded EXCEPT ![u] = Transition(u, status, reason)]
  /\ deciding' = [deciding EXCEPT ![u] = "save"]
  /\ UNCHANGED <<donation, declaring, stored, mails, columns, overtaken, replaced>>

Confirm(u) == Decide(u, "confirmada", FALSE)
Reject(u)  == Decide(u, "rechazada", TRUE)

\* Mutant of Save: the donor is told before the save.
SaveAfterMail(u) ==
  /\ deciding[u] = "save"
  /\ columns' = [columns EXCEPT ![u] = Dirty(loaded[u], donation)]
  /\ Send(loaded[u].status)
  /\ deciding' = [deciding EXCEPT ![u] = "write"]
  /\ UNCHANGED <<donation, declaring, stored, loaded, overtaken, replaced>>

\* The comparing read of the save.
Save(u) ==
  /\ deciding[u] = "save"
  /\ columns' = [columns EXCEPT ![u] = Dirty(loaded[u], donation)]
  /\ deciding' = [deciding EXCEPT ![u] = "write"]
  /\ UNCHANGED <<donation, declaring, stored, mails, loaded, overtaken, replaced>>

End(u) ==
  /\ deciding' = [deciding EXCEPT ![u] = "idle"]
  /\ loaded' = [loaded EXCEPT ![u] = NoDonation]
  /\ columns' = [columns EXCEPT ![u] = {}]
  /\ overtaken' = overtaken \ {u}
  /\ UNCHANGED <<declaring, stored, replaced>>

\* CHK_donations_reject_reason.
RowAllowed(row) == row.status = "rechazada" => row.rejectReason

\* The row changes, under whoever else has read it and not saved yet.
SetDonation(u, row) ==
  /\ deciding[u] = "write"
  /\ donation' = row
  /\ deciding' = [deciding EXCEPT ![u] = "notify"]
  /\ overtaken' = overtaken \cup {v \in Deciders \ {u} : deciding[v] \in {"save", "write"}}
  /\ replaced' = (replaced \/ u \in overtaken)
  /\ UNCHANGED <<declaring, stored, mails, loaded, columns>>

\* Mutant of Write: the decision is saved without who took it.
WriteUnsigned(u) ==
  SetDonation(u, Written(donation, loaded[u], columns[u] \ {"decidedByUserId"}))

Write(u) ==
  /\ RowAllowed(Written(donation, loaded[u], columns[u]))
  /\ SetDonation(u, Written(donation, loaded[u], columns[u]))

WriteRefused(u) ==
  /\ deciding[u] = "write"
  /\ ~RowAllowed(Written(donation, loaded[u], columns[u]))
  /\ End(u)
  /\ UNCHANGED <<donation, mails>>

\* The mail says what this request decided (`saved` is its entity), not what
\* the row says by now.
NotifyDecided(u) ==
  /\ deciding[u] = "notify"
  /\ Send(loaded[u].status)
  /\ End(u)
  /\ UNCHANGED donation

\* A query fails or the connection breaks.
Fail(u) ==
  /\ deciding[u] # "idle"
  /\ End(u)
  /\ UNCHANGED <<donation, mails>>

-----------------------------------------------------------------------------
MonetaryNext ==
  \/ Declare \/ UploadReceipt \/ InsertDeclared \/ NotifyDeclared \/ FailDeclare
  \/ \E u \in Deciders :
       \/ Confirm(u) \/ Reject(u)
       \/ Save(u) \/ Write(u) \/ WriteRefused(u) \/ NotifyDecided(u) \/ Fail(u)

MonetarySpec == MonetaryInit /\ [][MonetaryNext]_monetaryVars

-----------------------------------------------------------------------------
(* Properties.                                                             *)

IsDecided(status) == status \in {"confirmada", "rechazada"}

\* The donor hears of a decision only once it is in the row, and what the donor
\* heard is what the row says for good, unless an overtaken decision replaced it:
\* then the row is still decided.
MailAfterDecision ==
  \A s \in mails \ {"declarada"} :
    donation.status = s \/ (replaced /\ IsDecided(donation.status))

\* "Estados terminales: una vez que la organización se expidió, la donación no se
\* vuelve a tocar" (decidida.state.ts), whatever the requests that come later: what
\* does touch it is the save of somebody who read it before it was decided.
DecidedIsFinal ==
  [][IsDecided(donation.status) /\ donation' # donation
     => \E u \in overtaken : deciding[u] = "write" /\ deciding'[u] = "notify"]_monetaryVars

\* Whoever wins, a decided donation says who decided, and a pending one says
\* nobody did: the overlapping saves may mix columns, never drop the trace.
DecisionIsSigned ==
  IsDecided(donation.status) <=> donation.decidedByUserId # NoDecider

=============================================================================
