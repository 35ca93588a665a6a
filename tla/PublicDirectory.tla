--------------------------- MODULE PublicDirectory ---------------------------
(***************************************************************************)
(* The public directory (public.service.ts) over the organizations of      *)
(* OrganizationLifecycle: the page of one organization, the list of        *)
(* organizations and the feed of needs, as one visitor goes through them   *)
(* while the organization's people and admins work.  Visitors share        *)
(* nothing, so one is enough; the filters of a query only narrow what is   *)
(* listed and are left out.                                                *)
(*                                                                         *)
(* The directory's queries say in SQL what the services say in TypeScript  *)
(* when they are asked for a donation or a volunteer; both are here.       *)
(***************************************************************************)
EXTENDS OrganizationLifecycle, Sequences, SequencesExt

CONSTANTS
  Ours,      \* the organization that is visited
  Rows,      \* what it offers: needs, activities, events, points...
  LastDay,   \* bound on the days that go by
  PageSize   \* of the feed (12 unless the query asks for less or up to 24)

ASSUME DirectoryAssumption ==
  /\ Ours \in Orgs
  /\ IsFiniteSet(Orgs) /\ IsFiniteSet(Rows)
  /\ LastDay \in Nat \ {0} /\ PageSize \in Nat \ {0}

VARIABLES
  topic,      \* which of the things it offers are looked at
  offer,      \* the rows of that
  seeks,      \* seeksVolunteers
  today,      \* the day in Argentina
  vpc,        \* where the visitor's request is
  seeing,     \* seeksVolunteers, as the request read it
  shown,      \* what the page of the organization offers, or its summary counts
  total,      \* what the list says there is
  page,       \* the pages the visitor has asked for
  feed,       \* and what they brought, in their order
  quiet       \* nothing changed since the first page (history)

offerVars == <<topic, offer, seeks, today>>
visitVars == <<vpc, seeing, shown, total, page, feed>>
directoryVars == <<vars, offerVars, visitVars, quiet>>

-----------------------------------------------------------------------------
(* What is offered: the columns that matter of each kind of row.           *)

NeedRow == [closedManually : BOOLEAN, coveredQuantity : 0 .. 1, requiredQuantity : {1},
            deadline : 1 .. LastDay]
ActivityRow == [status : {"open", "closed", "cancelled"}, acceptedCount : 0 .. 1, capacity : {1}]
EventRow == [active : BOOLEAN, periodic : BOOLEAN, startDate : 1 .. LastDay]
ActiveRow == [active : BOOLEAN]   \* collection points, kinds of volunteering

Columns ==
  [needs |-> NeedRow, activities |-> ActivityRow, events |-> EventRow,
   points |-> ActiveRow, types |-> ActiveRow]

PublicTypeOK ==
  /\ topic \in DOMAIN Columns
  /\ offer \in [Rows -> Columns[topic]]
  /\ seeks \in BOOLEAN
  /\ today \in 1 .. LastDay
  /\ vpc \in {"away", "guarded", "reading", "organizations", "count", "rows", "listed"}
  /\ seeing \in BOOLEAN
  /\ shown \subseteq Rows
  /\ total \in 0 .. Cardinality(Rows \cup Orgs)
  /\ page \in {0, 1} \cup 1 .. Cardinality(Rows)
  /\ feed \in Seq(Rows)
  /\ quiet \in BOOLEAN

\* Mutant of OPEN_NEED: the day of the deadline is left out.
OpenNeedBefore(n) ==
  /\ ~n.closedManually
  /\ n.coveredQuantity < n.requiredQuantity
  /\ n.deadline > today

OPEN_NEED(n) ==
  /\ ~n.closedManually
  /\ n.coveredQuantity < n.requiredQuantity
  /\ n.deadline >= today

OPEN_OPPORTUNITY(o) == o.status = "open" /\ o.acceptedCount < o.capacity

\* Active, and not an extraordinary event that is over.
OfferedEvent(e) == e.active /\ (e.periodic \/ e.startDate >= today)

\* What the queries of the page let through; those about volunteering are made
\* only if the organization was seeking volunteers when the request read it.
Offered(r) ==
  CASE topic = "needs" -> OPEN_NEED(offer[r])
    [] topic = "activities" -> seeing /\ OPEN_OPPORTUNITY(offer[r])
    [] topic = "types" -> seeing /\ offer[r].active
    [] topic = "events" -> OfferedEvent(offer[r])
    [] topic = "points" -> offer[r].active

\* What the services ask before they take a donation, an application or a
\* request: isNeedClosed, isOpportunityOpen, the type that is active.
IsNeedClosed(n) ==
  n.closedManually \/ n.coveredQuantity >= n.requiredQuantity \/ n.deadline < today

IsOpportunityOpen(o) == o.status = "open" /\ o.capacity > o.acceptedCount

TakenByTheService(r) ==
  CASE topic = "needs" -> ~IsNeedClosed(offer[r])
    [] topic = "activities" -> IsOpportunityOpen(offer[r])
    [] topic = "types" -> offer[r].active
    [] OTHER -> TRUE

-----------------------------------------------------------------------------
PublicInit ==
  /\ Init
  /\ topic \in DOMAIN Columns
  /\ offer \in [Rows -> Columns[topic]]
  /\ seeks = FALSE
  /\ today = 1
  /\ vpc = "away"
  /\ seeing = FALSE
  /\ shown = {}
  /\ total = 0 /\ page = 0
  /\ feed = <<>>
  /\ quiet = FALSE

IsPublic(o) == org[o].status = "validated"

\* The organization's people change what they offer, as the other modules say.
ChangeRow(r) ==
  /\ \E c \in Columns[topic] : offer' = [offer EXCEPT ![r] = c]
  /\ quiet' = (quiet /\ offer' = offer)
  /\ UNCHANGED <<vars, topic, seeks, today, visitVars>>

\* The owner edits the profile; while the organization is validated that leaves
\* its status alone.
ChangeProfile ==
  /\ topic \in {"activities", "types"}
  /\ IsPublic(Ours)
  /\ seeks' = ~seeks
  /\ UNCHANGED <<vars, topic, offer, today, visitVars, quiet>>

NextDay ==
  /\ today < LastDay
  /\ today' = today + 1
  /\ quiet' = FALSE
  /\ UNCHANGED <<vars, topic, offer, seeks, visitVars>>

Leave ==
  /\ vpc \in {"reading", "listed"}
  /\ vpc' = "away"
  /\ seeing' = FALSE
  /\ shown' = {}
  /\ total' = 0 /\ page' = 0
  /\ feed' = <<>>
  /\ quiet' = FALSE
  /\ UNCHANGED <<vars, offerVars>>

-----------------------------------------------------------------------------
(* The page of the organization.                                           *)

\* Mutant of GetOrganization: a page for any organization that exists.
GetAnyOrganization ==
  /\ vpc = "away"
  /\ org[Ours].status # "absent"
  /\ vpc' = "guarded"
  /\ seeing' = seeks
  /\ UNCHANGED <<vars, offerVars, shown, total, page, feed, quiet>>

\* The guard, and the columns of the organization that the answer repeats.  An
\* organization that does not exist and one that is not validated are a 404.
GetOrganization ==
  /\ vpc = "away"
  /\ IsPublic(Ours)
  /\ vpc' = "guarded"
  /\ seeing' = seeks
  /\ UNCHANGED <<vars, offerVars, shown, total, page, feed, quiet>>

\* The queries run at the same time, each over its own table.
QueryOffers ==
  /\ vpc = "guarded"
  /\ vpc' = "reading"
  /\ shown' = {r \in Rows : Offered(r)}
  /\ UNCHANGED <<vars, offerVars, seeing, total, page, feed, quiet>>

-----------------------------------------------------------------------------
(* The list of organizations, with how many open needs each has.           *)

Listed == IF IsPublic(Ours) THEN {r \in Rows : OPEN_NEED(offer[r])} ELSE {}

CountOrganizations ==
  /\ topic = "needs"
  /\ vpc = "away"
  /\ vpc' = "organizations"
  /\ total' = Cardinality({o \in Orgs : IsPublic(o)})
  /\ UNCHANGED <<vars, offerVars, seeing, shown, page, feed, quiet>>

\* The join brings the needs that openNeedsCount counts.
ReadOrganizations ==
  /\ vpc = "organizations"
  /\ vpc' = "reading"
  /\ shown' = Listed
  /\ UNCHANGED <<vars, offerVars, seeing, total, page, feed, quiet>>

-----------------------------------------------------------------------------
(* The feed of needs, page by page.  Each page counts and then reads.      *)

AskFeed ==
  /\ topic = "needs"
  /\ \/ vpc = "away" /\ quiet' = TRUE
     \/ vpc = "listed" /\ page * PageSize < total /\ UNCHANGED quiet
  /\ vpc' = "count"
  /\ page' = page + 1
  /\ UNCHANGED <<vars, offerVars, seeing, shown, total, feed>>

CountFeed ==
  /\ vpc = "count"
  /\ vpc' = "rows"
  /\ total' = Cardinality(Listed)
  /\ UNCHANGED <<vars, offerVars, seeing, shown, page, feed, quiet>>

\* ORDER BY deadline: rows of the same day come in any order, and in another one
\* for the next page.
InOrder(s) == \A i, j \in DOMAIN s : i < j => offer[s[i]].deadline <= offer[s[j]].deadline

\* LIMIT and OFFSET.
Slice(s, offset) ==
  SubSeq(s, offset + 1, IF offset + PageSize < Len(s) THEN offset + PageSize ELSE Len(s))

\* Mutant of Page: pages are counted from zero.
PageFromZero(s) == Slice(s, page * PageSize)

Page(s) == Slice(s, (page - 1) * PageSize)

ReadFeed ==
  /\ vpc = "rows"
  /\ vpc' = "listed"
  /\ \E s \in SetToSeqs(Listed) : InOrder(s) /\ feed' = feed \o Page(s)
  /\ UNCHANGED <<vars, offerVars, seeing, shown, total, page, quiet>>

-----------------------------------------------------------------------------
Visit == GetOrganization \/ QueryOffers \/ CountOrganizations \/ ReadOrganizations
         \/ AskFeed \/ CountFeed \/ ReadFeed \/ Leave

PublicNext ==
  \/ Next /\ quiet' = (quiet /\ org' = org) /\ UNCHANGED <<offerVars, visitVars>>
  \/ (\E r \in Rows : ChangeRow(r)) \/ ChangeProfile \/ NextDay
  \/ Visit

PublicSpec == PublicInit /\ [][PublicNext]_directoryVars

-----------------------------------------------------------------------------
(* Properties.                                                             *)

\* "El directorio publico muestra solo organizaciones validated": what a visitor
\* has on screen, or is about to, is of an organization that is validated still,
\* although nobody looks again after the guard.  It rests on the review: nothing
\* undoes a validation but an edit that writes over it.
PublishedIsValidated ==
  /\ PublicTypeOK
  /\ vpc = "guarded" \/ shown # {} \/ feed # <<>> =>
       IsPublic(Ours) \/ Ours \in overwritten

\* "Mismo criterio que isNeedClosed, repetido en SQL": the page offers, and
\* the list counts, what the services would take at that moment, to the day and
\* the unit; and no need that they would take is missing.
PageAgrees ==
  [][vpc # "reading" /\ vpc' = "reading" =>
       /\ \A r \in shown' : TakenByTheService(r)
       /\ topic = "needs" /\ IsPublic(Ours) =>
            {r \in Rows : TakenByTheService(r)} \subseteq shown']_directoryVars

\* The visitor has gone through the whole feed.
FeedRead == vpc = "listed" /\ page * PageSize >= total

NoTies == \A r, s \in Listed : r # s => offer[r].deadline # offer[s].deadline

\* Page after page, while nothing changes and no two needs end the same day,
\* every open need comes by once, and the total is right.
FeedIsWhole ==
  FeedRead /\ quiet /\ NoTies =>
    /\ total = Cardinality(Listed)
    /\ ToSet(feed) = Listed /\ IsInjective(feed)
=============================================================================
