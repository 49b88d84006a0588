------------------------------- MODULE Backlog -------------------------------
(***************************************************************************)
(* The Trello backlog bridge and the GitHub intake: work items become      *)
(* Issues (orchestration/backlog.py over backlog_links), Issues become     *)
(* tasks (orchestration/intake.py), and each task keeps the provenance it  *)
(* had when it was saved (sqlite.py save, backlog_sqlite.py                *)
(* reconciliation_origin).  Several processes - pool, run, sync-backlog -  *)
(* do this at once, and any of them may stop between two steps.            *)
(*                                                                         *)
(* A work item is reduced to its place in the listing and to the route its *)
(* card has now: the registered project, and so the repository, it names,  *)
(* or "none" when the card is not eligible (READY label, open, in a Sprint *)
(* list, dependencies checked) or routed nowhere.                          *)
(*                                                                         *)
(* A pass reads its cards, then treats one after the other; an error ends  *)
(* it and the cards after the failing one wait for another pass.  pc of a  *)
(* synchronizing process:                                                  *)
(*   idle     reserve  insert the link row  linked   read the link         *)
(*   search   look for the marker           recheck  read the card again   *)
(*   begin    RESERVED -> POSTING           post     create the Issue      *)
(*   complete record the Issue in the link                                 *)
(***************************************************************************)
EXTENDS Naturals, FiniteSets, Sequences

CONSTANTS
    Cards,     \* number of cards; the listing keeps their order
    Route,     \* registered projects: each has a repository of its own
    Sync,      \* processes that reconcile the backlog
    Periodic,  \* the ones that reconcile all of it, the others one card
    Start      \* bound: the cards at first, and how many events may follow:
               \* crashes, failed requests, edits of cards, Issues that
               \* people open or close

ASSUME BacklogAssumption ==
    /\ Cards \in Nat \ {0} /\ Periodic \subseteq Sync /\ "none" \notin Route
    /\ Start \subseteq [card : [1..Cards -> Route \union {"none"}], left : Nat]

VARIABLES
    card,          \* the route of each card now; "none": not eligible
    link, route, number, \* backlog_links: state, repository, issue_number
    issues,        \* remote Issues in creation order: marker, repository
    visible,       \* the ones the provider's listing shows
    closed,        \* the ones that are closed, or not labelled factory-ready
    origin,        \* tasks by issue: reconciliation_origin
    pc, item, seen, issue, \* the synchronizing processes
    checked,       \* Issues that some intake found without a task
    left           \* unspent part of the bound

links == <<link, route, number>>
syncing == <<pc, item, seen, issue>>
remote == <<issues, visible, closed>>
vars == <<card, links, remote, origin, syncing, checked, left>>

Item == 1..Cards
Nobody == 0
RouteOrNone == Route \union {"none"}
Reading == [Item -> RouteOrNone]

(* An Issue's number is its place in issues, whatever its repository. *)
Issue == [by : Item \union {Nobody}, at : Route]

Steps == {"idle", "reserve", "linked", "search", "recheck", "begin", "post",
          "complete"}

TypeOK ==
    /\ card \in Reading
    /\ link \in [Item -> {"none", "RESERVED", "POSTING", "MATERIALIZED"}]
    /\ route \in Reading
    /\ issues \in Seq(Issue) /\ visible \subseteq 1..Len(issues)
    /\ number \in [Item -> 0..Len(issues)]
    /\ \A i \in Item : /\ link[i] = "MATERIALIZED" <=> number[i] # 0
                       /\ link[i] = "none" <=> route[i] = "none"
    /\ closed \subseteq 1..Len(issues)
    /\ origin \in [1..Len(issues) -> {"none", "trello", "github-direct"}]
    /\ pc \in [Sync -> Steps] /\ item \in [Sync -> Item]
    /\ seen \in [Sync -> Reading]
    /\ issue \in [Sync -> 0..Len(issues)]
    /\ checked \subseteq 1..Len(issues)
    /\ left \in Nat

Unread == [i \in Item |-> "none"]

Init ==
    /\ \E start \in Start : card = start.card /\ left = start.left
    /\ link = [i \in Item |-> "none"] /\ number = [i \in Item |-> 0]
    /\ route = Unread
    /\ issues = <<>> /\ visible = {} /\ closed = {} /\ origin = <<>> /\ checked = {}
    /\ pc = [p \in Sync |-> "idle"] /\ item = [p \in Sync |-> 1]
    /\ seen = [p \in Sync |-> Unread] /\ issue = [p \in Sync |-> 0]

-----------------------------------------------------------------------------
(* BacklogMaterializationService.reconcile *)

(* Something the bound counts happens. *)
Event == left > 0 /\ left' = left - 1

Goto(p, step) == pc' = [pc EXCEPT ![p] = step]

At(p, step) ==
    /\ pc[p] = step
    /\ UNCHANGED <<card, checked>>

Local == UNCHANGED <<links, remote, origin, left>>

Stay == UNCHANGED <<item, seen, issue>>

(* The route the card in hand had when the pass read it. *)
Wanted(p) == seen[p][item[p]]

(* The pass is over, or an error ends it. *)
EndPass(p) ==
    /\ Goto(p, "idle")
    /\ item' = [item EXCEPT ![p] = 1]
    /\ seen' = [seen EXCEPT ![p] = Unread]
    /\ issue' = [issue EXCEPT ![p] = 0]

(* A pass that read these cards goes on with the first one after i that    *)
(* was eligible.                                                           *)
Eligible(reading, i) == {j \in Item : i < j /\ reading[j] # "none"}

GoOn(p, reading, i) ==
    LET rest == Eligible(reading, i) IN
    IF rest = {} THEN EndPass(p)
    ELSE /\ Goto(p, "reserve")
         /\ \E j \in rest : /\ \A k \in rest : j <= k
                            /\ item' = [item EXCEPT ![p] = j]
         /\ seen' = [seen EXCEPT ![p] = reading]
         /\ issue' = [issue EXCEPT ![p] = 0]

NextCard(p) == GoOn(p, seen[p], item[p])

(* A full pass reads every card of the listing before it treats the first  *)
(* (the readings are one step: each may be stale when its card is treated).*)
ListItems(p) ==
    /\ At(p, "idle")
    /\ GoOn(p, card, 0)
    /\ Local

(* A pass for one card: an event of the sprint, or --card-id.  Those of a   *)
(* process that also makes full passes are another process here.           *)
GetItem(p, i) ==
    /\ At(p, "idle")
    /\ card[i] # "none"
    /\ GoOn(p, [Unread EXCEPT ![i] = card[i]], 0)
    /\ Local

(* INSERT OR IGNORE; a row for another route is an error. *)
Reserve(p) ==
    /\ At(p, "reserve")
    /\ IF link[item[p]] = "none"
       THEN /\ link' = [link EXCEPT ![item[p]] = "RESERVED"]
            /\ route' = [route EXCEPT ![item[p]] = Wanted(p)]
       ELSE UNCHANGED <<link, route>>
    /\ IF route'[item[p]] = Wanted(p) THEN Goto(p, "linked") /\ Stay
                                       ELSE EndPass(p)
    /\ UNCHANGED <<number, remote, origin, left>>

(* Wrong variants: an undecided link is completed without its Issue; a     *)
(* pass ends where it should go on with the next card.                     *)
ReadLinkUndecided(p) ==
    /\ At(p, "linked")
    /\ IF link[item[p]] # "RESERVED" THEN NextCard(p)
                                     ELSE Goto(p, "search") /\ Stay
    /\ Local

ReadLinkBreaks(p) ==
    /\ At(p, "linked")
    /\ IF link[item[p]] = "MATERIALIZED" THEN EndPass(p)
                                         ELSE Goto(p, "search") /\ Stay
    /\ Local

ReadLink(p) ==
    /\ At(p, "linked")
    /\ IF link[item[p]] = "MATERIALIZED" THEN NextCard(p)
                                         ELSE Goto(p, "search") /\ Stay
    /\ Local

(* The Issue of the card in hand, and what a search for it finds. *)
Written(p) == [by |-> item[p], at |-> Wanted(p)]

(* The listed Issues of the wanted repository with the item's marker, open *)
(* or closed.                                                              *)
Marked(p) == {n \in visible : issues[n] = Written(p)}

(* More than one is an error. *)
Search(p) ==
    /\ At(p, "search")
    /\ IF Marked(p) = {} THEN Goto(p, "recheck") /\ Stay
       ELSE IF Cardinality(Marked(p)) = 1
       THEN /\ Goto(p, "complete")
            /\ issue' = [issue EXCEPT ![p] = CHOOSE n \in Marked(p) : TRUE]
            /\ UNCHANGED <<item, seen>>
       ELSE EndPass(p)
    /\ Local

(* The card is read again: still eligible, and for the same route. *)
Recheck(p) ==
    /\ At(p, "recheck")
    /\ IF card[item[p]] = Wanted(p) THEN Goto(p, "begin") /\ Stay
                                    ELSE NextCard(p)
    /\ Local

(* Wrong variant: an undecided write is begun again. *)
BeginWriteAgain(p) ==
    /\ At(p, "begin")
    /\ IF link[item[p]] \in {"RESERVED", "POSTING"} /\ route[item[p]] = Wanted(p)
       THEN /\ link' = [link EXCEPT ![item[p]] = "POSTING"]
            /\ Goto(p, "post") /\ Stay
       ELSE NextCard(p) /\ UNCHANGED link
    /\ UNCHANGED <<route, number, remote, origin, left>>

(* The compare-and-swap RESERVED -> POSTING; who loses it gives up. *)
BeginWrite(p) ==
    /\ At(p, "begin")
    /\ IF link[item[p]] = "RESERVED" /\ route[item[p]] = Wanted(p)
       THEN /\ link' = [link EXCEPT ![item[p]] = "POSTING"]
            /\ Goto(p, "post") /\ Stay
       ELSE NextCard(p) /\ UNCHANGED link
    /\ UNCHANGED <<route, number, remote, origin, left>>

(* The provider creates an Issue; its listing may lag behind. *)
Create(new) ==
    /\ issues' = Append(issues, new)
    /\ origin' = Append(origin, "none")
    /\ UNCHANGED <<visible, closed>>

Post(p) ==
    /\ At(p, "post") /\ Goto(p, "complete")
    /\ Create(Written(p))
    /\ issue' = [issue EXCEPT ![p] = Len(issues) + 1]
    /\ UNCHANGED <<item, seen, links, left>>

(* The request fails, or it succeeds and the answer is lost. *)
PostFails(p) ==
    /\ Event
    /\ At(p, "post") /\ EndPass(p)
    /\ Create(Written(p)) \/ UNCHANGED <<remote, origin>>
    /\ UNCHANGED links

(* A link that is complete with this Issue is left alone; another Issue,   *)
(* or an Issue of another link, is an error.                               *)
Complete(p) ==
    LET i == item[p] IN
    /\ At(p, "complete")
    /\ IF /\ link[i] # "MATERIALIZED" /\ route[i] = Wanted(p)
          /\ \A j \in Item : number[j] # issue[p]
       THEN /\ link' = [link EXCEPT ![i] = "MATERIALIZED"]
            /\ number' = [number EXCEPT ![i] = issue[p]]
            /\ NextCard(p)
       ELSE /\ UNCHANGED <<link, number>>
            /\ IF number[i] = issue[p] /\ route[i] = Wanted(p)
               THEN NextCard(p) ELSE EndPass(p)
    /\ UNCHANGED <<route, remote, origin, left>>

(* The process stops, or a read fails: the rest is left to a later pass. *)
Abandon(p) ==
    /\ Event
    /\ pc[p] # "idle" /\ EndPass(p)
    /\ UNCHANGED <<card, links, remote, origin, checked>>

-----------------------------------------------------------------------------
(* IssueIntakeService.intake, for one listed Issue *)

(* The Issues the source lists: open and labelled. *)
ListOpenTasks == visible \ closed

(* An intake that found no task for the Issue saves one, however long that *)
(* takes it: the Issue stays in checked, and others may find it so, too.   *)
LookUp(n) ==
    /\ n \in ListOpenTasks \ checked
    /\ origin[n] = "none"
    /\ checked' = checked \union {n}
    /\ UNCHANGED <<card, links, remote, origin, syncing, left>>

(* The provenance that save records with the task. *)
Provenance(n) ==
    IF \E i \in Item : link[i] = "MATERIALIZED" /\ number[i] = n
    THEN "trello" ELSE "github-direct"

(* Wrong variant: a record is written again. *)
SaveAgain(n) ==
    /\ n \in checked
    /\ origin' = [origin EXCEPT ![n] = Provenance(n)]
    /\ UNCHANGED <<card, links, remote, syncing, checked, left>>

(* The unique source refuses a second task for the Issue. *)
Save(n) ==
    /\ n \in checked
    /\ origin' = [origin EXCEPT ![n] = IF @ = "none" THEN Provenance(n) ELSE @]
    /\ UNCHANGED <<card, links, remote, syncing, checked, left>>

(* reconciliation_origin: what the pool and the feedback go by.  A direct  *)
(* task whose Issue some link names has no usable provenance.              *)
ReconciliationOrigin(n) ==
    IF origin[n] = "github-direct" /\ (\E i \in Item : number[i] = n)
    THEN "none" ELSE origin[n]

-----------------------------------------------------------------------------
(* The providers and their users *)

OpenDirect ==
    /\ Event
    /\ \E r \in Route : Create([by |-> Nobody, at |-> r])
    /\ UNCHANGED <<card, links, syncing, checked>>

ListingCatchesUp ==
    /\ visible # DOMAIN issues
    /\ visible' = DOMAIN issues
    /\ UNCHANGED <<card, links, issues, closed, origin, syncing,
                   checked, left>>

CloseIssue ==
    /\ Event
    /\ \E n \in DOMAIN issues : closed' = closed \union {n}
    /\ UNCHANGED <<card, links, issues, visible, origin, syncing,
                   checked>>

(* A card is moved, labelled, given another project, or the reverse. *)
EditCard(i) ==
    /\ Event
    /\ \E r \in RouteOrNone \ {card[i]} : card' = [card EXCEPT ![i] = r]
    /\ UNCHANGED <<links, remote, origin, syncing, checked>>

-----------------------------------------------------------------------------

SyncStep(p) ==
    Reserve(p) \/ ReadLink(p) \/ Search(p) \/ Recheck(p) \/ BeginWrite(p)
        \/ Post(p) \/ PostFails(p) \/ Complete(p)

Next ==
    \/ \E p \in Periodic : ListItems(p)
    \/ \E p \in Sync \ Periodic, i \in Item : GetItem(p, i)
    \/ \E p \in Sync : SyncStep(p) \/ Abandon(p)
    \/ \E n \in DOMAIN issues : LookUp(n) \/ Save(n)
    \/ OpenDirect \/ ListingCatchesUp \/ CloseIssue
    \/ \E i \in Item : EditCard(i)

Spec == Init /\ [][Next]_vars

(* A periodic process starts a full pass again and again, whatever passes  *)
(* for one card come between, and a pass it started takes its steps.  That *)
(* a pass reaches a given card is not assumed, nor is anything of the      *)
(* other processes.  The provider's listing catches up.                    *)
Fairness ==
    /\ \A p \in Periodic : WF_vars(SyncStep(p)) /\ SF_vars(ListItems(p))
    /\ WF_vars(ListingCatchesUp)

FairSpec == Spec /\ Fairness

-----------------------------------------------------------------------------
(* Properties *)

(* A work item never gets two Issues, in one repository or in two, however *)
(* its card is re-routed, whatever is repeated, lost or killed and however *)
(* late the listing shows an Issue (the POSTING state, the repository in   *)
(* the link).                                                              *)
AtMostOneIssue ==
    \A i \in Item : Cardinality({n \in DOMAIN issues : issues[n].by = i}) <= 1

(* A link names the Issue that was created for its item, in the repository *)
(* it was reserved for, and a task counts as Trello work only if its Issue *)
(* was; Issues that people opened keep the direct route.                   *)
ProvenanceIsSound ==
    /\ \A i \in Item :
           number[i] # 0 => issues[number[i]] = [by |-> i, at |-> route[i]]
    /\ \A n \in DOMAIN issues :
           /\ ReconciliationOrigin(n) = "trello" => issues[n].by \in Item
           /\ issues[n].by = Nobody /\ origin[n] # "none" =>
                  ReconciliationOrigin(n) = "github-direct"

(* Neither the repository a link was reserved for, nor a complete link,    *)
(* nor a task's provenance is ever rewritten, by a late second writer or   *)
(* for a card that was re-routed in particular.                            *)
RecordsKept ==
    /\ \A i \in Item : /\ route[i] # "none" => route'[i] = route[i]
                       /\ number[i] # 0 => number'[i] = number[i]
    /\ \A n \in DOMAIN issues : origin[n] # "none" => origin'[n] = origin[n]

RecordsAreFinal == [][RecordsKept]_vars

(* The card was re-routed after its link was reserved: every full pass     *)
(* ends there with an error (backlog_sqlite.py reserve).                   *)
Rerouted(i) == card[i] # "none" /\ route[i] \notin {"none", card[i]}

(* No full pass reaches the card. *)
Blocked(i) == \E j \in 1..i : Rerouted(j)

(* An item has one Issue, and links and tasks tell which (backlog.py,      *)
(* backlog_sqlite.py, sqlite.py save).                                     *)
IssuesAreSound == AtMostOneIssue /\ ProvenanceIsSound

(* An eligible card gets its Issue and the Issue its link, over lost        *)
(* answers, crashes and the other cards the passes meet before it, unless  *)
(* it stops being eligible; its one write may be left undecided only while *)
(* no Issue of it exists, and only a re-routed card keeps the passes from  *)
(* it - its own, or one before it, for the error ends the pass (backlog.py *)
(* reconcile has no handler).                                              *)
MaterializationEnds ==
    \A i \in Item :
        [](card[i] # "none" =>
              <>(\/ link[i] = "MATERIALIZED"
                 \/ link[i] = "POSTING" /\ \A n \in DOMAIN issues : issues[n].by # i
                 \/ card[i] = "none"
                 \/ []Blocked(i)))

=============================================================================
