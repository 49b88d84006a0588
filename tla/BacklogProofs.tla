----------------------------- MODULE BacklogProofs -----------------------------
(***************************************************************************)
(* What holds of the backlog bridge for every number of cards, processes   *)
(* and intakes, every set of routes and every bound.                       *)
(*                                                                         *)
(* The argument: the link row is a token for the one write of its item.    *)
(* Nobody posts before the row is POSTING, only the winner of the compare- *)
(* and-swap RESERVED -> POSTING posts, and nothing leads back to RESERVED: *)
(* so while somebody is about to post, the item has no Issue (PostOnce).   *)
(* An Issue in hand and an Issue on a link carry the item's marker and lie *)
(* in the repository the link was reserved for (InHandIsOwn, LinkIsOwn),   *)
(* from which the provenance of tasks follows; so a card that is re-routed *)
(* gets no second Issue either.                                            *)
(***************************************************************************)
EXTENDS Backlog, TLAPS, FiniteSetTheorems

(* No Issue carries the item's marker. *)
Unwritten(i) == \A n \in DOMAIN issues : issues[n].by # i

(* The link row guards the item's only write. *)
PostOnce ==
    /\ \A i \in Item : link[i] \in {"none", "RESERVED"} => Unwritten(i)
    /\ \A p \in Sync : pc[p] = "post" =>
           link[item[p]] = "POSTING" /\ Unwritten(item[p])
    /\ \A p, q \in Sync :
           pc[p] = "post" /\ pc[q] = "post" /\ item[p] = item[q] => p = q

(* Two Issues of one item are one Issue. *)
MarkerIsUnique ==
    \A m, n \in DOMAIN issues :
        issues[m].by = issues[n].by /\ issues[m].by \in Item => m = n

(* A pass has only cards in hand that were eligible when it read them. *)
InHandWasEligible == \A p \in Sync : pc[p] # "idle" => Wanted(p) \in Route

(* A process about to complete a link holds the Issue of the card. *)
InHandIsOwn ==
    \A p \in Sync : pc[p] = "complete" =>
        issue[p] \in DOMAIN issues /\ issues[issue[p]] = Written(p)

(* A link names an Issue of its item, in the repository of the link. *)
LinkIsOwn ==
    \A i \in Item : number[i] # 0 =>
        number[i] \in DOMAIN issues /\ issues[number[i]] = [by |-> i, at |-> route[i]]

(* A task recorded as Trello work belongs to a materialized Issue. *)
OriginIsOwn == \A n \in DOMAIN issues : origin[n] = "trello" => issues[n].by \in Item

IInv == /\ TypeOK /\ PostOnce /\ MarkerIsUnique /\ InHandWasEligible /\ InHandIsOwn
        /\ LinkIsOwn /\ OriginIsOwn

-----------------------------------------------------------------------------
(* What the creation of an Issue does to the two tables by issue number    *)
(* (backlog.py, provider.create_issue).                                    *)
LEMMA CreateEffect ==
    ASSUME TypeOK, NEW new \in Issue, Create(new)
    PROVE  /\ issues' \in Seq(Issue) /\ Len(issues) \in Nat
           /\ Len(issues') = Len(issues) + 1
           /\ DOMAIN issues = 1..Len(issues)
           /\ DOMAIN issues' = 1..(Len(issues) + 1)
           /\ \A n \in 1..Len(issues) : issues'[n] = issues[n]
           /\ issues'[Len(issues) + 1] = new
           /\ origin' \in [1..Len(issues') -> {"none", "trello", "github-direct"}]
           /\ \A n \in 1..Len(issues) : origin'[n] = origin[n]
           /\ origin'[Len(issues) + 1] = "none"
           /\ UNCHANGED <<visible, closed>>
<1>1. issues \in Seq(Issue) /\ Len(issues) \in Nat
  BY DEF TypeOK
<1>2. issues' = Append(issues, new)
  BY DEF Create
<1>3. origin' = Append(origin, "none")
  BY DEF Create
<1>4. origin \in [1..Len(issues) -> {"none", "trello", "github-direct"}]
  BY DEF TypeOK
<1>5. /\ origin' \in [1..(Len(issues) + 1) -> {"none", "trello", "github-direct"}]
      /\ \A n \in 1..Len(issues) : origin'[n] = origin[n]
      /\ origin'[Len(issues) + 1] = "none"
  <2> DEFINE S == {"none", "trello", "github-direct"}
  <2>1. "none" \in S /\ origin \in [1..Len(issues) -> S]
    BY <1>4
  <2> HIDE DEF S
  <2>2. origin \in Seq(S) /\ Len(origin) = Len(issues)
    BY <1>1, <2>1
  <2>3. /\ origin' \in Seq(S) /\ Len(origin') = Len(issues) + 1
        /\ \A n \in 1..Len(issues) : origin'[n] = origin[n]
        /\ origin'[Len(issues) + 1] = "none"
    BY <1>1, <1>3, <2>1, <2>2
  <2>4. origin' \in [1..(Len(issues) + 1) -> S]
    BY <1>1, <2>3
  <2> QED
    BY <2>3, <2>4 DEF S
<1>6. /\ issues' \in Seq(Issue) /\ Len(issues') = Len(issues) + 1
      /\ DOMAIN issues = 1..Len(issues)
      /\ DOMAIN issues' = 1..(Len(issues) + 1)
      /\ \A n \in 1..Len(issues) : issues'[n] = issues[n]
      /\ issues'[Len(issues) + 1] = new
  BY <1>1, <1>2
<1> QED
  BY <1>1, <1>5, <1>6 DEF Create

(* The initial state satisfies the inductive invariant (empty tables).     *)
LEMMA InitIInv == Init => IInv
<1> SUFFICES ASSUME Init PROVE IInv
  OBVIOUS
<1> USE BacklogAssumption DEF Init
<1>1. TypeOK
  BY DEF TypeOK, Steps, Unread, Reading, RouteOrNone, Item
<1>2. /\ PostOnce /\ MarkerIsUnique /\ InHandWasEligible /\ InHandIsOwn
      /\ LinkIsOwn /\ OriginIsOwn
  BY DEF PostOnce, MarkerIsUnique, InHandWasEligible, InHandIsOwn, LinkIsOwn,
         OriginIsOwn, Unwritten
<1> QED
  BY <1>1, <1>2 DEF IInv

(* The other processes stay where they are. *)
Others(p) == \A q \in Sync \ {p} : /\ pc'[q] = pc[q] /\ item'[q] = item[q]
                                   /\ seen'[q] = seen[q] /\ issue'[q] = issue[q]

(* The processes keep their types, whatever the Issues then are. *)
HandsTyped == /\ pc' \in [Sync -> Steps] /\ item' \in [Sync -> Item]
              /\ seen' \in [Sync -> Reading] /\ issue' \in [Sync -> Nat]

(* A process goes on with a card, or ends its pass. *)
Moves(p) == /\ HandsTyped /\ Others(p) /\ issue'[p] = 0
            /\ pc'[p] \in {"idle", "reserve"}
            /\ pc'[p] = "reserve" => Wanted(p)' \in Route

(* What the end of a pass is to the processes (backlog.py reconcile).      *)
LEMMA EndPassMoves ==
    ASSUME TypeOK, NEW p \in Sync, EndPass(p)
    PROVE  Moves(p)
<1>1. Unread \in Reading /\ 1 \in Item
  BY BacklogAssumption DEF Unread, Reading, RouteOrNone, Item
<1>2. issue \in [Sync -> Nat]
  BY DEF TypeOK
<1> QED
  BY <1>1, <1>2 DEF TypeOK, EndPass, Goto, Moves, HandsTyped, Others, Steps

(* What taking up the next card is to the processes (the loop of           *)
(* backlog.py reconcile).                                                  *)
LEMMA GoOnMoves ==
    ASSUME TypeOK, NEW p \in Sync, NEW reading \in Reading, NEW i,
           GoOn(p, reading, i)
    PROVE  Moves(p)
<1>1. CASE EndPass(p)
  BY <1>1, EndPassMoves
<1>2. CASE ~ EndPass(p)
  <2>1. PICK j \in Item : reading[j] # "none" /\ item' = [item EXCEPT ![p] = j]
    BY <1>2 DEF GoOn, Eligible
  <2>2. /\ pc' = [pc EXCEPT ![p] = "reserve"]
        /\ seen' = [seen EXCEPT ![p] = reading]
        /\ issue' = [issue EXCEPT ![p] = 0]
    BY <1>2 DEF GoOn, Goto
  <2>3. issue \in [Sync -> Nat] /\ reading[j] \in Route
    BY <2>1 DEF TypeOK, Reading, RouteOrNone
  <2> QED
    BY <2>1, <2>2, <2>3 DEF TypeOK, Moves, HandsTyped, Others, Steps, Wanted
<1> QED
  BY <1>1, <1>2

(* So it is for the card after the one in hand.                            *)
LEMMA NextCardMoves ==
    ASSUME TypeOK, NEW p \in Sync, NextCard(p)
    PROVE  Moves(p)
BY GoOnMoves DEF NextCard, TypeOK

(* What a process keeps in hand when it goes to another step.              *)
LEMMA StaysInHand ==
    ASSUME TypeOK, NEW p \in Sync, NEW step \in Steps, Goto(p, step), Stay
    PROVE  /\ HandsTyped /\ Others(p) /\ pc'[p] = step
           /\ item'[p] = item[p] /\ Wanted(p)' = Wanted(p)
BY DEF TypeOK, Goto, Stay, HandsTyped, Others, Wanted

(* The link rows keep their types and their Issues, and no link goes back  *)
(* before its write.                                                       *)
LinksKept ==
    /\ link' \in [Item -> {"none", "RESERVED", "POSTING", "MATERIALIZED"}]
    /\ route' \in Reading /\ number' \in [Item -> 0..Len(issues)]
    /\ \A i \in Item : /\ link'[i] = "MATERIALIZED" <=> number'[i] # 0
                       /\ link'[i] = "none" <=> route'[i] = "none"
                       /\ link'[i] \in {"none", "RESERVED"} =>
                              link[i] \in {"none", "RESERVED"}
                       /\ number'[i] # 0 =>
                              /\ number'[i] \in DOMAIN issues
                              /\ issues[number'[i]] = [by |-> i, at |-> route'[i]]

(* A step of a process that creates no Issue and does not go to post       *)
(* preserves the invariant, if it keeps the link rows and takes no foreign *)
(* Issue in hand.                                                          *)
LEMMA StepKeeps ==
    ASSUME IInv, NEW p \in Sync, HandsTyped, Others(p), LinksKept,
           UNCHANGED <<card, remote, origin, checked>>, left' \in Nat,
           pc'[p] # "post", pc'[p] # "idle" => Wanted(p)' \in Route,
           issue'[p] \in 0..Len(issues),
           pc'[p] = "complete" =>
               issue'[p] \in DOMAIN issues /\ issues[issue'[p]] = Written(p)',
           \A q \in Sync \ {p} : pc[q] = "post" => link'[item[q]] = link[item[q]]
    PROVE  IInv'
<1> USE DEF IInv, remote
<1>1. issue' \in [Sync -> 0..Len(issues)]
  BY DEF TypeOK, HandsTyped, Others
<1>2. TypeOK'
  BY <1>1 DEF TypeOK, HandsTyped, LinksKept
<1>3. PostOnce'
  <2>1. \A i \in Item : Unwritten(i)' <=> Unwritten(i)
    BY DEF Unwritten
  <2>2. ASSUME NEW q \in Sync, pc'[q] = "post"
        PROVE  /\ q # p /\ pc[q] = "post" /\ item'[q] = item[q] /\ item[q] \in Item
               /\ link'[item[q]] = link[item[q]]
    BY <2>2 DEF Others, TypeOK
  <2>3. \A i \in Item : link'[i] \in {"none", "RESERVED"} => Unwritten(i)'
    BY <2>1 DEF PostOnce, LinksKept
  <2>4. ASSUME NEW q \in Sync, pc'[q] = "post"
        PROVE  link'[item'[q]] = "POSTING" /\ Unwritten(item[q])'
    <3>1. link[item[q]] = "POSTING" /\ Unwritten(item[q])
      BY <2>2, <2>4 DEF PostOnce
    <3> QED
      BY <2>2, <2>4, <3>1 DEF Unwritten
  <2>5. \A q, r \in Sync :
           pc'[q] = "post" /\ pc'[r] = "post" /\ item'[q] = item'[r] => q = r
    BY <2>2 DEF PostOnce
  <2> QED
    BY <2>3, <2>4, <2>5 DEF PostOnce, Unwritten
<1>4. InHandWasEligible'
  BY DEF InHandWasEligible, Wanted, Others
<1>5. InHandIsOwn'
  BY DEF InHandIsOwn, Written, Wanted, Others
<1>6. LinkIsOwn' /\ MarkerIsUnique' /\ OriginIsOwn'
  BY DEF LinkIsOwn, LinksKept, MarkerIsUnique, OriginIsOwn
<1> QED
  BY <1>2, <1>3, <1>4, <1>5, <1>6

(* The link rows that are not touched are kept.                            *)
LEMMA LinksUntouched ==
    ASSUME IInv, UNCHANGED links
    PROVE  LinksKept
BY DEF IInv, TypeOK, LinkIsOwn, LinksKept, links

(* A process that goes on or gives up, and touches no link, preserves the  *)
(* invariant (the continue statements and the errors of the loop).         *)
LEMMA MoveKeeps ==
    ASSUME IInv, NEW p \in Sync, Moves(p), left' \in Nat,
           UNCHANGED <<card, links, remote, origin, checked>>
    PROVE  IInv'
<1>1. LinksKept
  BY LinksUntouched
<1>2. issue'[p] \in 0..Len(issues)
  BY DEF Moves, IInv, TypeOK
<1> QED
  BY <1>1, <1>2, StepKeeps DEF Moves, links

(* So does one that goes to another step with the card in hand, unless it  *)
(* is about to post or to complete.                                        *)
LEMMA GotoKeeps ==
    ASSUME IInv, NEW p \in Sync, pc[p] # "idle", Stay, left' \in Nat,
           NEW step \in Steps \ {"idle", "post", "complete"}, Goto(p, step),
           UNCHANGED <<card, links, remote, origin, checked>>
    PROVE  IInv'
<1>1. LinksKept
  BY LinksUntouched
<1>2. /\ HandsTyped /\ Others(p) /\ pc'[p] = step /\ Wanted(p)' = Wanted(p)
  BY StaysInHand DEF IInv
<1>3. Wanted(p) \in Route /\ issue'[p] \in 0..Len(issues)
  BY DEF IInv, InHandWasEligible, Stay, TypeOK
<1> QED
  BY <1>1, <1>2, <1>3, StepKeeps DEF links

(* Creating an Issue in the provider keeps the invariant as long as it is  *)
(* unmarked or the item had none, and nobody is left to post for the item  *)
(* (backlog.py: the POST between begin_write and complete).                *)
LEMMA CreateKeeps ==
    ASSUME IInv, NEW new \in Issue, Create(new),
           UNCHANGED <<card, links, checked>>, left' \in Nat, HandsTyped,
           \A q \in Sync : issue'[q] \in 0..(Len(issues) + 1),
           new.by \in Item => Unwritten(new.by) /\ link[new.by] = "POSTING",
           \A q \in Sync : pc'[q] = "post" =>
               pc[q] = "post" /\ item'[q] = item[q] /\ item[q] # new.by,
           \A q \in Sync : pc'[q] # "idle" => Wanted(q)' \in Route,
           \A q \in Sync : pc'[q] = "complete" =>
               \/ pc[q] = "complete" /\ issue'[q] = issue[q] /\ Written(q)' = Written(q)
               \/ issue'[q] = Len(issues) + 1 /\ Written(q)' = new
    PROVE  IInv'
<1> USE DEF IInv, links
<1>1. /\ issues' \in Seq(Issue) /\ Len(issues) \in Nat
      /\ Len(issues') = Len(issues) + 1
      /\ DOMAIN issues = 1..Len(issues)
      /\ DOMAIN issues' = 1..(Len(issues) + 1)
      /\ \A n \in 1..Len(issues) : issues'[n] = issues[n]
      /\ issues'[Len(issues) + 1] = new
      /\ origin' \in [1..Len(issues') -> {"none", "trello", "github-direct"}]
      /\ \A n \in 1..Len(issues) : origin'[n] = origin[n]
      /\ origin'[Len(issues) + 1] = "none"
      /\ UNCHANGED <<visible, closed>>
  BY CreateEffect
<1>2. TypeOK'
  <2>1. issue' \in [Sync -> 0..Len(issues')]
    BY <1>1 DEF HandsTyped
  <2>2. number' \in [Item -> 0..Len(issues')]
    BY <1>1 DEF TypeOK
  <2> QED
    BY <1>1, <2>1, <2>2 DEF TypeOK, HandsTyped
<1>3. ASSUME NEW i \in Item, i # new.by, Unwritten(i) PROVE Unwritten(i)'
  BY <1>1, <1>3 DEF Unwritten
<1>4. PostOnce'
  <2>1. \A i \in Item : link'[i] \in {"none", "RESERVED"} => Unwritten(i)'
    BY <1>3 DEF PostOnce
  <2>2. ASSUME NEW q \in Sync, pc'[q] = "post"
        PROVE  link'[item'[q]] = "POSTING" /\ Unwritten(item[q])'
    <3>1. /\ item'[q] = item[q] /\ item[q] # new.by /\ item[q] \in Item
          /\ link[item[q]] = "POSTING" /\ Unwritten(item[q])
      BY <2>2 DEF PostOnce, TypeOK
    <3> QED
      BY <1>3, <3>1 DEF Unwritten
  <2>3. \A q, r \in Sync :
           pc'[q] = "post" /\ pc'[r] = "post" /\ item'[q] = item'[r] => q = r
    BY DEF PostOnce
  <2> QED
    BY <2>1, <2>2, <2>3 DEF PostOnce, Unwritten
<1>5. MarkerIsUnique'
  BY <1>1 DEF MarkerIsUnique, Unwritten
<1>6. InHandWasEligible' /\ InHandIsOwn'
  BY <1>1 DEF InHandWasEligible, InHandIsOwn
<1>7. LinkIsOwn'
  BY <1>1 DEF LinkIsOwn
<1>8. OriginIsOwn'
  BY <1>1 DEF OriginIsOwn
<1> QED
  BY <1>2, <1>4, <1>5, <1>6, <1>7, <1>8

(* An event leaves the bound a number. *)
LEMMA EventCounts == ASSUME TypeOK, Event PROVE left' \in Nat
BY DEF TypeOK, Event

(* The Issue a process with a card in hand would write.                    *)
LEMMA WrittenIs ==
    ASSUME IInv, NEW p \in Sync, pc[p] # "idle"
    PROVE  /\ Written(p) \in Issue /\ item[p] \in Item /\ Wanted(p) \in Route
           /\ Written(p) = [by |-> item[p], at |-> Wanted(p)]
BY DEF IInv, InHandWasEligible, Written, Issue, TypeOK

(* Every step of a process that reconciles the backlog preserves the       *)
(* inductive invariant (backlog.py reconcile, backlog_sqlite.py).          *)
LEMMA SyncKeeps ==
    ASSUME IInv, NEW p \in Sync,
           \/ ListItems(p) \/ SyncStep(p) \/ Abandon(p)
           \/ \E i \in Item : GetItem(p, i)
    PROVE  IInv'
<1> USE DEF IInv
<1>0. /\ issues \in Seq(Issue) /\ Len(issues) \in Nat /\ left \in Nat
      /\ DOMAIN issues = 1..Len(issues)
  BY DEF TypeOK
<1>1. CASE ListItems(p)
  BY <1>0, <1>1, GoOnMoves, MoveKeeps DEF ListItems, At, Local, TypeOK
<1>2. ASSUME NEW i \in Item, GetItem(p, i) PROVE IInv'
  <2>1. [Unread EXCEPT ![i] = card[i]] \in Reading
    BY DEF Unread, Reading, RouteOrNone, TypeOK
  <2> QED
    BY <1>0, <1>2, <2>1, GoOnMoves, MoveKeeps DEF GetItem, At, Local
<1>3. CASE Reserve(p)
  <2>1. /\ Wanted(p) \in Route /\ item[p] \in Item /\ pc[p] # "idle"
    BY <1>3, WrittenIs DEF Reserve, At
  <2>2. LinksKept
    <3>1. CASE /\ link[item[p]] = "none"
               /\ link' = [link EXCEPT ![item[p]] = "RESERVED"]
               /\ route' = [route EXCEPT ![item[p]] = Wanted(p)]
      <4>1. number[item[p]] = 0 /\ UNCHANGED number
        BY <1>3, <2>1, <3>1 DEF TypeOK, Reserve
      <4>2. /\ link \in [Item -> {"none", "RESERVED", "POSTING", "MATERIALIZED"}]
            /\ route \in Reading /\ number \in [Item -> 0..Len(issues)]
            /\ \A i \in Item : /\ link[i] = "MATERIALIZED" <=> number[i] # 0
                               /\ link[i] = "none" <=> route[i] = "none"
        BY DEF TypeOK
      <4>3. Wanted(p) # "none" /\ route' \in Reading
        BY <2>1, <3>1, <4>2, BacklogAssumption DEF Reading, RouteOrNone
      <4>4. \A i \in Item \ {item[p]} : link'[i] = link[i] /\ route'[i] = route[i]
        BY <3>1, <4>2 DEF Reading
      <4>5. link'[item[p]] = "RESERVED" /\ route'[item[p]] = Wanted(p)
        BY <2>1, <3>1, <4>2 DEF Reading
      <4>6. link' \in [Item -> {"none", "RESERVED", "POSTING", "MATERIALIZED"}]
        BY <3>1, <4>2
      <4>7. ASSUME NEW i \in Item
            PROVE  /\ link'[i] = "MATERIALIZED" <=> number'[i] # 0
                   /\ link'[i] = "none" <=> route'[i] = "none"
                   /\ link'[i] \in {"none", "RESERVED"} => link[i] \in {"none", "RESERVED"}
                   /\ number'[i] # 0 =>
                          /\ number'[i] \in DOMAIN issues
                          /\ issues[number'[i]] = [by |-> i, at |-> route'[i]]
        <5>1. CASE i = item[p]
          BY <3>1, <4>1, <4>3, <4>5, <5>1
        <5>2. CASE i # item[p]
          BY <4>1, <4>2, <4>4, <5>2 DEF LinkIsOwn
        <5> QED
          BY <5>1, <5>2
      <4> QED
        BY <4>1, <4>2, <4>3, <4>6, <4>7 DEF LinksKept
    <3>2. CASE UNCHANGED <<link, route>>
      BY <1>3, <3>2, LinksUntouched DEF Reserve, links
    <3> QED
      BY <1>3, <3>1, <3>2 DEF Reserve
  <2>3. \A q \in Sync \ {p} : pc[q] = "post" => link'[item[q]] = link[item[q]]
    BY <1>3, <2>1 DEF Reserve, PostOnce, TypeOK
  <2>4. UNCHANGED <<card, remote, origin, checked>> /\ left' \in Nat
    BY <1>0, <1>3 DEF Reserve, At
  <2>5. CASE Goto(p, "linked") /\ Stay
    <3>1. /\ HandsTyped /\ Others(p) /\ pc'[p] = "linked" /\ Wanted(p)' = Wanted(p)
      BY <2>5, StaysInHand DEF Steps
    <3>2. issue'[p] \in 0..Len(issues)
      BY <2>5 DEF Stay, TypeOK
    <3> QED
      BY <2>1, <2>2, <2>3, <2>4, <3>1, <3>2, StepKeeps
  <2>6. CASE EndPass(p)
    <3>1. Moves(p)
      BY <2>6, EndPassMoves
    <3> QED
      BY <1>0, <2>2, <2>3, <2>4, <3>1, StepKeeps DEF Moves
  <2> QED
    BY <1>3, <2>5, <2>6 DEF Reserve
<1>4. CASE ReadLink(p) \/ Recheck(p)
  <2>1. /\ pc[p] # "idle"
        /\ NextCard(p) \/ ((\E step \in {"search", "begin"} : Goto(p, step)) /\ Stay)
        /\ UNCHANGED <<card, links, remote, origin, checked, left>>
    BY <1>4 DEF ReadLink, Recheck, At, Local
  <2> QED
    BY <1>0, <2>1, NextCardMoves, MoveKeeps, GotoKeeps DEF Steps
<1>5. CASE Search(p)
  <2>1. /\ pc[p] # "idle"
        /\ UNCHANGED <<card, links, remote, origin, checked, left>>
    BY <1>5 DEF Search, At, Local
  <2>2. CASE Goto(p, "recheck") /\ Stay
    BY <1>0, <2>1, <2>2, GotoKeeps DEF Steps
  <2>3. CASE EndPass(p)
    BY <1>0, <2>1, <2>3, EndPassMoves, MoveKeeps
  <2>4. CASE /\ Goto(p, "complete") /\ Marked(p) # {}
             /\ issue' = [issue EXCEPT ![p] = CHOOSE n \in Marked(p) : TRUE]
             /\ UNCHANGED <<item, seen>>
    <3>1. PICK n \in Marked(p) : issue' = [issue EXCEPT ![p] = n]
      BY <2>4
    <3>2. n \in DOMAIN issues /\ issues[n] = Written(p) /\ n \in Nat
      BY <1>0, <3>1 DEF Marked, TypeOK
    <3>3. issue \in [Sync -> Nat] /\ pc \in [Sync -> Steps] /\ "complete" \in Steps
      BY DEF TypeOK, Steps
    <3>4. HandsTyped
      BY <2>4, <3>1, <3>2, <3>3 DEF TypeOK, Goto, HandsTyped
    <3>5. /\ Others(p) /\ pc'[p] = "complete" /\ issue'[p] = n
      BY <2>4, <3>1, <3>3 DEF Goto, Others
    <3>6. Wanted(p)' = Wanted(p) /\ Written(p)' = Written(p)
      BY <2>4 DEF Wanted, Written
    <3>7. Wanted(p) \in Route /\ issue'[p] \in 0..Len(issues) /\ UNCHANGED issues
      BY <1>0, <2>1, <3>2, <3>5, WrittenIs DEF remote
    <3> QED
      BY <1>0, <2>1, <3>2, <3>4, <3>5, <3>6, <3>7, LinksUntouched, StepKeeps DEF links
  <2> QED
    BY <1>5, <2>2, <2>3, <2>4 DEF Search
<1>6. CASE BeginWrite(p)
  <2>1. /\ pc[p] # "idle" /\ UNCHANGED <<card, remote, origin, checked, left>>
        /\ UNCHANGED <<route, number>>
    BY <1>6 DEF BeginWrite, At
  <2>2. CASE NextCard(p) /\ UNCHANGED link
    BY <1>0, <2>1, <2>2, NextCardMoves, MoveKeeps DEF links
  <2>3. CASE /\ link[item[p]] = "RESERVED" /\ Goto(p, "post") /\ Stay
             /\ link' = [link EXCEPT ![item[p]] = "POSTING"]
    <3>1. /\ HandsTyped /\ Others(p) /\ pc'[p] = "post" /\ item'[p] = item[p]
          /\ Wanted(p)' = Wanted(p)
      BY <2>3, StaysInHand DEF Steps
    <3>2. /\ item[p] \in Item /\ Unwritten(item[p])
          /\ \A q \in Sync : pc[q] = "post" => item[q] # item[p]
      BY <2>3 DEF PostOnce, TypeOK
    <3>3. /\ link' \in [Item -> {"none", "RESERVED", "POSTING", "MATERIALIZED"}]
          /\ link'[item[p]] = "POSTING"
          /\ \A i \in Item \ {item[p]} : link'[i] = link[i]
      BY <2>3, <3>2 DEF TypeOK
    <3>4. TypeOK'
      <4>1. \A i \in Item : /\ link'[i] = "MATERIALIZED" <=> number[i] # 0
                           /\ link'[i] = "none" <=> route[i] = "none"
        BY <2>3, <3>3 DEF TypeOK
      <4> QED
        BY <2>1, <2>3, <3>1, <3>3, <4>1 DEF TypeOK, HandsTyped, Stay, remote
    <3>5. PostOnce'
      <4>1. \A i \in Item : link'[i] \in {"none", "RESERVED"} => Unwritten(i)'
        BY <2>1, <3>3 DEF PostOnce, Unwritten, remote
      <4>2. ASSUME NEW q \in Sync, pc'[q] = "post"
            PROVE  /\ link'[item[q]] = "POSTING" /\ Unwritten(item[q])
                   /\ q = p \/ (pc[q] = "post" /\ item[q] # item[p])
        BY <3>1, <3>2, <3>3, <4>2 DEF PostOnce, Others, TypeOK
      <4>3. UNCHANGED <<item, issues>>
        BY <2>1, <2>3 DEF Stay, remote
      <4> QED
        BY <4>1, <4>2, <4>3 DEF PostOnce, Unwritten
    <3>6. InHandWasEligible'
      BY <2>1, <3>1, WrittenIs DEF InHandWasEligible, Others, Wanted
    <3>7. (MarkerIsUnique /\ InHandIsOwn /\ LinkIsOwn /\ OriginIsOwn)'
      BY <2>1, <3>1
         DEF MarkerIsUnique, InHandIsOwn, LinkIsOwn, OriginIsOwn, Others, Written,
             Wanted, remote
    <3> QED
      BY <3>4, <3>5, <3>6, <3>7
  <2> QED
    BY <1>6, <2>2, <2>3 DEF BeginWrite
<1>7. ASSUME pc[p] = "post", left' \in Nat, UNCHANGED <<card, links, checked>>,
             Create(Written(p)),
             \/ Moves(p)
             \/ /\ Goto(p, "complete") /\ issue' = [issue EXCEPT ![p] = Len(issues) + 1]
                /\ UNCHANGED <<item, seen>>
      PROVE  IInv'
  <2>1. Written(p) \in Issue /\ Written(p).by = item[p] /\ Wanted(p) \in Route
    BY <1>7, WrittenIs
  <2>2. /\ HandsTyped /\ Others(p) /\ pc'[p] # "post" /\ issue'[p] \in 0..(Len(issues) + 1)
        /\ pc'[p] # "idle" => Wanted(p)' \in Route
        /\ pc'[p] = "complete" => issue'[p] = Len(issues) + 1 /\ Written(p)' = Written(p)
    <3>1. CASE Moves(p)
      BY <1>0, <3>1 DEF Moves
    <3>2. CASE /\ Goto(p, "complete") /\ issue' = [issue EXCEPT ![p] = Len(issues) + 1]
               /\ UNCHANGED <<item, seen>>
      BY <1>0, <2>1, <3>2
         DEF Goto, HandsTyped, Others, Steps, Wanted, Written, TypeOK
    <3> QED
      BY <1>7, <3>1, <3>2
  <2>3. \A q \in Sync : issue'[q] \in 0..(Len(issues) + 1)
    BY <1>0, <2>2 DEF TypeOK, Others
  <2>4. Unwritten(item[p]) /\ link[item[p]] = "POSTING"
    BY <1>7 DEF PostOnce
  <2>5. \A q \in Sync : pc'[q] = "post" =>
               pc[q] = "post" /\ item'[q] = item[q] /\ item[q] # item[p]
    BY <1>7, <2>2 DEF Others, PostOnce
  <2>6. \A q \in Sync : pc'[q] # "idle" => Wanted(q)' \in Route
    BY <2>2 DEF InHandWasEligible, Others, Wanted
  <2>7. \A q \in Sync : pc'[q] = "complete" =>
               \/ pc[q] = "complete" /\ issue'[q] = issue[q] /\ Written(q)' = Written(q)
               \/ issue'[q] = Len(issues) + 1 /\ Written(q)' = Written(p)
    BY <2>2 DEF Others, Wanted, Written
  <2> QED
    BY <1>7, <2>1, <2>2, <2>3, <2>4, <2>5, <2>6, <2>7, CreateKeeps
<1>8. CASE Post(p)
  BY <1>0, <1>7, <1>8 DEF Post, At
<1>9. CASE PostFails(p)
  <2>1. Moves(p) /\ left' \in Nat
    BY <1>9, EndPassMoves, EventCounts DEF PostFails
  <2>2. CASE Create(Written(p))
    BY <1>7, <1>9, <2>1, <2>2 DEF PostFails, At
  <2>3. CASE UNCHANGED <<remote, origin>>
    BY <1>9, <2>1, <2>3, MoveKeeps DEF PostFails, At
  <2> QED
    BY <1>9, <2>2, <2>3 DEF PostFails
<1>10. CASE Complete(p)
  <2> DEFINE i == item[p]
  <2>1. /\ i \in Item /\ issue[p] \in DOMAIN issues /\ issue[p] # 0
        /\ issues[issue[p]] = [by |-> i, at |-> Wanted(p)]
    BY <1>0, <1>10 DEF Complete, At, InHandIsOwn, Written, TypeOK
  <2>2. UNCHANGED <<card, route, remote, origin, checked, left>>
    BY <1>10 DEF Complete, At
  <2>3. CASE UNCHANGED <<link, number>> /\ (NextCard(p) \/ EndPass(p))
    BY <1>0, <2>2, <2>3, NextCardMoves, EndPassMoves, MoveKeeps DEF links
  <2>4. CASE /\ route[i] = Wanted(p) /\ NextCard(p)
             /\ link' = [link EXCEPT ![i] = "MATERIALIZED"]
             /\ number' = [number EXCEPT ![i] = issue[p]]
    <3>1. Moves(p)
      BY <2>4, NextCardMoves
    <3>2. /\ link' \in [Item -> {"none", "RESERVED", "POSTING", "MATERIALIZED"}]
          /\ number' \in [Item -> 0..Len(issues)] /\ link[i] # "none"
          /\ link'[i] = "MATERIALIZED" /\ number'[i] = issue[p]
          /\ \A j \in Item \ {i} : link'[j] = link[j] /\ number'[j] = number[j]
      <4>1. Wanted(p) # "none"
        BY <1>10, WrittenIs, BacklogAssumption DEF Complete, At
      <4> QED
        BY <1>0, <2>1, <2>4, <4>1 DEF TypeOK
    <3>3. ASSUME NEW j \in Item
          PROVE  /\ link'[j] = "MATERIALIZED" <=> number'[j] # 0
                 /\ link'[j] = "none" <=> route'[j] = "none"
                 /\ link'[j] \in {"none", "RESERVED"} => link[j] \in {"none", "RESERVED"}
                 /\ number'[j] # 0 =>
                        /\ number'[j] \in DOMAIN issues
                        /\ issues[number'[j]] = [by |-> j, at |-> route'[j]]
      <4>1. CASE j = i
        BY <2>1, <2>2, <2>4, <3>2, <4>1 DEF TypeOK
      <4>2. CASE j # i
        BY <2>2, <3>2, <4>2 DEF TypeOK, LinkIsOwn
      <4> QED
        BY <4>1, <4>2
    <3>4. LinksKept
      BY <2>2, <3>2, <3>3 DEF LinksKept, TypeOK
    <3>5. \A q \in Sync \ {p} : pc[q] = "post" => link'[item[q]] = link[item[q]]
      <4>1. \A q \in Sync : pc[q] = "post" => item[q] # i /\ item[q] \in Item
        BY <2>1 DEF PostOnce, Unwritten, TypeOK
      <4> QED
        BY <3>2, <4>1
    <3> QED
      BY <1>0, <2>2, <3>1, <3>4, <3>5, StepKeeps DEF Moves
  <2> QED
    BY <1>10, <2>3, <2>4 DEF Complete
<1>11. CASE Abandon(p)
  BY <1>11, EndPassMoves, EventCounts, MoveKeeps DEF Abandon
<1> QED
  BY <1>1, <1>2, <1>3, <1>4, <1>5, <1>6, <1>8, <1>9, <1>10, <1>11 DEF SyncStep

(* Every step of every process preserves the inductive invariant.          *)
LEMMA NextIInv == IInv /\ [Next]_vars => IInv'
<1> SUFFICES ASSUME IInv, [Next]_vars PROVE IInv'
  OBVIOUS
<1> USE DEF IInv
<1> DEFINE Inv == /\ PostOnce /\ MarkerIsUnique /\ InHandWasEligible /\ InHandIsOwn
                  /\ LinkIsOwn
<1>0. /\ issues \in Seq(Issue) /\ Len(issues) \in Nat
      /\ DOMAIN issues = 1..Len(issues)
  BY DEF TypeOK
<1>1. ASSUME NEW p \in Sync, ListItems(p) \/ SyncStep(p) \/ Abandon(p)
      PROVE  IInv'
  BY <1>1, SyncKeeps
<1>2. ASSUME NEW p \in Sync, NEW i \in Item, GetItem(p, i) PROVE IInv'
  BY <1>2, SyncKeeps
<1>3. ASSUME UNCHANGED <<links, syncing, issues>> PROVE Inv'
  BY <1>3 DEF links, syncing, PostOnce, MarkerIsUnique, InHandWasEligible,
     InHandIsOwn, LinkIsOwn, Unwritten, Wanted, Written
<1>4. ASSUME NEW n \in DOMAIN issues, LookUp(n) PROVE IInv'
  <2> USE <1>4 DEF LookUp
  <2>1. TypeOK'
    BY <1>0 DEF TypeOK, links, syncing, remote
  <2>2. Inv'
    BY <1>3 DEF remote
  <2>3. OriginIsOwn'
    BY DEF OriginIsOwn, remote
  <2> QED
    BY <2>1, <2>2, <2>3
<1>5. ASSUME NEW n \in DOMAIN issues, Save(n) PROVE IInv'
  <2> USE <1>5 DEF Save
  <2>1. /\ Provenance(n) \in {"trello", "github-direct"}
        /\ Provenance(n) = "trello" => issues[n].by \in Item
    <3>1. n # 0
      BY <1>0
    <3>2. \A i \in Item : number[i] = n => issues[n] = [by |-> i, at |-> route[i]]
      BY <3>1 DEF LinkIsOwn
    <3> QED
      BY <3>2 DEF Provenance
  <2>2. TypeOK'
    BY <1>0, <2>1 DEF TypeOK, links, syncing, remote
  <2>3. Inv'
    BY <1>3 DEF remote
  <2>4. OriginIsOwn'
    BY <1>0, <2>1 DEF OriginIsOwn, TypeOK, remote
  <2> QED
    BY <2>2, <2>3, <2>4
<1>6. CASE OpenDirect
  <2>1. PICK r \in Route : Create([by |-> Nobody, at |-> r])
    BY <1>6 DEF OpenDirect
  <2>2. [by |-> Nobody, at |-> r] \in Issue /\ Nobody \notin Item
    BY DEF Issue, Nobody, Item
  <2>3. UNCHANGED <<card, links, syncing, checked>> /\ left' \in Nat
    BY <1>6, EventCounts DEF OpenDirect
  <2>4. HandsTyped /\ \A q \in Sync : issue'[q] \in 0..(Len(issues) + 1)
    BY <1>0, <2>3 DEF syncing, HandsTyped, TypeOK
  <2>5. \A q \in Sync : /\ pc'[q] = pc[q] /\ item'[q] = item[q] /\ issue'[q] = issue[q]
                        /\ item[q] \in Item
                        /\ Wanted(q)' = Wanted(q) /\ Written(q)' = Written(q)
    BY <2>3 DEF syncing, Wanted, Written, TypeOK
  <2> QED
    BY <2>1, <2>2, <2>3, <2>4, <2>5, CreateKeeps DEF InHandWasEligible
<1>7. CASE ListingCatchesUp \/ CloseIssue \/ \E i \in Item : EditCard(i)
  <2> DEFINE Effect ==
        /\ visible' \subseteq 1..Len(issues) /\ closed' \subseteq 1..Len(issues)
        /\ card' \in Reading /\ left' \in Nat
        /\ UNCHANGED <<links, syncing, issues, origin, checked>>
  <2>1. Effect
    <3>1. CASE ListingCatchesUp
      BY <1>0, <3>1 DEF ListingCatchesUp, TypeOK
    <3>2. CASE CloseIssue
      <4>1. PICK n \in 1..Len(issues) : closed' = closed \union {n}
        BY <1>0, <3>2 DEF CloseIssue
      <4> QED
        BY <3>2, <4>1, EventCounts DEF CloseIssue, TypeOK
    <3>3. ASSUME NEW i \in Item, EditCard(i) PROVE Effect
      BY <3>3, EventCounts DEF EditCard, remote, TypeOK, Reading
    <3> QED
      BY <1>7, <3>1, <3>2, <3>3
  <2>2. TypeOK'
    BY <2>1 DEF TypeOK, links, syncing
  <2>3. OriginIsOwn'
    BY <2>1 DEF OriginIsOwn
  <2> QED
    BY <1>3, <2>1, <2>2, <2>3
<1>8. CASE UNCHANGED vars
  <2>1. TypeOK' /\ OriginIsOwn'
    BY <1>8 DEF vars, remote, syncing, links, TypeOK, OriginIsOwn
  <2>2. Inv'
    BY <1>3, <1>8 DEF vars, remote
  <2> QED
    BY <2>1, <2>2
<1> QED
  BY <1>1, <1>2, <1>4, <1>5, <1>6, <1>7, <1>8, BacklogAssumption DEF Next

(* The invariant gives what the run checks: one Issue per item, and links  *)
(* and tasks that tell which (backlog.py, backlog_sqlite.py).              *)
LEMMA IInvSound == IInv => IssuesAreSound
<1> SUFFICES ASSUME IInv PROVE IssuesAreSound
  OBVIOUS
<1> USE DEF IInv
<1>1. ASSUME NEW i \in Item
      PROVE  Cardinality({n \in DOMAIN issues : issues[n].by = i}) <= 1
  <2> DEFINE own == {n \in DOMAIN issues : issues[n].by = i}
  <2>1. \A m, n \in own : m = n
    BY DEF MarkerIsUnique
  <2> HIDE DEF own
  <2>2. own = {} => Cardinality(own) <= 1
    BY FS_EmptySet
  <2>3. ASSUME own # {} PROVE Cardinality(own) <= 1
    <3>1. PICK n \in own : own = {n}
      BY <2>1, <2>3
    <3>2. Cardinality({n}) = 1
      BY FS_Singleton
    <3> QED
      BY <3>1, <3>2
  <2>4. Cardinality(own) <= 1
    BY <2>2, <2>3
  <2> QED
    BY <2>4 DEF own
<1>2. ASSUME NEW n \in DOMAIN issues
      PROVE  /\ ReconciliationOrigin(n) = "trello" => issues[n].by \in Item
             /\ issues[n].by = Nobody /\ origin[n] # "none" =>
                    ReconciliationOrigin(n) = "github-direct"
  <2>1. /\ origin[n] \in {"none", "trello", "github-direct"} /\ n # 0
        /\ Nobody \notin Item
    BY DEF TypeOK, Nobody, Item
  <2>2. issues[n].by = Nobody => \A i \in Item : number[i] # n
    <3>1. \A i \in Item : number[i] = n => issues[n] = [by |-> i, at |-> route[i]]
      BY <2>1 DEF LinkIsOwn
    <3> QED
      BY <2>1, <3>1
  <2>3. issues[n].by = Nobody => origin[n] # "trello"
    BY <2>1 DEF OriginIsOwn
  <2> QED
    BY <2>1, <2>2, <2>3 DEF ReconciliationOrigin, OriginIsOwn
<1> QED
  BY <1>1, <1>2 DEF IssuesAreSound, AtMostOneIssue, ProvenanceIsSound, LinkIsOwn

(* No step rewrites the repository of a link, a complete link or the       *)
(* provenance of a saved task (backlog_sqlite.py complete, sqlite.py save).*)
LEMMA FinalStep == ASSUME IInv, Next PROVE RecordsKept
<1> USE DEF IInv
<1>0. DOMAIN issues = 1..Len(issues)
  BY DEF TypeOK
<1>1. ASSUME NEW new \in Issue, Create(new), UNCHANGED <<route, number>> PROVE RecordsKept
  BY <1>1, <1>0, CreateEffect DEF RecordsKept
<1>2. ASSUME UNCHANGED <<route, number, origin>> PROVE RecordsKept
  BY <1>2 DEF RecordsKept
<1>3. ASSUME NEW p \in Sync, SyncStep(p) PROVE RecordsKept
  <2>1. CASE Post(p) \/ PostFails(p)
    <3>1. Written(p) \in Issue
      BY <2>1, WrittenIs DEF Post, PostFails, At
    <3> QED
      BY <2>1, <3>1, <1>1, <1>2 DEF Post, PostFails, links
  <2>2. CASE Complete(p)
    BY <2>2 DEF Complete, TypeOK, RecordsKept, At
  <2>3. CASE Reserve(p)
    BY <2>3 DEF Reserve, TypeOK, Reading, RecordsKept
  <2>4. CASE ReadLink(p) \/ Search(p) \/ Recheck(p) \/ BeginWrite(p)
    BY <2>4, <1>2 DEF ReadLink, Search, Recheck, BeginWrite, Local, links
  <2> QED
    BY <1>3, <2>1, <2>2, <2>3, <2>4 DEF SyncStep
<1>4. ASSUME NEW p \in Sync, ListItems(p) \/ Abandon(p) PROVE RecordsKept
  BY <1>4, <1>2 DEF ListItems, Abandon, Local, links
<1>5. ASSUME NEW p \in Sync, NEW i \in Item, GetItem(p, i) PROVE RecordsKept
  BY <1>5, <1>2 DEF GetItem, Local, links
<1>6. ASSUME NEW n \in DOMAIN issues, LookUp(n) \/ Save(n) PROVE RecordsKept
  BY <1>0, <1>6 DEF LookUp, Save, TypeOK, links, RecordsKept
<1>7. CASE OpenDirect
  BY <1>7, <1>1 DEF OpenDirect, Issue, links
<1>8. CASE ListingCatchesUp \/ CloseIssue \/ \E i \in Item : EditCard(i)
  BY <1>8, <1>2 DEF ListingCatchesUp, CloseIssue, EditCard, links
<1> QED
  BY <1>3, <1>4, <1>5, <1>6, <1>7, <1>8, BacklogAssumption DEF Next

-----------------------------------------------------------------------------
(* The inductive invariant is one: the tables stay typed, a link refers to *)
(* an Issue that exists and the link row is the token of the one write     *)
(* (backlog.py reconcile, backlog_sqlite.py).                              *)
THEOREM Invariance == Spec => []IInv
BY InitIInv, NextIInv, PTL DEF Spec

(* A work item never gets two Issues, its link names its own, in the       *)
(* repository it was reserved for, and the provenance of tasks is sound,   *)
(* over every interleaving of crashes, lost answers, late listings, edited *)
(* cards and second writers (backlog.py reconcile, backlog_sqlite.py).     *)
THEOREM OneIssuePerItem == Spec => []IssuesAreSound
BY Invariance, IInvSound, PTL

(* The repository of a link, a complete link and a task's recorded         *)
(* provenance are never rewritten (backlog_sqlite.py reserve, complete).   *)
THEOREM LinksAreFinal == Spec => RecordsAreFinal
<1>1. IInv /\ [Next]_vars => [RecordsKept]_vars
  BY FinalStep
<1> QED
  BY Invariance, <1>1, PTL DEF Spec, RecordsAreFinal

=============================================================================
