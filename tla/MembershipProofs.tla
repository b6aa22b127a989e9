--------------------------- MODULE MembershipProofs ---------------------------
(* Theorems about Membership, for every value of its constants.            *)
EXTENDS Membership, FiniteSetTheorems, WellFoundedInduction, TLAPS

\* A call of a desk that has committed the invitation in its hands.
Sending(d) == desk[d].at \in {"mailing", "undoing"}

\* A transaction on its way holds an invitation that is not in the table yet,
\* and no two calls hold the same one.
LinksInHand ==
    /\ \A d \in Desks : desk[d].at \in {"approving", "inviting"} =>
           desk[d].link \in Links /\ link[desk[d].link] = "none"
    /\ \A d \in Desks : Sending(d) => desk[d].link \in Links /\ link[desk[d].link] # "none"
    /\ \A d \in Desks : /\ AtDesk(d, "approving") => desk[d].req \in Requests
                        /\ AtDesk(d, "inviting") => desk[d].req = None
    /\ \A d, e \in Desks : desk[d].link = desk[e].link /\ desk[d].link # None => d = e
    /\ \A i \in Links : link[i] = "none" => source[i] = None /\ opened[i] = 0

\* Who looked for a place among the requests finds one.
RoomToFile ==
    Cardinality({v \in Visits : visit[v] = "inserting"}) <= Cardinality(Unfiled)

\* A link that has opened an account is spent; a tab that is about to open one
\* for an address without account is the first to use its link.
SpentLinks ==
    /\ \A i \in Links : opened[i] \in {0, 1}
    /\ \A i \in Links : opened[i] > 0 => link[i] \in {"used", "gone"}
    /\ \A t \in Tabs : ~AtTab(t, "idle") => tab[t].link \in Links
    /\ \A t \in Tabs : AtTab(t, "creating") =>
           link[tab[t].link] # "none" /\ (~account => opened[tab[t].link] = 0)
    /\ \A i \in posted : link[i] # "none"

\* A request in the queue has no unused link and nobody sends one; an approved
\* one is in one hand at most, whose link is the only unused one.
OneHand ==
    /\ \A r \in Requests : status[r] \in {"none", "pending"} =>
           /\ \A i \in Unused : source[i] # r
           /\ \A d \in Desks : Sending(d) => desk[d].req # r
    /\ \A d \in Desks : Sending(d) /\ desk[d].req # None =>
           /\ source[desk[d].link] = desk[d].req
           /\ \A i \in Unused : source[i] = desk[d].req => i = desk[d].link
    /\ \A d, e \in Desks : Sending(d) /\ Sending(e) /\ desk[d].req = desk[e].req /\ desk[d].req # None
           => d = e
    /\ \A i, j \in Unused : source[i] = source[j] /\ source[i] # None => i = j

\* An approved request is in the hands of a call, or it has reached someone.
InHandOrReached ==
    \A r \in Requests : status[r] = "approved" =>
        \/ \E d \in Desks : Sending(d) /\ desk[d].req = r
        \/ LinksOf(r) \cap posted # {}
        \/ r \in cut
        \/ \E q \in Requests \ {r} : status[q] # "none"

MembershipInv ==
    TypeOK /\ LinksInHand /\ RoomToFile /\ SpentLinks /\ OneHand /\ InHandOrReached

-----------------------------------------------------------------------------
(* Types                                                                   *)

LEMMA Bounds ==
    /\ NRequests \in Nat /\ NLinks \in Nat /\ MaxFaults \in Nat /\ MaxErasures \in Nat
    /\ IsFiniteSet(Visits) /\ None \notin Requests /\ None \notin Links
    /\ Requests \subseteq Nat /\ Links \subseteq Nat
BY BoundAssumption, NoneAssumption DEF BoundAssumption, NoneAssumption, Requests, Links

\* The next free row is one of the free rows.
LEMMA MinIsMember == ASSUME NEW S \in SUBSET Nat, S # {} PROVE Min(S) \in S
<1>1. PICK n \in S : \A m \in S : <<m, n>> \notin OpToRel(<, Nat)
  BY NatLessThanWellFounded, WFMin, Zenon
<1>2. n \in Nat /\ \A m \in S : m \in Nat /\ ~(m < n)
  BY <1>1, Zenon DEF OpToRel
<1>3. \A m \in S : n <= m
  BY <1>2
<1>4. Min(S) = CHOOSE x \in S : \A y \in S : x <= y
  BY DEF Min
<1>5. \E x \in S : \A y \in S : x <= y
  BY <1>3
<1> QED
  BY <1>4, <1>5, Zenon

LEMMA TypeInit == Init => TypeOK
<1> SUFFICES ASSUME Init PROVE TypeOK
  OBVIOUS
<1>1. 0 \in 0..NRequests /\ 0 \in 0..MaxFaults /\ 0 \in 0..MaxErasures
  BY Bounds
<1>2. account \in BOOLEAN
  BY DEF Init
<1> QED
  BY <1>1, <1>2 DEF Init, TypeOK, IdleDesk, IdleTab

DeskType ==
    [at : {"idle", "approving", "inviting", "rejecting", "mailing", "undoing"},
     req : Requests \cup {None}, link : Links \cup {None}, victims : SUBSET Links]

TabType == [at : {"idle", "hashing", "creating"}, link : Links \cup {None}]

LEMMA TypeStep == ASSUME TypeOK, LinksInHand, [Next]_vars PROVE TypeOK'
<1> USE DEF TypeOK
<1>i. IdleDesk \in DeskType /\ IdleTab \in TabType
  BY DEF IdleDesk, IdleTab, DeskType, TabType
<1>l. ASSUME NEW d \in Desks, Leave(d)
      PROVE  desk' \in [Desks -> DeskType]
  BY <1>l, <1>i DEF Leave, DeskType
<1>c. ASSUME NEW d \in Desks, desk[d].at \in {"approving", "inviting"}
      PROVE  Minted(d) \in [Links -> {"none", "live", "expired", "used", "gone"}]
  BY DEF Minted
<1>m. ASSUME NEW d \in Desks, Mail(d)
      PROVE  desk' \in [Desks -> DeskType]
  <2> DEFINE x == [desk[d] EXCEPT !.at = "mailing", !.victims = {}]
  <2>1. desk' = [desk EXCEPT ![d] = x]
    BY <1>m DEF Mail
  <2>2. x \in DeskType
    <3>1. desk[d] \in DeskType
      BY DEF DeskType
    <3> QED
      BY <3>1 DEF DeskType
  <2> HIDE DEF x
  <2> QED
    BY <2>1, <2>2 DEF DeskType
<1>b. ASSUME NEW d \in Desks, NEW where \in {"approving", "inviting"}, NEW r \in Requests \cup {None},
             Begin(d, where, r)
      PROVE  TypeOK'
  <2>1. Min(FreeLinks) \in Links
    <3>1. FreeLinks \in SUBSET Nat /\ FreeLinks # {} /\ FreeLinks \subseteq Links
      BY <1>b, Bounds DEF Begin, FreeLinks
    <3> QED
      BY <3>1, MinIsMember
  <2>2. [at |-> where, req |-> r, link |-> Min(FreeLinks), victims |-> Unused] \in DeskType
    BY <1>b, <2>1 DEF DeskType, Unused
  <2> QED
    BY <1>b, <2>2 DEF Begin, rows, history, DeskType
<1>r. ASSUME NEW d \in Desks PROVE desk[d].req \in Requests \cup {None}
  OBVIOUS
<1>1. ASSUME NEW v \in Visits, Lookup(v) PROVE TypeOK'
  BY <1>1 DEF Lookup, rows, history
<1>2. ASSUME NEW v \in Visits, Insert(v) PROVE TypeOK'
  BY <1>2 DEF Insert, history
<1>3. ASSUME NEW d \in Desks, NEW r \in Requests, ApproveBegin(d, r) PROVE TypeOK'
  BY <1>3, <1>b DEF ApproveBegin
<1>4. ASSUME NEW d \in Desks, NEW r \in Requests, RejectBegin(d, r) PROVE TypeOK'
  <2>1. [IdleDesk EXCEPT !.at = "rejecting", !.req = r] \in DeskType
    BY DEF IdleDesk, DeskType
  <2> QED
    BY <1>4, <2>1 DEF RejectBegin, rows, history, DeskType
<1>5. ASSUME NEW d \in Desks, InviteBegin(d) PROVE TypeOK'
  BY <1>5, <1>b DEF InviteBegin
<1>6. ASSUME NEW d \in Desks, ApproveCommit(d) PROVE TypeOK'
  <2>1. desk' \in [Desks -> DeskType]
    BY <1>6, <1>l, <1>m DEF ApproveCommit
  <2>2. link' \in [Links -> {"none", "live", "expired", "used", "gone"}]
    BY <1>6, <1>c DEF ApproveCommit, AtDesk
  <2>3. status' \in [Requests -> {"none", "pending", "approved", "rejected", "gone"}]
    BY <1>6 DEF ApproveCommit
  <2>4. source' \in [Links -> Requests \cup {None}]
    BY <1>6, <1>r DEF ApproveCommit
  <2> QED
    BY <1>6, <2>1, <2>2, <2>3, <2>4 DEF ApproveCommit, DeskType
<1>7. ASSUME NEW d \in Desks, InviteCommit(d) PROVE TypeOK'
  <2>1. desk' \in [Desks -> DeskType]
    BY <1>7, <1>m DEF InviteCommit
  <2>2. link' \in [Links -> {"none", "live", "expired", "used", "gone"}]
    BY <1>7, <1>c DEF InviteCommit, AtDesk
  <2> QED
    BY <1>7, <2>1, <2>2 DEF InviteCommit, DeskType, history
<1>8. ASSUME NEW d \in Desks, RejectCommit(d) PROVE TypeOK'
  <2>1. desk' \in [Desks -> DeskType]
    BY <1>8, <1>l DEF RejectCommit
  <2>2. status' \in [Requests -> {"none", "pending", "approved", "rejected", "gone"}]
    BY <1>8 DEF RejectCommit
  <2> QED
    BY <1>8, <2>1, <2>2 DEF RejectCommit, DeskType, history
<1>9. ASSUME NEW d \in Desks, MailTaken(d) PROVE TypeOK'
  <2>1. desk' \in [Desks -> DeskType] /\ desk[d].link \in Links
    BY <1>9, <1>l DEF MailTaken, LinksInHand, Sending, AtDesk
  <2> QED
    BY <1>9, <2>1 DEF MailTaken, DeskType, rows
<1>10. ASSUME NEW d \in Desks, MailSkipped(d) PROVE TypeOK'
  <2>1. desk' \in [Desks -> DeskType] /\ Requested(d) \subseteq Requests
    BY <1>10, <1>l DEF MailSkipped, Requested
  <2> QED
    BY <1>10, <2>1 DEF MailSkipped, DeskType, rows
<1>11. ASSUME NEW d \in Desks, MailThrows(d) PROVE TypeOK'
  <2>1. desk[d].link \in Links
    BY <1>11 DEF MailThrows, LinksInHand, Sending, AtDesk
  <2>2. desk' \in [Desks -> DeskType]
    <3>1. desk[d] \in DeskType /\ desk' = [desk EXCEPT ![d] = [desk[d] EXCEPT !.at = "undoing"]]
      BY <1>11 DEF MailThrows, DeskType
    <3>2. [desk[d] EXCEPT !.at = "undoing"] \in DeskType
      BY <3>1 DEF DeskType
    <3> QED
      BY <3>1, <3>2 DEF DeskType
  <2> QED
    BY <1>11, <2>1, <2>2 DEF MailThrows, DeskType, rows
<1>12. ASSUME NEW d \in Desks, Undo(d) PROVE TypeOK'
  <2>1. desk' \in [Desks -> DeskType]
    BY <1>12, <1>l DEF Undo
  <2>2. link' \in [Links -> {"none", "live", "expired", "used", "gone"}]
    BY <1>12 DEF Undo
  <2>3. status' \in [Requests -> {"none", "pending", "approved", "rejected", "gone"}]
    BY <1>12 DEF Undo, Reverted
  <2> QED
    BY <1>12, <2>1, <2>2, <2>3 DEF Undo, DeskType, history
<1>13. ASSUME NEW d \in Desks, UndoFails(d) PROVE TypeOK'
  <2>1. desk' \in [Desks -> DeskType] /\ Requested(d) \subseteq Requests
    BY <1>13, <1>l DEF UndoFails, Requested
  <2>2. faults' \in 0..MaxFaults
    BY <1>13, Bounds DEF UndoFails
  <2> QED
    BY <1>13, <2>1, <2>2 DEF UndoFails, DeskType, rows
<1>14. ASSUME NEW t \in Tabs, NEW i \in Links, Peek(t, i) PROVE TypeOK'
  BY <1>14 DEF Peek, rows, history
<1>15. ASSUME NEW t \in Tabs, Recheck(t) PROVE TypeOK'
  <2>1. tab' \in [Tabs -> TabType]
    BY <1>15, <1>i DEF Recheck, LeaveTab, TabType
  <2> QED
    BY <1>15, <2>1 DEF Recheck, TabType, rows, history
<1>16. ASSUME NEW t \in Tabs, Create(t) PROVE TypeOK'
  <2>1. tab' \in [Tabs -> TabType]
    BY <1>16, <1>i DEF Create, LeaveTab, TabType
  <2>2. link' \in [Links -> {"none", "live", "expired", "used", "gone"}] /\ opened' \in [Links -> Nat]
    BY <1>16 DEF Create, Consumed
  <2>3. account' \in BOOLEAN
    BY <1>16 DEF Create
  <2> QED
    BY <1>16, <2>1, <2>2, <2>3 DEF Create, TabType
<1>17. ASSUME NEW i \in Links, Expire(i) PROVE TypeOK'
  BY <1>17 DEF Expire, history
<1>18. CASE Purge
  BY <1>18 DEF Purge, history
<1>19. CASE Age
  BY <1>19, Bounds DEF Age, rows, history
<1>20. CASE Erase
  <2>1. account' \in BOOLEAN /\ erasures' \in 0..MaxErasures
    <3>1. erasures < MaxErasures /\ erasures' = erasures + 1 /\ account' = FALSE
      BY <1>20 DEF Erase
    <3>2. erasures' \in 0..MaxErasures
      BY <3>1, Bounds
    <3> QED
      BY <3>1, <3>2
  <2> QED
    BY <1>20, <2>1 DEF Erase, history
<1>21. CASE Crash
  <2>1. desk' \in [Desks -> DeskType] /\ tab' \in [Tabs -> TabType]
    BY <1>21, <1>i DEF Crash
  <2>2. faults' \in 0..MaxFaults
    BY <1>21, Bounds DEF Crash
  <2>3. cut' \subseteq Requests
    BY <1>21 DEF Crash, Requested
  <2>4. visit' \in [Visits -> {"idle", "inserting"}]
    BY <1>21 DEF Crash
  <2> QED
    BY <1>21, <2>1, <2>2, <2>3, <2>4 DEF Crash, rows, DeskType, TabType
<1>22. CASE UNCHANGED vars
  BY <1>22 DEF vars, rows, history
<1> QED
  BY <1>1, <1>2, <1>3, <1>4, <1>5, <1>6, <1>7, <1>8, <1>9, <1>10, <1>11, <1>12, <1>13, <1>14,
     <1>15, <1>16, <1>17, <1>18, <1>19, <1>20, <1>21, <1>22
  DEF Next

-----------------------------------------------------------------------------
(* What a step does to the requests and the desks                          *)

LEMMA DeskOf ==
    ASSUME TypeOK, NEW d \in Desks, NEW x, desk' = [desk EXCEPT ![d] = x]
    PROVE  \A e \in Desks : desk'[e] = IF e = d THEN x ELSE desk[e]
BY DEF TypeOK

\* The row that is filed is a free one.
LEMMA InsertFindsRoom ==
    ASSUME TypeOK, RoomToFile, NEW v \in Visits, visit[v] = "inserting"
    PROVE  Unfiled # {} /\ Min(Unfiled) \in Unfiled
<1> DEFINE waiting == {w \in Visits : visit[w] = "inserting"}
<1>1. IsFiniteSet(waiting) /\ waiting # {}
  BY Bounds, FS_Subset
<1>2. Cardinality(waiting) \in Nat /\ Cardinality(waiting) # 0
  BY <1>1, FS_EmptySet, FS_CardinalityType
<1>3. Unfiled # {}
  BY <1>2, FS_EmptySet DEF RoomToFile
<1>4. Unfiled \in SUBSET Nat
  BY Bounds DEF Unfiled
<1> QED
  BY <1>3, <1>4, MinIsMember

\* A step moves a request only along its life: filed, approved and back,
\* refused, purged.
LEMMA RequestMoves ==
    ASSUME TypeOK, LinksInHand, RoomToFile, [Next]_vars, NEW r \in Requests
    PROVE  \/ status'[r] = status[r]
           \/ status[r] = "none" /\ status'[r] = "pending" /\ \E v \in Visits : Insert(v)
           \/ status[r] = "pending" /\ status'[r] = "approved"
                 /\ \E d \in Desks : ApproveCommit(d) /\ desk[d].req = r
           \/ Filed(r) /\ status'[r] = "rejected"
           \/ status[r] = "approved" /\ status'[r] = "pending"
                 /\ \E d \in Desks : Undo(d) /\ desk[d].req = r
           \/ Filed(r) /\ status'[r] = "gone"
<1> USE DEF TypeOK
<1>1. ASSUME NEW v \in Visits, Insert(v)
      PROVE  status'[r] = status[r] \/ (status[r] = "none" /\ status'[r] = "pending")
  <2>1. Min(Unfiled) \in Unfiled
    BY <1>1, InsertFindsRoom DEF Insert
  <2> QED
    BY <1>1, <2>1 DEF Insert, Unfiled
<1>2. ASSUME NEW d \in Desks, ApproveCommit(d)
      PROVE  status'[r] = status[r] \/ (status[r] = "pending" /\ status'[r] = "approved" /\ desk[d].req = r)
  BY <1>2 DEF ApproveCommit, StillPending
<1>3. ASSUME NEW d \in Desks, RejectCommit(d)
      PROVE  status'[r] = status[r] \/ (Filed(r) /\ status'[r] = "rejected")
  BY <1>3 DEF RejectCommit, Filed
<1>4. ASSUME NEW d \in Desks, Undo(d)
      PROVE  status'[r] = status[r] \/ (status[r] = "approved" /\ status'[r] = "pending" /\ desk[d].req = r)
  BY <1>4 DEF Undo, Reverted
<1>5. ASSUME Purge PROVE status'[r] = status[r] \/ (Filed(r) /\ status'[r] = "gone")
  BY <1>5 DEF Purge, Purged, Filed
<1>6. CASE UNCHANGED status
  BY <1>6
<1> QED
  BY <1>1, <1>2, <1>3, <1>4, <1>5, <1>6
  DEF Next, Lookup, ApproveBegin, RejectBegin, InviteBegin, Begin, InviteCommit, MailTaken,
      MailSkipped, MailThrows, UndoFails, Peek, Recheck, Create, Expire, Age, Erase, Crash, vars, rows

LEMMA RoomStep == ASSUME TypeOK, LinksInHand, RoomToFile, [Next]_vars PROVE RoomToFile'
<1> DEFINE waiting == {w \in Visits : visit[w] = "inserting"}
<1>f. IsFiniteSet(waiting) /\ IsFiniteSet(Unfiled) /\ IsFiniteSet(Unfiled') /\ IsFiniteSet(Requests)
  <2>1. IsFiniteSet(Requests)
    BY Bounds, FS_Interval DEF Requests
  <2> QED
    BY <2>1, Bounds, FS_Subset DEF Unfiled
<1>n. /\ Cardinality(waiting) \in Nat /\ Cardinality(Unfiled) \in Nat /\ Cardinality(Unfiled') \in Nat
      /\ Cardinality(waiting) <= Cardinality(Unfiled)
  BY <1>f, FS_CardinalityType DEF RoomToFile
<1>1. ASSUME NEW v \in Visits, Lookup(v) PROVE RoomToFile'
  <2>1. {w \in Visits : visit'[w] = "inserting"} = waiting \cup {v} /\ v \notin waiting
    BY <1>1 DEF Lookup, TypeOK
  <2>2. Cardinality(waiting \cup {v}) = Cardinality(waiting) + 1
    BY <1>f, <2>1, FS_AddElement
  <2>3. Unfiled' = Unfiled /\ Cardinality(Unfiled) > Cardinality(waiting)
    BY <1>1 DEF Lookup, rows, Unfiled
  <2> HIDE DEF waiting
  <2> QED
    BY <1>n, <2>1, <2>2, <2>3 DEF RoomToFile
<1>2. ASSUME NEW v \in Visits, Insert(v) PROVE RoomToFile'
  <2>1. {w \in Visits : visit'[w] = "inserting"} = waiting \ {v} /\ v \in waiting
    BY <1>2 DEF Insert, TypeOK
  <2>2. Cardinality(waiting \ {v}) = Cardinality(waiting) - 1
    BY <1>f, <2>1, FS_RemoveElement
  <2>3. Unfiled \ {Min(Unfiled)} \subseteq Unfiled' /\ Min(Unfiled) \in Unfiled
    BY <1>2, InsertFindsRoom DEF Insert, Unfiled, TypeOK
  <2>4. Cardinality(Unfiled \ {Min(Unfiled)}) = Cardinality(Unfiled) - 1
    BY <1>f, <2>3, FS_RemoveElement
  <2>5. Cardinality(Unfiled \ {Min(Unfiled)}) <= Cardinality(Unfiled')
    <3> DEFINE A == Unfiled \ {Min(Unfiled)}
               B == Unfiled'
    <3>1. A \in SUBSET B /\ IsFiniteSet(B)
      BY <1>f, <2>3
    <3> HIDE DEF A, B
    <3>2. Cardinality(A) <= Cardinality(B)
      BY <3>1, FS_Subset
    <3> QED
      BY <3>2 DEF A, B
  <2>6. Cardinality({w \in Visits : visit'[w] = "inserting"}) = Cardinality(waiting) - 1
    BY <2>1, <2>2
  <2>7. Cardinality(waiting) - 1 <= Cardinality(Unfiled')
    <3> HIDE DEF waiting
    <3> QED
      BY <1>n, <2>4, <2>5
  <2> QED
    BY <2>6, <2>7 DEF RoomToFile
<1>3. CASE Crash
  <2>1. {w \in Visits : visit'[w] = "inserting"} = {}
    BY <1>3 DEF Crash
  <2> QED
    BY <1>n, <2>1, FS_EmptySet DEF RoomToFile
<1>4. CASE UNCHANGED visit /\ ~(\E v \in Visits : Insert(v))
  <2>1. Unfiled' = Unfiled
    BY <1>4, RequestMoves DEF Unfiled, Filed
  <2> QED
    BY <1>4, <2>1 DEF RoomToFile
<1> QED
  BY <1>1, <1>2, <1>3, <1>4
  DEF Next, ApproveBegin, RejectBegin, InviteBegin, Begin, ApproveCommit, RejectCommit, InviteCommit,
      MailTaken, MailSkipped, MailThrows, Undo, UndoFails, Peek, Recheck, Create, Expire, Purge, Age,
      Erase, vars

-----------------------------------------------------------------------------
(* The invariant, part by part                                             *)

LEMMA MembershipInit == Init => MembershipInv
<1> SUFFICES ASSUME Init PROVE MembershipInv
  OBVIOUS
<1>1. TypeOK
  BY TypeInit
<1>2. \A d \in Desks : desk[d].at = "idle" /\ desk[d].link = None
  BY DEF Init, IdleDesk
<1>3. LinksInHand
  BY <1>2 DEF Init, LinksInHand, Sending, AtDesk
<1>4. RoomToFile
  <2>1. {v \in Visits : visit[v] = "inserting"} = {}
    BY DEF Init
  <2>2. IsFiniteSet(Unfiled)
    BY Bounds, FS_Interval, FS_Subset DEF Unfiled, Requests
  <2>3. Cardinality(Unfiled) \in Nat /\ Cardinality({v \in Visits : visit[v] = "inserting"}) = 0
    BY <2>1, <2>2, FS_EmptySet, FS_CardinalityType
  <2> QED
    BY <2>3 DEF RoomToFile
<1>5. SpentLinks
  BY DEF Init, SpentLinks, AtTab, IdleTab
<1>6. OneHand
  BY <1>2 DEF Init, OneHand, Sending, Unused
<1>7. InHandOrReached
  BY DEF Init, InHandOrReached
<1> QED
  BY <1>1, <1>3, <1>4, <1>5, <1>6, <1>7 DEF MembershipInv

\* A desk moves on with what it holds, or lets go of it, and the links of the
\* others stay as they are.
LEMMA InHandKept ==
    ASSUME TypeOK, LinksInHand,
           \A e \in Desks : \/ desk'[e] = desk[e]
                            \/ desk'[e].link = None /\ desk'[e].at \in {"idle", "rejecting"}
                            \/ Sending(e) /\ Sending(e)' /\ desk'[e].link = desk[e].link,
           \A i \in Links : /\ link'[i] = "none" <=> link[i] = "none"
                            /\ source'[i] = source[i]
                            /\ link[i] = "none" => opened'[i] = opened[i]
    PROVE  LinksInHand'
<1>1. \A e \in Desks : /\ desk'[e].at \in {"approving", "inviting"} => desk'[e] = desk[e]
                       /\ Sending(e)' => Sending(e) /\ desk'[e].link = desk[e].link
                       /\ desk'[e].link # None => desk'[e].link = desk[e].link
  BY DEF Sending
<1>2. \A d \in Desks : desk'[d].at \in {"approving", "inviting"} =>
          desk'[d].link \in Links /\ link'[desk'[d].link] = "none"
  BY <1>1 DEF LinksInHand
<1>3. \A d \in Desks : Sending(d)' => desk'[d].link \in Links /\ link'[desk'[d].link] # "none"
  BY <1>1 DEF LinksInHand
<1>4. \A d \in Desks : /\ AtDesk(d, "approving")' => desk'[d].req \in Requests
                       /\ AtDesk(d, "inviting")' => desk'[d].req = None
  BY <1>1 DEF LinksInHand, AtDesk
<1>5. \A d, e \in Desks : desk'[d].link = desk'[e].link /\ desk'[d].link # None => d = e
  BY <1>1 DEF LinksInHand
<1> QED
  BY <1>2, <1>3, <1>4, <1>5 DEF LinksInHand

\* A desk commits the invitation it holds.
LEMMA InHandMinted ==
    ASSUME TypeOK, LinksInHand, NEW d \in Desks, desk[d].at \in {"approving", "inviting"},
           Mail(d), link' = Minted(d), opened' = opened,
           \A i \in Links \ {desk[d].link} : source'[i] = source[i]
    PROVE  LinksInHand'
<1> DEFINE l == desk[d].link
<1>1. l \in Links /\ link[l] = "none"
  BY DEF LinksInHand
<1> DEFINE x == [desk[d] EXCEPT !.at = "mailing", !.victims = {}]
<1>2. \A e \in Desks : desk'[e] = IF e = d THEN x ELSE desk[e]
  BY DEF Mail, TypeOK
<1>x. x.at = "mailing" /\ x.link = l /\ x.req = desk[d].req
  BY DEF TypeOK
<1> HIDE DEF x
<1>3. \A e \in Desks : /\ desk'[e].link = desk[e].link
                       /\ desk'[e].req = desk[e].req
                       /\ e # d => desk'[e].at = desk[e].at
                       /\ desk'[d].at = "mailing"
  BY <1>2, <1>x
<1>4. \A i \in Links : link'[i] = "none" <=> link[i] = "none" /\ i # l
  BY <1>1 DEF Minted, Unused
<1>5. \A e \in Desks : e # d => desk[e].link # l
  BY <1>1, Bounds DEF LinksInHand
<1> HIDE DEF l
<1>6. \A e \in Desks : desk'[e].at \in {"approving", "inviting"} =>
          desk'[e].link \in Links /\ link'[desk'[e].link] = "none"
  BY <1>3, <1>4, <1>5 DEF LinksInHand
<1>7. \A e \in Desks : Sending(e)' => desk'[e].link \in Links /\ link'[desk'[e].link] # "none"
  BY <1>1, <1>3, <1>4, <1>5 DEF LinksInHand, Sending, l
<1>8. \A e \in Desks : /\ AtDesk(e, "approving")' => desk'[e].req \in Requests
                       /\ AtDesk(e, "inviting")' => desk'[e].req = None
  BY <1>3 DEF LinksInHand, AtDesk
<1>9. \A c, e \in Desks : desk'[c].link = desk'[e].link /\ desk'[c].link # None => c = e
  BY <1>3 DEF LinksInHand
<1>10. \A i \in Links : link'[i] = "none" => source'[i] = None /\ opened'[i] = 0
  BY <1>4 DEF LinksInHand, l
<1> QED
  BY <1>6, <1>7, <1>8, <1>9, <1>10 DEF LinksInHand

LEMMA InHandStep == ASSUME TypeOK, LinksInHand, SpentLinks, [Next]_vars PROVE LinksInHand'
<1>l. ASSUME NEW d \in Desks, Leave(d)
      PROVE  \A e \in Desks : desk'[e] = desk[e] \/ (desk'[e].link = None /\ desk'[e].at \in {"idle", "rejecting"})
  BY <1>l DEF Leave, IdleDesk, TypeOK
<1>b. ASSUME NEW d \in Desks, NEW where \in {"approving", "inviting"}, NEW r,
             where = "approving" => r \in Requests, where = "inviting" => r = None,
             Begin(d, where, r)
      PROVE  LinksInHand'
  <2> DEFINE l == Min(FreeLinks)
             x == [at |-> where, req |-> r, link |-> l, victims |-> Unused]
  <2>1. l \in FreeLinks
    <3>1. FreeLinks \in SUBSET Nat /\ FreeLinks # {}
      BY <1>b, Bounds DEF Begin, FreeLinks
    <3> QED
      BY <3>1, MinIsMember
  <2> HIDE DEF l
  <2>2. l \in Links /\ link[l] = "none" /\ \A e \in Desks : desk[e].link # l
    BY <2>1 DEF FreeLinks
  <2>3. \A e \in Desks : desk'[e] = IF e = d THEN x ELSE desk[e]
    BY <1>b DEF Begin, TypeOK, l
  <2>4. UNCHANGED <<link, source, opened>>
    BY <1>b DEF Begin, rows, history
  <2>5. x.at = where /\ x.req = r /\ x.link = l
    OBVIOUS
  <2> HIDE DEF x
  <2>6. \A e \in Desks : /\ desk'[e].at \in {"approving", "inviting"} =>
                               desk'[e].link \in Links /\ link'[desk'[e].link] = "none"
                         /\ Sending(e)' => desk'[e].link \in Links /\ link'[desk'[e].link] # "none"
    BY <2>2, <2>3, <2>4, <2>5 DEF LinksInHand, Sending
  <2>7. \A e \in Desks : /\ AtDesk(e, "approving")' => desk'[e].req \in Requests
                         /\ AtDesk(e, "inviting")' => desk'[e].req = None
    BY <1>b, <2>3, <2>5 DEF LinksInHand, AtDesk
  <2>8. \A c, e \in Desks : desk'[c].link = desk'[e].link /\ desk'[c].link # None => c = e
    BY <2>2, <2>3, <2>5 DEF LinksInHand
  <2> QED
    BY <2>4, <2>6, <2>7, <2>8 DEF LinksInHand
<1>1. ASSUME NEW d \in Desks, NEW r \in Requests, ApproveBegin(d, r) PROVE LinksInHand'
  BY <1>1, <1>b DEF ApproveBegin
<1>2. ASSUME NEW d \in Desks, InviteBegin(d) PROVE LinksInHand'
  BY <1>2, <1>b DEF InviteBegin
<1>3. ASSUME NEW d \in Desks, NEW r \in Requests, RejectBegin(d, r) PROVE LinksInHand'
  <2>1. \A e \in Desks : desk'[e] = desk[e] \/ (desk'[e].link = None /\ desk'[e].at \in {"idle", "rejecting"})
    BY <1>3 DEF RejectBegin, IdleDesk, TypeOK
  <2> QED
    BY <1>3, <2>1, InHandKept DEF RejectBegin, rows, history
<1>4. ASSUME NEW d \in Desks, ApproveCommit(d) PROVE LinksInHand'
  <2>1. CASE Leave(d) /\ UNCHANGED <<link, source>>
    BY <1>4, <1>l, <2>1, InHandKept DEF ApproveCommit
  <2>2. CASE Mail(d) /\ link' = Minted(d) /\ source' = [source EXCEPT ![desk[d].link] = desk[d].req]
    <3>1. \A i \in Links \ {desk[d].link} : source'[i] = source[i]
      BY <2>2 DEF TypeOK
    <3> QED
      BY <1>4, <2>2, <3>1, InHandMinted DEF ApproveCommit, AtDesk
  <2> QED
    BY <1>4, <2>1, <2>2 DEF ApproveCommit
<1>5. ASSUME NEW d \in Desks, InviteCommit(d) PROVE LinksInHand'
  BY <1>5, InHandMinted DEF InviteCommit, AtDesk, history
<1>6. ASSUME NEW d \in Desks, RejectCommit(d) \/ MailTaken(d) \/ MailSkipped(d) \/ UndoFails(d)
      PROVE  LinksInHand'
  <2>1. Leave(d) /\ UNCHANGED <<link, source, opened>>
    BY <1>6 DEF RejectCommit, MailTaken, MailSkipped, UndoFails, rows, history
  <2> QED
    BY <1>l, <2>1, InHandKept
<1>7. ASSUME NEW d \in Desks, MailThrows(d) PROVE LinksInHand'
  <2>1. \A e \in Desks : desk'[e] = desk[e] \/ (Sending(e) /\ Sending(e)' /\ desk'[e].link = desk[e].link)
    BY <1>7 DEF MailThrows, Sending, AtDesk, TypeOK
  <2>2. UNCHANGED <<link, source, opened>>
    BY <1>7 DEF MailThrows, rows
  <2> QED
    BY <2>1, <2>2, InHandKept
<1>8. ASSUME NEW d \in Desks, Undo(d) PROVE LinksInHand'
  <2>1. Leave(d) /\ UNCHANGED <<source, opened>>
        /\ (link' = link \/ link' = [link EXCEPT ![desk[d].link] = "gone"])
    BY <1>8 DEF Undo, history
  <2>2. desk[d].link \in Links /\ link[desk[d].link] # "none"
    BY <1>8 DEF Undo, LinksInHand, Sending, AtDesk
  <2>3. \A i \in Links : link'[i] = "none" <=> link[i] = "none"
    BY <2>1, <2>2 DEF TypeOK
  <2> QED
    BY <1>l, <2>1, <2>3, InHandKept
<1>9. ASSUME NEW t \in Tabs, Create(t) PROVE LinksInHand'
  <2>1. tab[t].link \in Links /\ link[tab[t].link] # "none"
    BY <1>9 DEF Create, SpentLinks, AtTab
  <2>2. \A i \in Links : /\ link'[i] = "none" <=> link[i] = "none"
                         /\ link[i] = "none" => opened'[i] = opened[i]
    BY <1>9, <2>1 DEF Create, Consumed, TypeOK
  <2>3. UNCHANGED <<desk, source>>
    BY <1>9 DEF Create
  <2> QED
    BY <2>2, <2>3, InHandKept
<1>10. ASSUME NEW i \in Links, Expire(i) PROVE LinksInHand'
  <2>1. \A k \in Links : link'[k] = "none" <=> link[k] = "none"
    BY <1>10 DEF Expire, TypeOK
  <2> QED
    BY <1>10, <2>1, InHandKept DEF Expire, history
<1>11. CASE Crash
  <2>1. \A e \in Desks : desk'[e].link = None /\ desk'[e].at \in {"idle", "rejecting"}
    BY <1>11 DEF Crash, IdleDesk
  <2> QED
    BY <1>11, <2>1, InHandKept DEF Crash, rows
<1>12. CASE UNCHANGED <<desk, link, source, opened>>
  BY <1>12, InHandKept
<1> QED
  BY <1>1, <1>2, <1>3, <1>4, <1>5, <1>6, <1>7, <1>8, <1>9, <1>10, <1>11, <1>12
  DEF Next, Lookup, Insert, Peek, Recheck, Purge, Age, Erase, vars, rows, history

\* Fewer unused links, fewer hands, no request back in the queue.
LEMMA OneHandKept ==
    ASSUME TypeOK, LinksInHand, OneHand,
           Unused' \subseteq Unused, UNCHANGED source,
           \A e \in Desks : Sending(e)' => /\ Sending(e)
                                           /\ desk'[e].link = desk[e].link
                                           /\ desk'[e].req = desk[e].req,
           \A r \in Requests : status'[r] \in {"none", "pending"} => status[r] \in {"none", "pending"}
    PROVE  OneHand'
<1>1. \A r \in Requests : status'[r] \in {"none", "pending"} =>
           /\ \A i \in Unused' : source'[i] # r
           /\ \A d \in Desks : Sending(d)' => desk'[d].req # r
  BY DEF OneHand
<1>2. \A d \in Desks : Sending(d)' /\ desk'[d].req # None =>
           /\ source'[desk'[d].link] = desk'[d].req
           /\ \A i \in Unused' : source'[i] = desk'[d].req => i = desk'[d].link
  BY DEF OneHand
<1>3. \A d, e \in Desks : Sending(d)' /\ Sending(e)' /\ desk'[d].req = desk'[e].req /\ desk'[d].req # None
           => d = e
  BY DEF OneHand
<1>4. \A i, j \in Unused' : source'[i] = source'[j] /\ source'[i] # None => i = j
  BY DEF OneHand
<1> QED
  BY <1>1, <1>2, <1>3, <1>4 DEF OneHand

\* A desk commits an invitation for a request that nobody handles, or for none.
LEMMA OneHandMinted ==
    ASSUME TypeOK, LinksInHand, OneHand, NEW d \in Desks, desk[d].at \in {"approving", "inviting"},
           Mail(d), link' = Minted(d), source'[desk[d].link] = desk[d].req,
           \A i \in Links \ {desk[d].link} : source'[i] = source[i],
           desk[d].req # None => /\ status[desk[d].req] = "pending" /\ desk[d].req \in Requests
                                 /\ status'[desk[d].req] = "approved",
           \A r \in Requests : r # desk[d].req => status'[r] = status[r]
    PROVE  OneHand'
<1> DEFINE l == desk[d].link
           q == desk[d].req
           x == [desk[d] EXCEPT !.at = "mailing", !.victims = {}]
<1>1. \A e \in Desks : desk'[e] = IF e = d THEN x ELSE desk[e]
  BY DEF Mail, TypeOK
<1>2. x.at = "mailing" /\ x.link = l /\ x.req = q
  BY DEF TypeOK
<1> HIDE DEF x
<1>3. \A e \in Desks : /\ desk'[e].link = desk[e].link /\ desk'[e].req = desk[e].req
                       /\ Sending(e)' <=> e = d \/ Sending(e)
  BY <1>1, <1>2 DEF Sending
<1>4. l \in Links /\ link[l] = "none" /\ source'[l] = q
  BY DEF LinksInHand
<1>5. Unused' \subseteq Unused \cup {l} /\ l \notin Unused
  BY <1>4 DEF Minted, Unused
<1>6. \A i \in Unused : source'[i] = source[i] /\ i # l
  BY <1>5 DEF Unused
<1>7. \A i \in Unused : q # None => source[i] # q
  BY DEF OneHand
<1>8. \A e \in Desks : Sending(e) /\ q # None => desk[e].req # q
  BY DEF OneHand
<1>9. \A e \in Desks : Sending(e) => desk[e].link # l /\ desk[e].link \in Links
  BY <1>4 DEF LinksInHand
<1> HIDE DEF l, q
<1>10. \A r \in Requests : status'[r] \in {"none", "pending"} =>
           /\ \A i \in Unused' : source'[i] # r
           /\ \A e \in Desks : Sending(e)' => desk'[e].req # r
  <2> SUFFICES ASSUME NEW r \in Requests, status'[r] \in {"none", "pending"}
               PROVE  /\ \A i \in Unused' : source'[i] # r
                      /\ \A e \in Desks : Sending(e)' => desk'[e].req # r
    OBVIOUS
  <2>1. r # q /\ status[r] \in {"none", "pending"}
    BY Bounds DEF q
  <2> QED
    BY <1>3, <1>4, <1>5, <1>6, <2>1 DEF OneHand, q
<1>11. ASSUME NEW e \in Desks, Sending(e)', desk'[e].req # None
       PROVE  /\ source'[desk'[e].link] = desk'[e].req
              /\ \A i \in Unused' : source'[i] = desk'[e].req => i = desk'[e].link
  <2>1. CASE e = d
    <3>1. desk'[e].link = l /\ desk'[e].req = q
      BY <1>3, <2>1 DEF l, q
    <3> QED
      BY <1>4, <1>5, <1>6, <1>7, <1>11, <3>1
  <2>2. CASE e # d
    <3>1. Sending(e) /\ desk'[e].link = desk[e].link /\ desk'[e].req = desk[e].req
      BY <1>3, <1>11, <2>2
    <3>2. source'[desk[e].link] = source[desk[e].link]
      BY <1>9, <3>1 DEF l
    <3>3. desk[e].req # q
      BY <1>8, <1>11, <3>1
    <3> QED
      BY <1>4, <1>5, <1>6, <1>11, <3>1, <3>2, <3>3 DEF OneHand
  <2> QED
    BY <2>1, <2>2
<1>12. \A c, e \in Desks : Sending(c)' /\ Sending(e)' /\ desk'[c].req = desk'[e].req /\ desk'[c].req # None
           => c = e
  BY <1>3, <1>8 DEF OneHand, q
<1>13. \A i, j \in Unused' : source'[i] = source'[j] /\ source'[i] # None => i = j
  BY <1>4, <1>5, <1>6, <1>7 DEF OneHand
<1> QED
  BY <1>10, <1>11, <1>12, <1>13 DEF OneHand

LEMMA OneHandStep ==
    ASSUME TypeOK, LinksInHand, RoomToFile, OneHand, [Next]_vars PROVE OneHand'
<1>l. ASSUME NEW d \in Desks, Leave(d)
      PROVE  \A e \in Desks : Sending(e)' => /\ Sending(e) /\ e # d
                                             /\ desk'[e].link = desk[e].link
                                             /\ desk'[e].req = desk[e].req
  BY <1>l DEF Leave, IdleDesk, TypeOK, Sending
<1>b. ASSUME NEW d \in Desks, NEW where \in {"approving", "inviting"}, NEW r, Begin(d, where, r)
      PROVE  OneHand'
  <2>1. \A e \in Desks : Sending(e)' => Sending(e) /\ desk'[e] = desk[e]
    BY <1>b DEF Begin, Sending, TypeOK
  <2> QED
    BY <1>b, <2>1, OneHandKept DEF Begin, rows, history, Unused
<1>1. ASSUME NEW d \in Desks, NEW r \in Requests, ApproveBegin(d, r) PROVE OneHand'
  BY <1>1, <1>b DEF ApproveBegin
<1>2. ASSUME NEW d \in Desks, InviteBegin(d) PROVE OneHand'
  BY <1>2, <1>b DEF InviteBegin
<1>3. ASSUME NEW d \in Desks, NEW r \in Requests, RejectBegin(d, r) PROVE OneHand'
  <2>1. \A e \in Desks : Sending(e)' => Sending(e) /\ desk'[e] = desk[e]
    BY <1>3 DEF RejectBegin, IdleDesk, Sending, TypeOK
  <2> QED
    BY <1>3, <2>1, OneHandKept DEF RejectBegin, rows, history, Unused
<1>4. ASSUME NEW d \in Desks, ApproveCommit(d) PROVE OneHand'
  <2>r. desk[d].req \in Requests /\ desk[d].link \in Links
    BY <1>4 DEF ApproveCommit, LinksInHand, AtDesk
  <2>1. CASE Leave(d) /\ UNCHANGED <<status, link, source>>
    BY <1>l, <2>1, OneHandKept DEF Unused
  <2>2. CASE /\ StillPending(desk[d].req)
             /\ status' = [status EXCEPT ![desk[d].req] = "approved"]
             /\ link' = Minted(d)
             /\ source' = [source EXCEPT ![desk[d].link] = desk[d].req]
             /\ Mail(d)
    <3>1. source'[desk[d].link] = desk[d].req /\ \A i \in Links \ {desk[d].link} : source'[i] = source[i]
      BY <2>2, <2>r DEF TypeOK
    <3>2. /\ status[desk[d].req] = "pending" /\ status'[desk[d].req] = "approved"
          /\ \A r \in Requests : r # desk[d].req => status'[r] = status[r]
      BY <2>2, <2>r DEF TypeOK, StillPending
    <3> QED
      BY <1>4, <2>2, <2>r, <3>1, <3>2, OneHandMinted DEF ApproveCommit, AtDesk
  <2> QED
    BY <1>4, <2>1, <2>2 DEF ApproveCommit
<1>5. ASSUME NEW d \in Desks, InviteCommit(d) PROVE OneHand'
  <2>1. desk[d].req = None /\ desk[d].link \in Links /\ source[desk[d].link] = None
    BY <1>5 DEF InviteCommit, LinksInHand, AtDesk
  <2> QED
    BY <1>5, <2>1, OneHandMinted DEF InviteCommit, AtDesk, history
<1>6. ASSUME NEW d \in Desks, RejectCommit(d) PROVE OneHand'
  <2>1. \A r \in Requests : status'[r] \in {"none", "pending"} => status[r] \in {"none", "pending"}
    BY <1>6 DEF RejectCommit, TypeOK
  <2> QED
    BY <1>6, <1>l, <2>1, OneHandKept DEF RejectCommit, history, Unused
<1>7. ASSUME NEW d \in Desks, MailTaken(d) \/ MailSkipped(d) \/ UndoFails(d) PROVE OneHand'
  <2>1. Leave(d) /\ UNCHANGED <<status, link, source>>
    BY <1>7 DEF MailTaken, MailSkipped, UndoFails, rows
  <2> QED
    BY <1>l, <2>1, OneHandKept DEF Unused
<1>8. ASSUME NEW d \in Desks, MailThrows(d) PROVE OneHand'
  <2>1. \A e \in Desks : Sending(e)' => /\ Sending(e)
                                        /\ desk'[e].link = desk[e].link
                                        /\ desk'[e].req = desk[e].req
    BY <1>8 DEF MailThrows, Sending, AtDesk, TypeOK
  <2>2. UNCHANGED <<status, link, source>>
    BY <1>8 DEF MailThrows, rows
  <2> QED
    BY <2>1, <2>2, OneHandKept DEF Unused
<1>9. ASSUME NEW d \in Desks, Undo(d) PROVE OneHand'
  <2> DEFINE q == desk[d].req
             l == desk[d].link
  <2>1. Sending(d) /\ l \in Links /\ Leave(d) /\ UNCHANGED source
    BY <1>9 DEF Undo, LinksInHand, Sending, AtDesk, history
  <2>2. CASE UNCHANGED <<status, link>>
    BY <1>l, <2>1, <2>2, OneHandKept DEF Unused
  <2>3. CASE status' = Reverted(q) /\ link' = [link EXCEPT ![l] = "gone"]
    <3>1. Unused' = Unused \ {l}
      BY <2>1, <2>3 DEF Unused, TypeOK
    <3>2. ASSUME NEW r \in Requests, status'[r] \in {"none", "pending"}
          PROVE  /\ \A i \in Unused' : source'[i] # r
                 /\ \A e \in Desks : Sending(e)' => desk'[e].req # r
      <4>1. CASE status[r] \in {"none", "pending"}
        BY <1>l, <2>1, <3>1, <4>1 DEF OneHand
      <4>2. CASE status[r] \notin {"none", "pending"}
        <5>1. r = q /\ q # None
          BY <2>3, <3>2, <4>2, Bounds DEF Reverted, TypeOK
        <5> QED
          BY <1>l, <2>1, <3>1, <5>1 DEF OneHand
      <4> QED
        BY <4>1, <4>2
    <3>3. \A e \in Desks : Sending(e)' /\ desk'[e].req # None =>
              /\ source'[desk'[e].link] = desk'[e].req
              /\ \A i \in Unused' : source'[i] = desk'[e].req => i = desk'[e].link
      BY <1>l, <2>1, <3>1 DEF OneHand
    <3>4. \A c, e \in Desks : Sending(c)' /\ Sending(e)' /\ desk'[c].req = desk'[e].req /\ desk'[c].req # None
              => c = e
      BY <1>l, <2>1 DEF OneHand
    <3>5. \A i, j \in Unused' : source'[i] = source'[j] /\ source'[i] # None => i = j
      BY <2>1, <3>1 DEF OneHand
    <3> QED
      BY <3>2, <3>3, <3>4, <3>5 DEF OneHand
  <2> QED
    BY <1>9, <2>2, <2>3 DEF Undo
<1>10. ASSUME NEW t \in Tabs, Create(t) PROVE OneHand'
  <2>1. Unused' \subseteq Unused
    BY <1>10 DEF Create, Consumed, Unused, TypeOK
  <2>2. UNCHANGED <<desk, status, source>>
    BY <1>10 DEF Create
  <2>3. \A e \in Desks : Sending(e)' <=> Sending(e)
    BY <2>2 DEF Sending
  <2> QED
    BY <2>1, <2>2, <2>3, OneHandKept
<1>11. ASSUME NEW i \in Links, Expire(i) PROVE OneHand'
  <2>1. Unused' \subseteq Unused
    BY <1>11 DEF Expire, Unused, TypeOK
  <2>2. UNCHANGED <<desk, status, source>>
    BY <1>11 DEF Expire, history
  <2>3. \A e \in Desks : Sending(e)' <=> Sending(e)
    BY <2>2 DEF Sending
  <2> QED
    BY <2>1, <2>2, <2>3, OneHandKept
<1>12. CASE Crash
  <2>1. \A e \in Desks : ~Sending(e)'
    BY <1>12 DEF Crash, IdleDesk, Sending
  <2> QED
    BY <1>12, <2>1, OneHandKept DEF Crash, rows, Unused
<1>13. CASE UNCHANGED <<desk, link, source>>
             /\ \A r \in Requests : status'[r] \in {"none", "pending"} => status[r] \in {"none", "pending"}
  <2>1. \A e \in Desks : Sending(e)' <=> Sending(e)
    BY <1>13 DEF Sending
  <2> QED
    BY <1>13, <2>1, OneHandKept DEF Unused
<1>14. ASSUME NEW v \in Visits, Insert(v) PROVE OneHand'
  <2>1. \A r \in Requests : status'[r] \in {"none", "pending"} => status[r] \in {"none", "pending"}
    <3>1. Min(Unfiled) \in Unfiled
      BY <1>14, InsertFindsRoom DEF Insert
    <3> QED
      BY <1>14, <3>1 DEF Insert, Unfiled, TypeOK
  <2> QED
    BY <1>14, <1>13, <2>1 DEF Insert, history
<1>15. CASE Purge
  <2>1. \A r \in Requests : status'[r] \in {"none", "pending"} => status[r] \in {"none", "pending"}
    BY <1>15 DEF Purge
  <2> QED
    BY <1>15, <1>13, <2>1 DEF Purge, history
<1>16. CASE UNCHANGED <<desk, link, source, status>>
  BY <1>13, <1>16
<1> QED
  BY <1>1, <1>2, <1>3, <1>4, <1>5, <1>6, <1>7, <1>8, <1>9, <1>10, <1>11, <1>12, <1>14, <1>15, <1>16
  DEF Next, Lookup, Peek, Recheck, Age, Erase, vars, rows, history

\* A link that is neither minted afresh nor consumed again stays spent.
LEMMA SpentKept ==
    ASSUME TypeOK, SpentLinks, UNCHANGED opened, account => account',
           \A i \in Links : /\ link'[i] = "none" => link[i] = "none"
                            /\ link[i] \in {"used", "gone"} => link'[i] \in {"used", "gone"},
           \A i \in posted' : i \in posted \/ link'[i] # "none",
           posted' \subseteq Links,
           \A t \in Tabs : tab'[t] = tab[t] \/ tab'[t].at = "idle"
    PROVE  SpentLinks'
<1>1. \A i \in Links : opened'[i] \in {0, 1} /\ (opened'[i] > 0 => link'[i] \in {"used", "gone"})
  BY DEF SpentLinks
<1>2. \A t \in Tabs : ~AtTab(t, "idle")' => tab'[t].link \in Links
  BY DEF SpentLinks, AtTab
<1>3. \A t \in Tabs : AtTab(t, "creating")' =>
          link'[tab'[t].link] # "none" /\ (~account' => opened'[tab'[t].link] = 0)
  BY DEF SpentLinks, AtTab
<1>4. \A i \in posted' : link'[i] # "none"
  BY DEF SpentLinks, TypeOK
<1> QED
  BY <1>1, <1>2, <1>3, <1>4 DEF SpentLinks

LEMMA SpentMinted ==
    ASSUME TypeOK, LinksInHand, SpentLinks, NEW d \in Desks, desk[d].at \in {"approving", "inviting"},
           link' = Minted(d), UNCHANGED <<opened, account, posted, tab>>
    PROVE  SpentLinks'
<1> DEFINE l == desk[d].link
<1>1. l \in Links /\ link[l] = "none" /\ opened[l] = 0
  BY DEF LinksInHand
<1>2. \A i \in Links : /\ link'[i] = "none" => link[i] = "none"
                       /\ link[i] \in {"used", "gone"} => link'[i] \in {"used", "gone"}
  BY <1>1 DEF Minted, Unused
<1> QED
  BY <1>2, SpentKept DEF TypeOK

LEMMA SpentStep == ASSUME TypeOK, LinksInHand, SpentLinks, [Next]_vars PROVE SpentLinks'
<1>1. ASSUME NEW d \in Desks, ApproveCommit(d) PROVE SpentLinks'
  <2>1. CASE UNCHANGED link
    BY <1>1, <2>1, SpentKept DEF ApproveCommit, TypeOK
  <2>2. CASE link' = Minted(d)
    BY <1>1, <2>2, SpentMinted DEF ApproveCommit, AtDesk
  <2> QED
    BY <1>1, <2>1, <2>2 DEF ApproveCommit
<1>2. ASSUME NEW d \in Desks, InviteCommit(d) PROVE SpentLinks'
  BY <1>2, SpentMinted DEF InviteCommit, AtDesk, history
<1>3. ASSUME NEW d \in Desks, MailTaken(d) \/ MailThrows(d) PROVE SpentLinks'
  <2>1. desk[d].link \in Links /\ link[desk[d].link] # "none"
    BY <1>3 DEF MailTaken, MailThrows, LinksInHand, Sending, AtDesk
  <2>2. UNCHANGED <<link, opened, account, tab>> /\ posted' \subseteq posted \cup {desk[d].link}
    BY <1>3 DEF MailTaken, MailThrows, rows
  <2>3. posted' \subseteq Links
    BY <2>1, <2>2 DEF TypeOK
  <2> QED
    BY <2>1, <2>2, <2>3, SpentKept
<1>4. ASSUME NEW d \in Desks, Undo(d) PROVE SpentLinks'
  <2>1. UNCHANGED <<opened, account, tab, posted>>
        /\ (link' = link \/ link' = [link EXCEPT ![desk[d].link] = "gone"])
    BY <1>4 DEF Undo, history
  <2>2. \A i \in Links : /\ link'[i] = "none" => link[i] = "none"
                         /\ link[i] \in {"used", "gone"} => link'[i] \in {"used", "gone"}
    BY <2>1 DEF TypeOK
  <2> QED
    BY <2>1, <2>2, SpentKept DEF TypeOK
<1>5. ASSUME NEW t \in Tabs, NEW i \in Links, Peek(t, i) PROVE SpentLinks'
  <2>1. \A s \in Tabs : tab'[s] = IF s = t THEN [at |-> "hashing", link |-> i] ELSE tab[s]
    BY <1>5 DEF Peek, TypeOK
  <2> QED
    BY <1>5, <2>1 DEF Peek, SpentLinks, AtTab, rows, history
<1>6. ASSUME NEW t \in Tabs, Recheck(t) PROVE SpentLinks'
  <2> DEFINE i == tab[t].link
  <2>1. i \in Links
    BY <1>6 DEF Recheck, SpentLinks, AtTab
  <2>2. CASE LeaveTab(t)
    <3>1. \A s \in Tabs : tab'[s] = tab[s] \/ tab'[s].at = "idle"
      BY <2>2 DEF LeaveTab, IdleTab, TypeOK
    <3> QED
      BY <1>6, <3>1, SpentKept DEF Recheck, rows, history, TypeOK
  <2>3. CASE Usable(i) /\ tab' = [tab EXCEPT ![t].at = "creating"]
    <3>1. link[i] # "none" /\ opened[i] = 0
      BY <2>1, <2>3 DEF Usable, SpentLinks
    <3>2. \A s \in Tabs : tab'[s].link = tab[s].link /\ (s # t => tab'[s] = tab[s])
      BY <2>3 DEF TypeOK
    <3>3. UNCHANGED <<link, opened, account, posted>>
      BY <1>6 DEF Recheck, rows, history
    <3>4. \A s \in Tabs : ~AtTab(s, "idle")' => tab'[s].link \in Links
      BY <2>1, <3>2 DEF SpentLinks, AtTab
    <3>5. \A s \in Tabs : AtTab(s, "creating")' =>
              link'[tab'[s].link] # "none" /\ (~account' => opened'[tab'[s].link] = 0)
      BY <3>1, <3>2, <3>3 DEF SpentLinks, AtTab
    <3> QED
      BY <3>3, <3>4, <3>5 DEF SpentLinks
  <2> QED
    BY <1>6, <2>2, <2>3 DEF Recheck
<1>7. ASSUME NEW t \in Tabs, Create(t) PROVE SpentLinks'
  <2> DEFINE i == tab[t].link
  <2>1. i \in Links /\ link[i] # "none" /\ (~account => opened[i] = 0)
    BY <1>7 DEF Create, SpentLinks, AtTab
  <2>2. \A s \in Tabs : tab'[s] = tab[s] \/ tab'[s].at = "idle"
    BY <1>7 DEF Create, LeaveTab, IdleTab, TypeOK
  <2>3. CASE UNCHANGED <<account, link, opened>>
    BY <1>7, <2>2, <2>3, SpentKept DEF Create, TypeOK
  <2>4. CASE MayCreate(i) /\ account' = TRUE /\ link' = Consumed(i) /\ opened' = [opened EXCEPT ![i] = @ + 1]
    <3>1. \A k \in Links : /\ opened'[k] = IF k = i THEN 1 ELSE opened[k]
                           /\ link'[k] = IF k = i THEN "used" ELSE link[k]
      BY <2>1, <2>4 DEF MayCreate, Consumed, TypeOK
    <3>2. \A k \in Links : opened'[k] \in {0, 1} /\ (opened'[k] > 0 => link'[k] \in {"used", "gone"})
      BY <3>1 DEF SpentLinks
    <3>3. \A s \in Tabs : ~AtTab(s, "idle")' => tab'[s].link \in Links
      BY <2>2 DEF SpentLinks, AtTab
    <3>4. \A s \in Tabs : AtTab(s, "creating")' => link'[tab'[s].link] # "none"
      BY <2>2, <3>1, <3>3 DEF SpentLinks, AtTab
    <3>5. \A k \in posted' : link'[k] # "none"
      BY <1>7, <3>1 DEF Create, SpentLinks, TypeOK
    <3> QED
      BY <2>4, <3>2, <3>3, <3>4, <3>5 DEF SpentLinks
  <2> QED
    BY <1>7, <2>3, <2>4 DEF Create
<1>8. ASSUME NEW i \in Links, Expire(i) PROVE SpentLinks'
  <2>1. \A k \in Links : /\ link'[k] = "none" => link[k] = "none"
                         /\ link[k] \in {"used", "gone"} => link'[k] \in {"used", "gone"}
    BY <1>8 DEF Expire, TypeOK
  <2> QED
    BY <1>8, <2>1, SpentKept DEF Expire, history, TypeOK
<1>9. CASE Erase
  <2>1. \A t \in Tabs : AtTab(t, "idle")
    BY <1>9 DEF Erase
  <2> QED
    BY <1>9, <2>1 DEF Erase, SpentLinks, AtTab, history
<1>10. CASE Crash
  <2>1. \A t \in Tabs : tab'[t].at = "idle"
    BY <1>10 DEF Crash, IdleTab
  <2> QED
    BY <1>10, <2>1, SpentKept DEF Crash, rows, TypeOK
<1>11. CASE UNCHANGED <<link, opened, account, posted, tab>>
  BY <1>11, SpentKept DEF TypeOK
<1> QED
  BY <1>1, <1>2, <1>3, <1>4, <1>5, <1>6, <1>7, <1>8, <1>9, <1>10, <1>11
  DEF Next, Lookup, Insert, ApproveBegin, RejectBegin, InviteBegin, Begin, RejectCommit, MailSkipped,
      UndoFails, Purge, Age, vars, rows, history

\* Nobody lets go of an approved request that has reached no one.
LEMMA ReachedKept ==
    ASSUME TypeOK, LinksInHand, InHandOrReached,
           posted \subseteq posted', cut \subseteq cut',
           \A i \in Links : source'[i] = source[i] \/ source[i] = None,
           \A r \in Requests : status[r] # "none" => status'[r] # "none",
           \A r \in Requests : status'[r] = "approved" =>
               \/ /\ status[r] = "approved"
                  /\ \/ r \in cut' \/ LinksOf(r) \cap posted' # {}
                     \/ \E q \in Requests \ {r} : status[q] # "none"
                     \/ \A d \in Desks : Sending(d) /\ desk[d].req = r => Sending(d)' /\ desk'[d].req = r
               \/ \E d \in Desks : Sending(d)' /\ desk'[d].req = r
    PROVE  InHandOrReached'
<1> SUFFICES ASSUME NEW r \in Requests, status'[r] = "approved", r \notin cut',
                    \A d \in Desks : ~(Sending(d)' /\ desk'[d].req = r),
                    \A q \in Requests \ {r} : status'[q] = "none"
             PROVE  LinksOf(r)' \cap posted' # {}
  BY DEF InHandOrReached
<1>1. \A q \in Requests \ {r} : status[q] = "none"
  OBVIOUS
<1>2. LinksOf(r) \cap posted' # {}
  BY <1>1 DEF InHandOrReached
<1>3. LinksOf(r) \subseteq LinksOf(r)'
  BY Bounds DEF LinksOf
<1> QED
  BY <1>2, <1>3

LEMMA ReachedStep ==
    ASSUME MembershipInv, [Next]_vars PROVE InHandOrReached'
<1> USE DEF MembershipInv
<1>n. \A r \in Requests : status[r] # "none" => status'[r] # "none"
  BY RequestMoves DEF Filed
<1>s. \A i \in Links : source'[i] = source[i] \/ source[i] = None
  <2>1. ASSUME NEW d \in Desks, ApproveCommit(d)
        PROVE  \A i \in Links : source'[i] = source[i] \/ source[i] = None
    <3>1. desk[d].link \in Links /\ source[desk[d].link] = None
      BY <2>1 DEF ApproveCommit, LinksInHand, AtDesk
    <3> QED
      BY <2>1, <3>1 DEF ApproveCommit, TypeOK
  <2>2. CASE UNCHANGED source
    BY <2>2
  <2> QED
    BY <2>1, <2>2
    DEF Next, Lookup, Insert, ApproveBegin, RejectBegin, InviteBegin, Begin, InviteCommit, RejectCommit,
        MailTaken, MailSkipped, MailThrows, Undo, UndoFails, Peek, Recheck, Create, Expire, Purge, Age,
        Erase, Crash, vars, history
<1>p. posted \subseteq posted' /\ cut \subseteq cut'
  BY DEF Next, Lookup, Insert, ApproveBegin, RejectBegin, InviteBegin, Begin, ApproveCommit,
        InviteCommit, RejectCommit, MailTaken, MailSkipped, MailThrows, Undo, UndoFails, Peek, Recheck,
        Create, Expire, Purge, Age, Erase, Crash, vars, history
<1>k. ASSUME \A r \in Requests : status'[r] = "approved" => status[r] = "approved",
             \A d \in Desks : Sending(d) => Sending(d)' /\ desk'[d].req = desk[d].req
      PROVE  InHandOrReached'
  BY <1>k, <1>n, <1>s, <1>p, ReachedKept
<1>1. ASSUME NEW d \in Desks, AtDesk(d, "idle") \/ AtDesk(d, "rejecting"),
             NEW x, desk' = [desk EXCEPT ![d] = x],
             \A r \in Requests : status'[r] = "approved" => status[r] = "approved"
      PROVE  InHandOrReached'
  <2>1. \A e \in Desks : Sending(e) => desk'[e] = desk[e]
    BY <1>1, DeskOf DEF Sending, AtDesk
  <2> QED
    BY <1>1, <1>k, <2>1 DEF Sending
<1>2. ASSUME NEW d \in Desks, InviteBegin(d) \/ (\E r \in Requests : ApproveBegin(d, r) \/ RejectBegin(d, r))
      PROVE  InHandOrReached'
  <2>1. AtDesk(d, "idle") /\ (\E x : desk' = [desk EXCEPT ![d] = x]) /\ UNCHANGED status
    BY <1>2 DEF ApproveBegin, InviteBegin, Begin, RejectBegin, rows
  <2> QED
    BY <1>1, <2>1
<1>3. ASSUME NEW d \in Desks, RejectCommit(d) PROVE InHandOrReached'
  <2>1. \A r \in Requests : status'[r] = "approved" => status[r] = "approved"
    BY <1>3 DEF RejectCommit, TypeOK
  <2> QED
    BY <1>1, <1>3, <2>1 DEF RejectCommit, Leave
<1>4. ASSUME NEW d \in Desks, ApproveCommit(d) PROVE InHandOrReached'
  <2>1. AtDesk(d, "approving") /\ ~Sending(d)
    BY <1>4 DEF ApproveCommit, AtDesk, Sending
  <2>2. CASE Leave(d) /\ UNCHANGED status
    <3>1. \A e \in Desks : Sending(e) => desk'[e] = desk[e]
      BY <2>1, <2>2, DeskOf DEF Leave
    <3> QED
      BY <1>k, <2>2, <3>1 DEF Sending
  <2>3. CASE Mail(d) /\ status' = [status EXCEPT ![desk[d].req] = "approved"]
    <3> DEFINE x == [desk[d] EXCEPT !.at = "mailing", !.victims = {}]
    <3>1. desk' = [desk EXCEPT ![d] = x]
      BY <2>3 DEF Mail
    <3>2. x.at = "mailing" /\ x.req = desk[d].req
      BY DEF TypeOK
    <3> HIDE DEF x
    <3>3. \A e \in Desks : desk'[e] = IF e = d THEN x ELSE desk[e]
      BY <3>1, DeskOf
    <3>4. Sending(d)' /\ desk'[d].req = desk[d].req /\ \A e \in Desks : Sending(e) => desk'[e] = desk[e]
      BY <2>1, <3>2, <3>3 DEF Sending
    <3>5. \A r \in Requests : status'[r] = "approved" => status[r] = "approved" \/ r = desk[d].req
      BY <2>3 DEF TypeOK
    <3>6. \A e \in Desks : Sending(e) => Sending(e)' /\ desk'[e].req = desk[e].req
      BY <3>4 DEF Sending
    <3>7. \A r \in Requests : status'[r] = "approved" =>
             \/ /\ status[r] = "approved"
                /\ \A e \in Desks : Sending(e) /\ desk[e].req = r => Sending(e)' /\ desk'[e].req = r
             \/ \E e \in Desks : Sending(e)' /\ desk'[e].req = r
      BY <3>4, <3>5, <3>6
    <3> QED
      BY <1>n, <1>s, <1>p, <3>7, ReachedKept
  <2> QED
    BY <1>4, <2>2, <2>3 DEF ApproveCommit
<1>5. ASSUME NEW d \in Desks, InviteCommit(d) PROVE InHandOrReached'
  <2>1. \A e \in Desks : Sending(e) => desk'[e] = desk[e]
    BY <1>5 DEF InviteCommit, Mail, AtDesk, Sending, TypeOK
  <2> QED
    BY <1>5, <1>k, <2>1 DEF InviteCommit, Sending
<1>l. ASSUME NEW d \in Desks, Leave(d),
             \A r \in Requests : status'[r] = "approved" => status[r] = "approved",
             \A r \in Requests : desk[d].req = r /\ status'[r] = "approved" =>
                 \/ r \in cut' \/ LinksOf(r) \cap posted' # {}
                 \/ \E q \in Requests \ {r} : status[q] # "none"
      PROVE  InHandOrReached'
  <2>1. \A e \in Desks : e # d => desk'[e] = desk[e]
    BY <1>l, DeskOf DEF Leave
  <2>2. \A r \in Requests : desk[d].req # r =>
           \A e \in Desks : Sending(e) /\ desk[e].req = r => Sending(e)' /\ desk'[e].req = r
    BY <2>1 DEF Sending
  <2> QED
    BY <1>l, <1>n, <1>s, <1>p, <2>2, ReachedKept
<1>6. ASSUME NEW d \in Desks, MailTaken(d) PROVE InHandOrReached'
  <2>1. ASSUME NEW r \in Requests, desk[d].req = r PROVE LinksOf(r) \cap posted' # {}
    <3>1. desk[d].link \in Links /\ source[desk[d].link] = r
      BY <1>6, <2>1, Bounds DEF MailTaken, AtDesk, LinksInHand, OneHand, Sending
    <3> QED
      BY <1>6, <3>1 DEF MailTaken, LinksOf
  <2> QED
    BY <1>6, <1>l, <2>1 DEF MailTaken, rows
<1>7. ASSUME NEW d \in Desks, MailSkipped(d) \/ UndoFails(d) PROVE InHandOrReached'
  <2>1. ASSUME NEW r \in Requests, desk[d].req = r PROVE r \in cut'
    BY <1>7, <2>1, Bounds DEF MailSkipped, UndoFails, Requested
  <2> QED
    BY <1>7, <1>l, <2>1 DEF MailSkipped, UndoFails, rows
<1>8. ASSUME NEW d \in Desks, MailThrows(d) PROVE InHandOrReached'
  <2>1. \A e \in Desks : Sending(e) => Sending(e)' /\ desk'[e].req = desk[e].req
    BY <1>8 DEF MailThrows, Sending, TypeOK
  <2> QED
    BY <1>8, <1>k, <2>1 DEF MailThrows, rows
<1>9. ASSUME NEW d \in Desks, Undo(d) PROVE InHandOrReached'
  <2>1. Leave(d)
    BY <1>9 DEF Undo
  <2>2. \A r \in Requests : status'[r] = "approved" => status[r] = "approved"
    BY <1>9 DEF Undo, Reverted, TypeOK
  <2>3. ASSUME NEW r \in Requests, desk[d].req = r, status'[r] = "approved"
        PROVE  \E q \in Requests \ {r} : status[q] # "none"
    <3>1. status[r] = "approved" /\ r # None
      BY <2>2, <2>3, Bounds
    <3>2. Reverted(r) = [status EXCEPT ![r] = "pending"]
      BY <3>1 DEF Reverted
    <3>3. Reverted(r)[r] = "pending"
      BY <3>2 DEF TypeOK
    <3>4. status' # Reverted(r)
      BY <2>3, <3>3
    <3>5. PendingTaken(r)
      BY <1>9, <2>3, <3>4 DEF Undo
    <3> QED
      BY <3>5 DEF PendingTaken, Pending
  <2> QED
    BY <1>l, <2>1, <2>2, <2>3
<1>10. CASE Crash
  <2>1. \A d \in Desks, r \in Requests : Sending(d) /\ desk[d].req = r => r \in cut'
    <3>1. ASSUME NEW d \in Desks, NEW r \in Requests, Sending(d), desk[d].req = r PROVE r \in cut'
      <4>1. d \in {e \in Desks : desk[e].at \in {"mailing", "undoing"}}
        BY <3>1 DEF Sending
      <4>2. r \in Requested(d)
        BY <3>1, Bounds DEF Requested
      <4> QED
        BY <1>10, <4>1, <4>2 DEF Crash
    <3> QED
      BY <3>1
  <2>2. \A r \in Requests : status'[r] = "approved" =>
            /\ status[r] = "approved"
            /\ \/ r \in cut'
               \/ \A d \in Desks : Sending(d) /\ desk[d].req = r => Sending(d)' /\ desk'[d].req = r
    BY <1>10, <2>1 DEF Crash, rows
  <2> QED
    BY <1>n, <1>s, <1>p, <2>2, ReachedKept
<1>11. CASE UNCHANGED desk /\ \A r \in Requests : status'[r] = "approved" => status[r] = "approved"
  BY <1>11, <1>k DEF Sending
<1>12. ASSUME NEW v \in Visits, Insert(v) PROVE InHandOrReached'
  <2>1. \A r \in Requests : status'[r] = "approved" => status[r] = "approved"
    BY <1>12 DEF Insert, TypeOK
  <2> QED
    BY <1>11, <1>12, <2>1 DEF Insert
<1>13. CASE Purge
  <2>1. \A r \in Requests : status'[r] = "approved" => status[r] = "approved"
    BY <1>13 DEF Purge
  <2> QED
    BY <1>11, <1>13, <2>1 DEF Purge
<1>14. CASE UNCHANGED <<desk, status>>
  BY <1>11, <1>14
<1> QED
  BY <1>2, <1>3, <1>4, <1>5, <1>6, <1>7, <1>8, <1>9, <1>10, <1>12, <1>13, <1>14
  DEF Next, Lookup, Peek, Recheck, Create, Expire, Age, Erase, vars, rows

-----------------------------------------------------------------------------
(* The theorems                                                            *)

LEMMA MembershipStep == ASSUME MembershipInv, [Next]_vars PROVE MembershipInv'
  BY TypeStep, InHandStep, RoomStep, SpentStep, OneHandStep, ReachedStep DEF MembershipInv

THEOREM MembershipCorrect == Spec => []MembershipInv
  BY MembershipInit, MembershipStep, PTL DEF Spec

\* Every variable keeps its type.
THEOREM TypeCorrect == Spec => []TypeOK
  BY MembershipCorrect, PTL DEF MembershipInv

\* Whatever admins, failing mails and deaths of the process do, a request has
\* one unused link at most.
THEOREM OneLink == Spec => []OneLinkPerRequest
<1>1. ASSUME MembershipInv PROVE OneLinkPerRequest
  <2> SUFFICES ASSUME NEW r \in Requests PROVE Cardinality(LinksOf(r) \cap Unused) <= 1
    BY DEF OneLinkPerRequest
  <2> DEFINE S == LinksOf(r) \cap Unused
  <2>1. \A i, j \in S : i = j
    BY <1>1, Bounds DEF MembershipInv, OneHand, LinksOf
  <2>2. S = {} \/ \E i : S = {i}
    BY <2>1
  <2>3. Cardinality(S) = 0 \/ Cardinality(S) = 1
    BY <2>2, FS_EmptySet, FS_Singleton
  <2> HIDE DEF S
  <2>4. Cardinality(S) <= 1
    BY <2>3
  <2> QED
    BY <2>4 DEF S
<1> QED
  BY <1>1, MembershipCorrect, PTL

\* A link makes one account, for any number of tabs that submit it at once,
\* and also after the account it made has been erased.
THEOREM LinkOnce == Spec => []LinkOpensOnce
<1>1. MembershipInv => LinkOpensOnce
  BY DEF MembershipInv, SpentLinks, LinkOpensOnce
<1> QED
  BY <1>1, MembershipCorrect, PTL

\* An approval whose mail throws is taken back, unless a fault cut it short or
\* its author has another request.
THEOREM ApprovalReaches == Spec => []ApprovalReachesSomeone
<1>1. MembershipInv => ApprovalReachesSomeone
  BY DEF MembershipInv, InHandOrReached, ApprovalReachesSomeone, AtWork
<1> QED
  BY <1>1, MembershipCorrect, PTL

\* No approval, however old the page it was clicked on, and no rollback takes a
\* refusal back.
THEOREM RejectionFinal == Spec => RejectionIsTerminal
<1>1. MembershipInv /\ [Next]_vars =>
        [\A r \in Requests : status[r] = "rejected" => status'[r] \in {"rejected", "gone"}]_vars
  BY RequestMoves DEF MembershipInv
<1> QED
  BY <1>1, MembershipCorrect, PTL DEF Spec, RejectionIsTerminal

================================================================================
