------------------------ MODULE CircleFormationProofs ------------------------
(***************************************************************************)
(* Proofs about CircleFormation, for every target, set of people, invites  *)
(* and concurrent requests: its type invariant, and what a schedule can    *)
(* rely on although no request locks the circle.                           *)
(***************************************************************************)
EXTENDS CircleFormation, FiniteSetTheorems, TLAPS

(* Who is about to agree is a member; members never leave.                  *)
AgreeingMembers ==
  \A s \in Sessions : Doing(s, "agree") => job[s].who \in members

(* lock() has counted the members, and its circle has not been put back, or   *)
(* somebody still goes by that count.                                        *)
Counted ==
  \/ state \in {"draw_pending", "active"}
  \/ \E s \in Sessions : job[s].op \in {"lock", "ready", "reveal"}

(* From that count on nobody else begins to join: whoever is not late was a  *)
(* member by then.                                                           *)
Closed ==
  /\ Cardinality(members) >= Target
  /\ Cardinality(members \ late) <= Target
  /\ \A s \in Sessions : job[s].op \in {"join", "joined"} => job[s].who \in members \cup late

CountIsKept == Counted => Closed

(* Once the agreements were counted, there are enough of them: for those who *)
(* are about to write a later state, too.                                    *)
EnoughAgreed ==
  /\ state \in {"draw_pending", "active"} => Cardinality(agreed) >= Target
  /\ \A s \in Sessions :
       job[s].op \in {"ready", "reveal"} => Cardinality(agreed) >= Target

Follows(made) ==
  /\ draw # NoDraw
  /\ Len(made) <= Len(draw)
  /\ \A c \in DOMAIN made :
       /\ made[c].recipient = draw[c]
       /\ Range(draw) \subseteq made[c].payers
       /\ made[c].payers \subseteq Range(draw) \cup late

(* A schedule, finished or not, follows the committed draw, and everybody    *)
(* in the draw is still a member while it is made, and few others are.       *)
ScheduleFollowsDraw ==
  /\ cycles # <<>> => Follows(cycles) /\ Len(cycles) = Len(draw)
  /\ \A s \in Sessions :
       Doing(s, "reveal") =>
         /\ Follows(job[s].made)
         /\ Range(draw) \subseteq members
         /\ members \subseteq Range(draw) \cup late

IInv == TypeOK /\ AgreeingMembers /\ CountIsKept /\ EnoughAgreed /\ ScheduleFollowsDraw

-----------------------------------------------------------------------------
LEMMA JobTypes ==
  ASSUME NEW j \in Job
  PROVE  /\ j.op = "join" => j.who \in People /\ j.invite \in Invites
                              /\ j.seen \in {"recruiting", "agreement_pending"}
                              /\ j.new \in BOOLEAN
         /\ j.op = "joined" => j.who \in People /\ j.invite \in Invites /\ j.fills \in BOOLEAN
         /\ j.op = "agree" => j.who \in People
         /\ j.op = "draw" => j.order \in Orders
         /\ j.op = "reveal" => j.fresh \in BOOLEAN /\ j.made \in Seq(Cycle)
         /\ j.op \in {"idle", "lock", "ready", "join", "joined", "agree", "draw", "reveal"}
  BY DEF Job

LEMMA RevealingJob ==
  ASSUME NEW j \in Job, j.op = "reveal", NEW made \in Seq(Cycle)
  PROVE  [j EXCEPT !.made = made] = [op |-> "reveal", fresh |-> j.fresh, made |-> made]
<1>1. j \in [op : {"reveal"}, fresh : BOOLEAN, made : Seq(Cycle)]
  BY DEF Job
<1>2. QED
  BY <1>1

LEMMA IdleIsJob == Idle \in Job /\ Idle.op = "idle"
  BY DEF Idle, Job

LEMMA OrderTypes ==
  ASSUME NEW order \in Orders
  PROVE  order \in Seq(People) /\ Range(order) \subseteq People
  BY DEF Orders, Range

(* One session's job changes, the others go on with theirs.                 *)
LEMMA JobUpdate ==
  ASSUME NEW s \in Sessions, NEW work \in Job, job \in [Sessions -> Job], Do(s, work)
  PROVE  /\ job' \in [Sessions -> Job]
         /\ job'[s] = work
         /\ \A t \in Sessions : t # s => job'[t] = job[t]
  BY DEF Do

LEMMA AgreedGrows ==
  ASSUME agreed \subseteq agreed', agreed' \subseteq People
  PROVE  Cardinality(agreed) >= Target => Cardinality(agreed') >= Target
<1>1. IsFiniteSet(agreed')
  BY FS_Subset, CircleAssumption
<1>2. IsFiniteSet(agreed) /\ Cardinality(agreed) <= Cardinality(agreed')
  BY <1>1, FS_Subset
<1>3. Cardinality(agreed) \in Nat /\ Cardinality(agreed') \in Nat
  BY <1>1, <1>2, FS_CardinalityType
<1>4. QED
  BY <1>2, <1>3, CircleAssumption

LEMMA MembersGrow ==
  ASSUME members \subseteq members', members' \subseteq People,
         members' \ late \subseteq members \ late,
         Cardinality(members) >= Target, Cardinality(members \ late) <= Target
  PROVE  Cardinality(members') >= Target /\ Cardinality(members' \ late) <= Target
<1>1. IsFiniteSet(members') /\ IsFiniteSet(members)
  BY FS_Subset, CircleAssumption
<1>2. IsFiniteSet(members \ late) /\ IsFiniteSet(members' \ late)
  BY <1>1, FS_Subset
<1>3. /\ Cardinality(members) <= Cardinality(members')
      /\ Cardinality(members' \ late) <= Cardinality(members \ late)
  BY <1>1, <1>2, FS_Subset
<1>4. /\ Cardinality(members) \in Nat /\ Cardinality(members') \in Nat
      /\ Cardinality(members \ late) \in Nat /\ Cardinality(members' \ late) \in Nat
  BY <1>1, <1>2, FS_CardinalityType
<1>5. QED
  BY <1>3, <1>4, CircleAssumption

(* What most steps have in common: members and agreements only grow, draw    *)
(* and cycles stay, and one session takes up work it is entitled to.         *)
LEMMA WorkKeepsRest ==
  ASSUME IInv, NEW s \in Sessions, NEW work \in Job, Do(s, work),
         members \subseteq members', members' \subseteq People,
         agreed \subseteq agreed', agreed' \subseteq People,
         draw' = draw, cycles' = cycles, late' = late,
         Counted => members' \ late \subseteq members \ late,
         state' \in {"draw_pending", "active"} \/ work.op \in {"lock", "ready", "reveal"} => Counted,
         Counted /\ work.op \in {"join", "joined"} => work.who \in members \cup late,
         work.op = "agree" => work.who \in members,
         work.op \in {"ready", "reveal"} => Cardinality(agreed) >= Target,
         work.op = "reveal" =>
           /\ Follows(work.made)
           /\ Range(draw) \subseteq members
           /\ members \subseteq Range(draw) \cup late,
         state' \in {"draw_pending", "active"} =>
           state \in {"draw_pending", "active"} \/ Cardinality(agreed) >= Target
  PROVE  AgreeingMembers' /\ CountIsKept' /\ EnoughAgreed' /\ ScheduleFollowsDraw'
<1>1. /\ job'[s] = work
      /\ \A t \in Sessions : t # s => job'[t] = job[t]
  BY JobUpdate DEF IInv, TypeOK
<1>2. AgreeingMembers'
  BY <1>1 DEF IInv, AgreeingMembers, Doing
<1>3. CountIsKept'
  <2> SUFFICES ASSUME Counted' PROVE Closed'
    BY DEF CountIsKept
  <2>1. Counted
    BY <1>1 DEF Counted
  <2>2. Closed
    BY <2>1 DEF IInv, CountIsKept
  <2>3. Cardinality(members') >= Target /\ Cardinality(members' \ late) <= Target
    BY <2>1, <2>2, MembersGrow DEF Closed
  <2>4. \A t \in Sessions :
          job'[t].op \in {"join", "joined"} => job'[t].who \in members' \cup late
    BY <1>1, <2>1, <2>2 DEF Closed
  <2>5. QED
    BY <2>3, <2>4 DEF Closed
<1>4. EnoughAgreed'
  BY <1>1, AgreedGrows DEF IInv, EnoughAgreed
<1>5. ScheduleFollowsDraw'
  <2>1. \A made : Follows(made)' <=> Follows(made)
    BY DEF Follows
  <2>2. cycles' # <<>> => Follows(cycles)' /\ Len(cycles') = Len(draw')
    BY <2>1 DEF IInv, ScheduleFollowsDraw
  <2>3. ASSUME NEW t \in Sessions, Doing(t, "reveal")'
        PROVE /\ Follows(job[t].made)'
              /\ Range(draw') \subseteq members'
              /\ members' \subseteq Range(draw') \cup late'
    <3>1. CASE t = s
      <4>1. work.op = "reveal" /\ Counted
        BY <1>1, <2>3, <3>1 DEF Doing
      <4>2. QED
        BY <1>1, <3>1, <4>1 DEF Follows
    <3>2. CASE t # s
      <4>1. Doing(t, "reveal") /\ job'[t] = job[t] /\ Counted
        BY <1>1, <2>3, <3>2 DEF Doing, Counted
      <4>2. QED
        BY <4>1 DEF IInv, ScheduleFollowsDraw, Follows
    <3>3. QED
      BY <3>1, <3>2
  <2>4. QED
    BY <2>2, <2>3 DEF ScheduleFollowsDraw
<1>6. QED
  BY <1>2, <1>3, <1>4, <1>5

-----------------------------------------------------------------------------
LEMMA InitIInv == Init => IInv
<1> SUFFICES ASSUME Init PROVE IInv
  OBVIOUS
<1> USE DEF Init
<1>1. TypeOK
  <2>1. job \in [Sessions -> Job]
    BY IdleIsJob
  <2>2. cycles \in Seq(Cycle)
    OBVIOUS
  <2>3. QED
    BY <2>1, <2>2, CircleAssumption DEF TypeOK
<1>2. AgreeingMembers /\ CountIsKept /\ EnoughAgreed /\ ScheduleFollowsDraw
  BY IdleIsJob DEF AgreeingMembers, CountIsKept, Counted, EnoughAgreed, ScheduleFollowsDraw, Doing
<1>3. QED
  BY <1>1, <1>2 DEF IInv

LEMMA InviteIInv ==
  ASSUME IInv, NEW i \in Invites, Invite(i)
  PROVE  IInv'
<1> USE DEF Invite
<1>1. TypeOK'
  BY DEF IInv, TypeOK
<1>2. AgreeingMembers' /\ CountIsKept' /\ EnoughAgreed' /\ ScheduleFollowsDraw'
  BY DEF IInv, AgreeingMembers, CountIsKept, Counted, Closed, EnoughAgreed,
         ScheduleFollowsDraw, Doing, Follows
<1>3. QED
  BY <1>1, <1>2 DEF IInv

(* Work that changes nothing but the session, and is none of the three that  *)
(* carry a promise.                                                          *)
LEMMA PlainWorkIInv ==
  ASSUME IInv, NEW s \in Sessions, NEW work \in Job, Do(s, work),
         work.op \in {"idle", "join", "joined", "draw"},
         Counted /\ work.op \in {"join", "joined"} => work.who \in members \cup late,
         UNCHANGED <<state, members, invites, agreed, draw, cycles, late>>
  PROVE  IInv'
<1>1. TypeOK'
  BY JobUpdate DEF IInv, TypeOK
<1>2. AgreeingMembers' /\ CountIsKept' /\ EnoughAgreed' /\ ScheduleFollowsDraw'
  BY WorkKeepsRest DEF IInv, TypeOK, Counted
<1>3. QED
  BY <1>1, <1>2 DEF IInv

LEMMA JoinIInv ==
  ASSUME IInv, NEW s \in Sessions, NEW p \in People, NEW i \in Invites, Join(s, p, i)
  PROVE  IInv'
<1> DEFINE work == [op |-> "join", who |-> p, invite |-> i, seen |-> state, new |-> p \notin members]
<1>1. work \in Job /\ work.op = "join"
  BY DEF Job, Join, IsOpen
<1>2. Do(s, work) /\ UNCHANGED <<state, members, invites, agreed, draw, cycles, late>>
  BY DEF Join
<1>3. Counted => p \in members
  <2>1. IsFiniteSet(members)
    BY FS_Subset, CircleAssumption DEF IInv, TypeOK
  <2>2. Cardinality(members) \in Nat
    BY <2>1, FS_CardinalityType
  <2>3. QED
    BY <2>2, CircleAssumption DEF Join, IInv, CountIsKept, Closed
<1>4. work.who = p
  OBVIOUS
<1> HIDE DEF work
<1>5. QED
  BY <1>1, <1>2, <1>3, <1>4, PlainWorkIInv

LEMMA AddMemberIInv ==
  ASSUME IInv, NEW s \in Sessions, AddMember(s)
  PROVE  IInv'
<1> DEFINE full == Cardinality(members \cup {job[s].who}) >= Target
           work == [op |-> "joined", who |-> job[s].who, invite |-> job[s].invite, fills |-> full]
<1>1. job[s].who \in People /\ job[s].invite \in Invites
  BY JobTypes DEF IInv, TypeOK, AddMember, Doing
<1>2. work \in Job /\ work.op = "joined" /\ work.who = job[s].who
  BY <1>1 DEF Job
<1>3. Do(s, work) /\ UNCHANGED <<state, members, invites, agreed, draw, cycles, late>>
  BY DEF AddMember
<1>4. Counted => job[s].who \in members \cup late
  BY DEF AddMember, Doing, IInv, CountIsKept, Closed
<1> HIDE DEF work
<1>5. QED
  BY <1>2, <1>3, <1>4, PlainWorkIInv

(* Who joins after the count was joining when it was made.                   *)
LEMMA CommitJoinIInv ==
  ASSUME IInv, NEW s \in Sessions, CommitJoin(s)
  PROVE  IInv'
<1> USE DEF CommitJoin, Done
<1>1. job[s].who \in People /\ job[s].invite \in Invites
  BY JobTypes DEF IInv, TypeOK, Doing
<1>2. TypeOK'
  <2>1. job' \in [Sessions -> Job]
    BY IdleIsJob, JobUpdate DEF IInv, TypeOK
  <2>2. QED
    BY <1>1, <2>1 DEF IInv, TypeOK
<1>3. AgreeingMembers' /\ CountIsKept' /\ EnoughAgreed' /\ ScheduleFollowsDraw'
  <2>1. /\ members \subseteq members' /\ members' \subseteq People
        /\ agreed \subseteq agreed' /\ agreed' \subseteq People
    BY <1>1 DEF IInv, TypeOK
  <2>2. Counted => members' \ late \subseteq members \ late
    BY DEF Doing, IInv, CountIsKept, Closed
  <2>3. state' \in {"draw_pending", "active"} => state' = state
    OBVIOUS
  <2>4. state' \in {"draw_pending", "active"} => Counted
    BY <2>3 DEF Counted
  <2>5. QED
    BY <2>1, <2>2, <2>3, <2>4, IdleIsJob, WorkKeepsRest
<1>4. QED
  BY <1>2, <1>3 DEF IInv

LEMMA AgreeIInv ==
  ASSUME IInv, NEW s \in Sessions, NEW p \in People, Agree(s, p)
  PROVE  IInv'
<1> DEFINE work == [op |-> "agree", who |-> p]
<1>1. work \in Job /\ work.op = "agree" /\ work.who \in members
  BY DEF Job, Agree
<1>2. Do(s, work) /\ UNCHANGED <<state, members, invites, agreed, draw, cycles, late>>
  BY DEF Agree
<1> HIDE DEF work
<1>3. TypeOK'
  BY <1>1, <1>2, JobUpdate DEF IInv, TypeOK
<1>4. AgreeingMembers' /\ CountIsKept' /\ EnoughAgreed' /\ ScheduleFollowsDraw'
  BY <1>1, <1>2, WorkKeepsRest DEF IInv, TypeOK, Counted
<1>5. QED
  BY <1>3, <1>4 DEF IInv

LEMMA CommitAgreeIInv ==
  ASSUME IInv, NEW s \in Sessions, CommitAgree(s)
  PROVE  IInv'
<1> USE DEF CommitAgree, Done
<1>1. job[s].who \in members
  BY DEF IInv, AgreeingMembers
<1>2. TypeOK'
  <2>1. job' \in [Sessions -> Job]
    BY IdleIsJob, JobUpdate DEF IInv, TypeOK
  <2>2. QED
    BY <1>1, <2>1 DEF IInv, TypeOK
<1>3. AgreeingMembers' /\ CountIsKept' /\ EnoughAgreed' /\ ScheduleFollowsDraw'
  <2>1. /\ members \subseteq members' /\ members' \subseteq People
        /\ agreed \subseteq agreed' /\ agreed' \subseteq People
    BY <1>1 DEF IInv, TypeOK
  <2>2. QED
    BY <2>1, IdleIsJob, WorkKeepsRest DEF Counted
<1>4. QED
  BY <1>2, <1>3 DEF IInv

(* The count: those who are joining now become late, and nobody else is.     *)
LEMMA LockIInv ==
  ASSUME IInv, NEW s \in Sessions, Lock(s)
  PROVE  IInv'
<1> USE DEF Lock
<1>1. [op |-> "lock"] \in Job
  BY DEF Job
<1>2. /\ job' \in [Sessions -> Job]
      /\ job'[s] = [op |-> "lock"]
      /\ \A t \in Sessions : t # s => job'[t] = job[t]
  BY <1>1, JobUpdate DEF IInv, TypeOK
<1>3. late \subseteq late' /\ late' \subseteq People
  <2>1. Joining \subseteq People
    BY JobTypes DEF Joining, IInv, TypeOK
  <2>2. QED
    BY <2>1 DEF IInv, TypeOK
<1>4. TypeOK'
  BY <1>2, <1>3 DEF IInv, TypeOK
<1>5. AgreeingMembers' /\ EnoughAgreed'
  BY <1>2 DEF IInv, AgreeingMembers, EnoughAgreed, Doing
<1>6. CountIsKept'
  <2>1. IsFiniteSet(members)
    BY FS_Subset, CircleAssumption DEF IInv, TypeOK
  <2>2. Cardinality(members \ late') <= Cardinality(members) /\ Cardinality(members) = Target
    BY <2>1, FS_Subset
  <2>3. Cardinality(members) >= Target /\ Cardinality(members \ late') <= Target
    BY <2>2, CircleAssumption
  <2>4. \A t \in Sessions :
          job'[t].op \in {"join", "joined"} => job'[t].who \in members \cup late'
    BY <1>2 DEF Joining
  <2>5. QED
    BY <2>3, <2>4 DEF CountIsKept, Closed
<1>7. ScheduleFollowsDraw'
  BY <1>2, <1>3 DEF IInv, ScheduleFollowsDraw, Doing, Follows
<1>8. QED
  BY <1>4, <1>5, <1>6, <1>7 DEF IInv

LEMMA CountAgreementsIInv ==
  ASSUME IInv, NEW s \in Sessions, CountAgreements(s)
  PROVE  IInv'
<1> DEFINE work == [op |-> "ready"]
<1>1. work \in Job /\ work.op = "ready"
  BY DEF Job
<1>2. Do(s, work) /\ UNCHANGED <<state, members, invites, agreed, draw, cycles, late>>
  BY DEF CountAgreements
<1>3. Cardinality(agreed) >= Target
  BY CircleAssumption DEF CountAgreements, AllAgreed
<1>4. Counted
  BY DEF CountAgreements, Doing, Counted
<1> HIDE DEF work
<1>5. TypeOK'
  BY <1>1, <1>2, JobUpdate DEF IInv, TypeOK
<1>6. AgreeingMembers' /\ CountIsKept' /\ EnoughAgreed' /\ ScheduleFollowsDraw'
  BY <1>1, <1>2, <1>3, <1>4, WorkKeepsRest DEF IInv, TypeOK
<1>7. QED
  BY <1>5, <1>6 DEF IInv

LEMMA CommitLockIInv ==
  ASSUME IInv, NEW s \in Sessions, CommitLock(s)
  PROVE  IInv'
<1> USE DEF CommitLock, Done
<1>1. Cardinality(agreed) >= Target /\ Counted
  BY DEF IInv, EnoughAgreed, Doing, Counted
<1>2. TypeOK'
  <2>1. job' \in [Sessions -> Job]
    BY IdleIsJob, JobUpdate DEF IInv, TypeOK
  <2>2. QED
    BY <2>1 DEF IInv, TypeOK, AfterLock
<1>3. AgreeingMembers' /\ CountIsKept' /\ EnoughAgreed' /\ ScheduleFollowsDraw'
  BY <1>1, IdleIsJob, WorkKeepsRest DEF IInv, TypeOK
<1>4. QED
  BY <1>2, <1>3 DEF IInv

LEMMA CommitDrawIInv ==
  ASSUME IInv, NEW s \in Sessions, NEW order \in Orders, CommitDraw(s, order)
  PROVE  IInv'
<1> DEFINE work == [op |-> "draw", order |-> order]
<1>1. work \in Job /\ work.op = "draw"
  BY DEF Job
<1>2. Do(s, work) /\ UNCHANGED <<state, members, invites, agreed, draw, cycles, late>>
  BY DEF CommitDraw
<1> HIDE DEF work
<1>3. QED
  BY <1>1, <1>2, PlainWorkIInv

(* Before the draw is there nobody reveals, and there is no schedule.       *)
LEMMA StoreDrawIInv ==
  ASSUME IInv, NEW s \in Sessions, StoreDraw(s)
  PROVE  IInv'
<1> USE DEF StoreDraw, Done
<1>1. job[s].order \in Orders
  BY JobTypes DEF IInv, TypeOK, Doing
<1>2. /\ job' \in [Sessions -> Job]
      /\ job'[s] = Idle
      /\ \A t \in Sessions : t # s => job'[t] = job[t]
  BY IdleIsJob, JobUpdate DEF IInv, TypeOK
<1>3. TypeOK'
  BY <1>1, <1>2 DEF IInv, TypeOK
<1>4. AgreeingMembers' /\ EnoughAgreed'
  BY <1>2, IdleIsJob DEF IInv, AgreeingMembers, EnoughAgreed, Doing
<1>5. ScheduleFollowsDraw'
  <2>1. cycles = <<>> /\ \A t \in Sessions : ~Doing(t, "reveal")
    BY DEF IInv, ScheduleFollowsDraw, Follows, IsUndrawn
  <2>2. QED
    BY <1>2, <2>1, IdleIsJob DEF ScheduleFollowsDraw, Doing
<1>6. CountIsKept'
  BY <1>2, IdleIsJob DEF IInv, CountIsKept, Counted, Closed
<1>7. QED
  BY <1>3, <1>4, <1>5, <1>6 DEF IInv

LEMMA RevealDrawIInv ==
  ASSUME IInv, NEW s \in Sessions, RevealDraw(s)
  PROVE  IInv'
<1> DEFINE work == [op |-> "reveal", fresh |-> cycles = <<>>, made |-> <<>>]
<1>1. work \in Job /\ work.op = "reveal" /\ work.made = <<>>
  <2>1. <<>> \in Seq(Cycle)
    OBVIOUS
  <2>2. QED
    BY <2>1 DEF Job
<1>2. Do(s, work) /\ UNCHANGED <<state, members, invites, agreed, draw, cycles, late>>
  BY DEF RevealDraw
<1>3. Cardinality(agreed) >= Target /\ Counted
  BY DEF IInv, EnoughAgreed, RevealDraw, Counted
<1> HIDE DEF work
<1>4. /\ Follows(work.made)
      /\ Range(draw) \subseteq members
      /\ members \subseteq Range(draw) \cup late
  <2>1. draw \in Seq(People)
    BY OrderTypes DEF IInv, TypeOK, RevealDraw
  <2>2. Len(<<>>) <= Len(draw) /\ DOMAIN <<>> = {}
    BY <2>1
  <2>3. QED
    BY <1>1, <2>2 DEF RevealDraw, MatchesCommitment, Follows
<1>5. TypeOK'
  BY <1>1, <1>2, JobUpdate DEF IInv, TypeOK
<1>6. AgreeingMembers' /\ CountIsKept' /\ EnoughAgreed' /\ ScheduleFollowsDraw'
  BY <1>1, <1>2, <1>3, <1>4, WorkKeepsRest DEF IInv, TypeOK
<1>7. QED
  BY <1>5, <1>6 DEF IInv

LEMMA GenerateCycleIInv ==
  ASSUME IInv, NEW s \in Sessions, GenerateCycle(s)
  PROVE  IInv'
<1> DEFINE recipient == draw[Len(job[s].made) + 1]
           next == [recipient |-> recipient, payers |-> Payers(recipient)]
           work == [job[s] EXCEPT !.made = Append(@, next)]
<1>1. /\ job[s] \in Job
      /\ job[s].op = "reveal"
      /\ job[s].fresh \in BOOLEAN
      /\ job[s].made \in Seq(Cycle)
      /\ Follows(job[s].made)
      /\ Range(draw) \subseteq members
      /\ members \subseteq Range(draw) \cup late
  BY JobTypes DEF IInv, TypeOK, ScheduleFollowsDraw, GenerateCycle, Doing
<1>2. draw \in Seq(People)
  BY <1>1, OrderTypes DEF IInv, TypeOK, Follows
<1>3. Len(job[s].made) + 1 \in DOMAIN draw /\ recipient \in People
  BY <1>1, <1>2 DEF GenerateCycle
<1>4. next \in Cycle
  BY <1>3 DEF Cycle, Payers, IInv, TypeOK
<1>5. work = [op |-> "reveal", fresh |-> job[s].fresh, made |-> Append(job[s].made, next)]
  <2>1. Append(job[s].made, next) \in Seq(Cycle)
    BY <1>1, <1>4
  <2>2. QED
    BY <1>1, <2>1, RevealingJob
<1>6. work \in Job /\ work.op = "reveal" /\ work.made = Append(job[s].made, next)
  <2>1. Append(job[s].made, next) \in Seq(Cycle)
    BY <1>1, <1>4
  <2> HIDE DEF work, next
  <2>2. QED
    BY <1>1, <1>5, <2>1 DEF Job
<1>7. Follows(Append(job[s].made, next))
  <2>1. /\ next.recipient = draw[Len(job[s].made) + 1]
        /\ Range(draw) \subseteq next.payers
        /\ next.payers \subseteq Range(draw) \cup late
    BY <1>1 DEF Payers
  <2> HIDE DEF next
  <2>2. QED
    BY <1>1, <1>2, <1>3, <1>4, <2>1 DEF Follows
<1>8. Do(s, work) /\ UNCHANGED <<state, members, invites, agreed, draw, cycles, late>>
  BY DEF GenerateCycle
<1>9. Cardinality(agreed) >= Target /\ Counted
  BY <1>1 DEF IInv, EnoughAgreed, Counted
<1> HIDE DEF work
<1>10. TypeOK'
  BY <1>6, <1>8, JobUpdate DEF IInv, TypeOK
<1>11. AgreeingMembers' /\ CountIsKept' /\ EnoughAgreed' /\ ScheduleFollowsDraw'
  BY <1>1, <1>6, <1>7, <1>8, <1>9, WorkKeepsRest DEF IInv, TypeOK
<1>12. QED
  BY <1>10, <1>11 DEF IInv

LEMMA CommitRevealIInv ==
  ASSUME IInv, NEW s \in Sessions, CommitReveal(s)
  PROVE  IInv'
<1> USE DEF CommitReveal, Done
<1>1. /\ job[s].made \in Seq(Cycle)
      /\ Follows(job[s].made)
      /\ Cardinality(agreed) >= Target
      /\ Counted
  BY JobTypes DEF IInv, TypeOK, ScheduleFollowsDraw, EnoughAgreed, Counted, Doing
<1>2. /\ job' \in [Sessions -> Job]
      /\ job'[s] = Idle
      /\ \A t \in Sessions : t # s => job'[t] = job[t]
  BY IdleIsJob, JobUpdate DEF IInv, TypeOK
<1>3. TypeOK'
  BY <1>1, <1>2 DEF IInv, TypeOK
<1>4. AgreeingMembers' /\ EnoughAgreed'
  BY <1>1, <1>2, IdleIsJob DEF IInv, AgreeingMembers, EnoughAgreed, Doing
<1>5. ScheduleFollowsDraw'
  BY <1>1, <1>2, IdleIsJob DEF IInv, ScheduleFollowsDraw, Doing, Follows
<1>6. CountIsKept'
  BY <1>1, <1>2, IdleIsJob DEF IInv, CountIsKept, Counted, Closed
<1>7. QED
  BY <1>3, <1>4, <1>5, <1>6 DEF IInv

LEMMA RollbackIInv ==
  ASSUME IInv, NEW s \in Sessions, Rollback(s)
  PROVE  IInv'
  BY IdleIsJob, PlainWorkIInv DEF Rollback, Done

LEMMA StutterIInv == IInv /\ UNCHANGED vars => IInv'
<1> SUFFICES ASSUME IInv, UNCHANGED vars PROVE IInv'
  OBVIOUS
<1> USE DEF vars
<1>1. TypeOK'
  BY DEF IInv, TypeOK
<1>2. AgreeingMembers' /\ CountIsKept' /\ EnoughAgreed' /\ ScheduleFollowsDraw'
  BY DEF IInv, AgreeingMembers, CountIsKept, Counted, Closed, EnoughAgreed,
         ScheduleFollowsDraw, Doing, Follows
<1>3. QED
  BY <1>1, <1>2 DEF IInv

LEMMA NextIInv == IInv /\ [Next]_vars => IInv'
<1> SUFFICES ASSUME IInv, Next PROVE IInv'
  BY StutterIInv
<1>1. ASSUME NEW i \in Invites, Invite(i) PROVE IInv'
  BY <1>1, InviteIInv
<1>2. ASSUME NEW s \in Sessions, NEW p \in People, NEW i \in Invites, Join(s, p, i)
      PROVE IInv'
  BY <1>2, JoinIInv
<1>3. ASSUME NEW s \in Sessions, AddMember(s) \/ CommitJoin(s) PROVE IInv'
  BY <1>3, AddMemberIInv, CommitJoinIInv
<1>4. ASSUME NEW s \in Sessions, NEW p \in People, Agree(s, p) PROVE IInv'
  BY <1>4, AgreeIInv
<1>5. ASSUME NEW s \in Sessions, CommitAgree(s) \/ Lock(s) \/ CountAgreements(s) \/ CommitLock(s)
      PROVE IInv'
  BY <1>5, CommitAgreeIInv, LockIInv, CountAgreementsIInv, CommitLockIInv
<1>6. ASSUME NEW s \in Sessions, NEW order \in Orders, CommitDraw(s, order) PROVE IInv'
  BY <1>6, CommitDrawIInv
<1>7. ASSUME NEW s \in Sessions, StoreDraw(s) \/ RevealDraw(s) PROVE IInv'
  BY <1>7, StoreDrawIInv, RevealDrawIInv
<1>8. ASSUME NEW s \in Sessions, GenerateCycle(s) \/ CommitReveal(s) \/ Rollback(s)
      PROVE IInv'
  BY <1>8, GenerateCycleIInv, CommitRevealIInv, RollbackIInv
<1>9. QED
  BY <1>1, <1>2, <1>3, <1>4, <1>5, <1>6, <1>7, <1>8 DEF Next

-----------------------------------------------------------------------------
(* The inductive invariant holds in every reachable state.                  *)
THEOREM Invariance == Spec => []IInv
<1>1. QED
  BY InitIInv, NextIInv, PTL DEF Spec

(* The types of the state, for any number of people and requests.           *)
THEOREM TypeCorrect == Spec => []TypeOK
<1>1. IInv => TypeOK
  BY DEF IInv
<1>2. QED
  BY <1>1, Invariance, PTL

(* However joins, agreements, locks and reveals overlap, and although the    *)
(* state may go back: the members without an agreement in a locked circle    *)
(* are no more than those who were joining when lock() counted.              *)
THEOREM UnagreedBounded == Spec => []UnagreedWereJoining
<1>1. IInv => UnagreedWereJoining
  <2> SUFFICES ASSUME IInv, state \in {"draw_pending", "active"}
               PROVE  Cardinality(members \ agreed) <= Cardinality(late)
    BY DEF UnagreedWereJoining
  <2>1. /\ agreed \subseteq members /\ members \subseteq People /\ late \subseteq People
        /\ Cardinality(agreed) >= Target
        /\ Cardinality(members \ late) <= Target
    BY DEF IInv, TypeOK, EnoughAgreed, CountIsKept, Counted, Closed
  <2>2. IsFiniteSet(members) /\ IsFiniteSet(agreed) /\ IsFiniteSet(late)
    BY <2>1, FS_Subset, CircleAssumption
  <2>3. IsFiniteSet(members \cap late) /\ Cardinality(members \cap late) <= Cardinality(late)
    BY <2>2, FS_Subset
  <2>4. /\ Cardinality(members \ agreed) = Cardinality(members) - Cardinality(members \cap agreed)
        /\ Cardinality(members \ late) = Cardinality(members) - Cardinality(members \cap late)
    BY <2>2, FS_Difference
  <2>5. members \cap agreed = agreed
    BY <2>1
  <2>6. /\ Cardinality(members) \in Nat /\ Cardinality(agreed) \in Nat
        /\ Cardinality(late) \in Nat /\ Cardinality(members \cap late) \in Nat
    BY <2>2, <2>3, FS_CardinalityType
  <2>7. QED
    BY <2>1, <2>3, <2>4, <2>5, <2>6, CircleAssumption
<1>2. QED
  BY <1>1, Invariance, PTL

(* Only who was joining when lock() counted may owe contributions to a       *)
(* schedule that has no payout for them.                                     *)
THEOREM OthersReceive == Spec => []OnlyLateMembersMissOut
<1>1. IInv => OnlyLateMembersMissOut
  <2> DEFINE recipients == {cycles[d].recipient : d \in DOMAIN cycles}
  <2> SUFFICES ASSUME IInv, NEW c \in DOMAIN cycles
               PROVE  cycles[c].payers \ recipients \subseteq late
    BY DEF OnlyLateMembersMissOut
  <2>1. cycles # <<>>
    OBVIOUS
  <2>2. Follows(cycles) /\ Len(cycles) = Len(draw) /\ cycles \in Seq(Cycle)
    BY <2>1 DEF IInv, ScheduleFollowsDraw, TypeOK
  <2>3. draw \in Seq(People)
    BY <2>2, OrderTypes DEF IInv, TypeOK, Follows
  <2>4. DOMAIN cycles = DOMAIN draw
    BY <2>2, <2>3
  <2>5. Range(draw) \subseteq recipients
    BY <2>2, <2>4 DEF Follows, Range
  <2>6. cycles[c].payers \subseteq Range(draw) \cup late
    BY <2>2 DEF Follows
  <2>7. QED
    BY <2>5, <2>6
<1>2. QED
  BY <1>1, Invariance, PTL

(* Every recipient of a payout pays into every cycle of the schedule.       *)
THEOREM RecipientsPayAlways == Spec => []RecipientsPay
<1>1. IInv => RecipientsPay
  <2> SUFFICES ASSUME IInv, NEW c \in DOMAIN cycles, NEW d \in DOMAIN cycles
               PROVE  cycles[c].recipient \in cycles[d].payers
    BY DEF RecipientsPay
  <2>1. cycles # <<>>
    OBVIOUS
  <2>2. Follows(cycles) /\ cycles \in Seq(Cycle)
    BY <2>1 DEF IInv, ScheduleFollowsDraw, TypeOK
  <2>3. draw \in Seq(People)
    BY <2>2, OrderTypes DEF IInv, TypeOK, Follows
  <2>4. c \in DOMAIN draw
    BY <2>2, <2>3 DEF Follows
  <2>5. draw[c] \in Range(draw)
    BY <2>4 DEF Range
  <2>6. QED
    BY <2>2, <2>5 DEF Follows
<1>2. QED
  BY <1>1, Invariance, PTL

(* The committed order never changes, and the schedule is made once, from    *)
(* that order.                                                               *)
THEOREM DrawBinds == Spec => DrawIsBinding
<1> DEFINE Binding ==
             /\ draw # NoDraw => draw' = draw
             /\ cycles' # cycles =>
                  /\ cycles = <<>> /\ draw # NoDraw
                  /\ Len(cycles') = Len(draw)
                  /\ \A c \in DOMAIN draw : cycles'[c].recipient = draw[c]
<1>1. ASSUME IInv, Next PROVE Binding
  <2>1. ASSUME NEW s \in Sessions, StoreDraw(s) PROVE Binding
    BY <2>1 DEF StoreDraw, IsUndrawn
  <2>2. ASSUME NEW s \in Sessions, CommitReveal(s) PROVE Binding
    <3>1. job[s].made \in Seq(Cycle) /\ Follows(job[s].made)
      BY <1>1, <2>2, JobTypes DEF IInv, TypeOK, ScheduleFollowsDraw, CommitReveal, Doing
    <3>2. draw \in Seq(People)
      BY <1>1, <3>1, OrderTypes DEF IInv, TypeOK, Follows
    <3>3. ASSUME cycles' # cycles
          PROVE cycles = <<>> /\ cycles' = job[s].made /\ Len(job[s].made) = Len(draw)
      BY <2>2, <3>3 DEF CommitReveal
    <3>4. draw' = draw
      BY <2>2 DEF CommitReveal
    <3>5. Len(job[s].made) = Len(draw) => DOMAIN job[s].made = DOMAIN draw
      BY <3>1, <3>2
    <3>6. QED
      BY <3>1, <3>3, <3>4, <3>5 DEF Follows
  <2>3. ASSUME NEW s \in Sessions,
               \/ \E p \in People, i \in Invites : Join(s, p, i)
               \/ AddMember(s) \/ CommitJoin(s)
               \/ \E p \in People : Agree(s, p)
               \/ CommitAgree(s)
               \/ Lock(s) \/ CountAgreements(s) \/ CommitLock(s)
               \/ \E order \in Orders : CommitDraw(s, order)
               \/ RevealDraw(s) \/ GenerateCycle(s)
               \/ Rollback(s)
        PROVE Binding
    BY <2>3 DEF Join, AddMember, CommitJoin, Agree, CommitAgree, Lock, CountAgreements, CommitLock,
                CommitDraw, RevealDraw, GenerateCycle, Rollback
  <2>4. ASSUME NEW i \in Invites, Invite(i) PROVE Binding
    BY <2>4 DEF Invite
  <2>5. QED
    BY <1>1, <2>1, <2>2, <2>3, <2>4 DEF Next
<1>2. ASSUME UNCHANGED vars PROVE Binding
  BY <1>2 DEF vars
<1>3. IInv /\ [Next]_vars => [Binding]_vars
  BY <1>1, <1>2
<1>4. QED
  BY <1>3, Invariance, PTL DEF Spec, DrawIsBinding

=============================================================================
