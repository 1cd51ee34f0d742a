--------------------------- MODULE CircleFormation ---------------------------
(***************************************************************************)
(* A savings circle from its creation to the schedule of its draw          *)
(* (app/modules/circles/service.py: create_invite, join, agree, lock,      *)
(* commit_draw, reveal_draw, generate_schedule).                           *)
(*                                                                         *)
(* Every request is a database transaction.  It reads the circle once and  *)
(* keeps that object; it counts members and agreements when it gets there; *)
(* what it writes becomes visible when it commits.  No row of the circle   *)
(* is locked, so the decision and the write of a request are apart, and    *)
(* only unique constraints make one of two requests fail.  The state is    *)
(* written only by a request that changed it from what it had read.        *)
(*                                                                         *)
(* A commitment hash stands for the payout order that its salt and members *)
(* give.  An expired invite admits nobody and changes nothing (its new     *)
(* status is rolled back with the error), so no action shows it.           *)
(***************************************************************************)
EXTENDS Integers, Sequences, FiniteSets, Functions

CONSTANTS
  People,   \* members of the platform
  Owner,    \* who created the circle
  Target,   \* member_count_target
  Invites,  \* invite tokens
  Sessions, \* concurrent requests
  NoDraw    \* no row in circle_draw

ASSUME CircleAssumption ==
  /\ Owner \in People
  /\ Target \in Nat /\ Target >= 2
  /\ IsFiniteSet(People)

VARIABLES
  state,    \* circle.state
  members,  \* rows of circle_member
  invites,  \* token -> "unsent", "pending" or "accepted"
  agreed,   \* members with a row in circle_agreement
  draw,     \* circle_draw: the committed payout order, or NoDraw
  cycles,   \* circle_cycle by position, with who owes a contribution
  job,      \* what each session has read and is about to write
  late      \* history: who was joining when lock() counted the members

vars == <<state, members, invites, agreed, draw, cycles, job, late>>

STATE_TRANSITIONS ==
  [from \in {"draft", "recruiting", "agreement_pending", "locked", "draw_pending",
             "active", "completed", "cancelled"} |->
     CASE from = "draft"             -> {"recruiting", "cancelled"}
       [] from = "recruiting"        -> {"agreement_pending", "cancelled"}
       [] from = "agreement_pending" -> {"locked", "cancelled"}
       [] from = "locked"            -> {"draw_pending", "cancelled"}
       [] from = "draw_pending"      -> {"active", "cancelled"}
       [] from = "active"            -> {"completed", "cancelled"}
       [] OTHER                      -> {}]

Orders ==
  {order \in UNION {[1..n -> People] : n \in 1..Cardinality(People)} : IsInjective(order)}

Idle == [op |-> "idle"]
Doing(s, op) == job[s].op = op
Do(s, work) == job' = [job EXCEPT ![s] = work]
Done(s) == Do(s, Idle)

(* ensure_state() of invites, joins and agreements                          *)
IsOpen == state \in {"recruiting", "agreement_pending"}

-----------------------------------------------------------------------------
Init ==
  /\ state = "recruiting"
  /\ members = {Owner}
  /\ invites = [i \in Invites |-> "unsent"]
  /\ agreed = {}
  /\ draw = NoDraw
  /\ cycles = <<>>
  /\ job = [s \in Sessions |-> Idle]
  /\ late = {}

Invite(i) ==
  /\ IsOpen
  /\ invites[i] = "unsent"
  /\ invites' = [invites EXCEPT ![i] = "pending"]
  /\ UNCHANGED <<state, members, agreed, draw, cycles, job, late>>

(* join() up to the count of the members.                                   *)
Join(s, p, i) ==
  /\ job[s] = Idle
  /\ invites[i] = "pending"
  /\ IsOpen
  /\ p \in members \/ Cardinality(members) < Target
  /\ Do(s, [op |-> "join", who |-> p, invite |-> i, seen |-> state, new |-> p \notin members])
  /\ UNCHANGED <<state, members, invites, agreed, draw, cycles, late>>

(* The insert, unless the unique (circle, member) index refuses it, and the  *)
(* second count, which sees this member but no uncommitted one.              *)
AddMember(s) ==
  LET j == job[s]
      full == Cardinality(members \cup {j.who}) >= Target
  IN /\ Doing(s, "join")
     /\ j.new => /\ j.who \notin members
                 /\ \A t \in Sessions : ~(Doing(t, "joined") /\ job[t].who = j.who)
     /\ full => "agreement_pending" \in STATE_TRANSITIONS[j.seen]
     /\ Do(s, [op |-> "joined", who |-> j.who, invite |-> j.invite, fills |-> full])
     /\ UNCHANGED <<state, members, invites, agreed, draw, cycles, late>>

CommitJoin(s) ==
  /\ Doing(s, "joined")
  /\ members' = members \cup {job[s].who}
  /\ invites' = [invites EXCEPT ![job[s].invite] = "accepted"]
  /\ state' = IF job[s].fills THEN "agreement_pending" ELSE state
  /\ Done(s)
  /\ UNCHANGED <<agreed, draw, cycles, late>>

(* agree() with the circle's own terms; other terms are rejected.            *)
Agree(s, p) ==
  /\ job[s] = Idle
  /\ IsOpen
  /\ p \in members \ agreed
  /\ Do(s, [op |-> "agree", who |-> p])
  /\ UNCHANGED <<state, members, invites, agreed, draw, cycles, late>>

CommitAgree(s) ==
  /\ Doing(s, "agree")
  /\ job[s].who \notin agreed
  /\ agreed' = agreed \cup {job[s].who}
  /\ Done(s)
  /\ UNCHANGED <<state, members, invites, draw, cycles, late>>

(* Requests that have passed the first count of join() and are not committed. *)
Joining == {job[s].who : s \in {t \in Sessions : job[t].op \in {"join", "joined"}}} \ members

(* lock() up to its count of the members.                                    *)
Lock(s) ==
  /\ job[s] = Idle
  /\ state = "agreement_pending"
  /\ Cardinality(members) = Target
  /\ Do(s, [op |-> "lock"])
  /\ late' = late \cup Joining
  /\ UNCHANGED <<state, members, invites, agreed, draw, cycles>>

(* Variant: the agreements are not counted.                                  *)
Uncounted == TRUE

(* All target members must join and agree before lock.                       *)
AllAgreed == Cardinality(agreed) = Target

(* The agreements are counted after the members, by a query of their own.    *)
CountAgreements(s) ==
  /\ Doing(s, "lock")
  /\ AllAgreed
  /\ Do(s, [op |-> "ready"])
  /\ UNCHANGED <<state, members, invites, agreed, draw, cycles, late>>

(* Variant: the second transition of lock() is missing.                      *)
AfterFirstTransition == "locked"

(* transition() to locked and, in the same transaction, to draw_pending      *)
AfterLock == "draw_pending"

(* The accounts of the circle may have come into being since; a request that *)
(* tries to insert them again fails.                                         *)
CommitLock(s) ==
  /\ Doing(s, "ready")
  /\ state' = AfterLock
  /\ Done(s)
  /\ UNCHANGED <<members, invites, agreed, draw, cycles, late>>

(* Variant: a second commitment replaces the first.                          *)
AnyDraw == TRUE

(* commit_draw() returns an existing draw, and circle_id is unique in        *)
(* circle_draw.                                                              *)
IsUndrawn == draw = NoDraw

CommitDraw(s, order) ==
  /\ job[s] = Idle
  /\ state = "draw_pending"
  /\ IsUndrawn
  /\ Do(s, [op |-> "draw", order |-> order])
  /\ UNCHANGED <<state, members, invites, agreed, draw, cycles, late>>

StoreDraw(s) ==
  /\ Doing(s, "draw")
  /\ IsUndrawn
  /\ draw' = job[s].order
  /\ Done(s)
  /\ UNCHANGED <<state, members, invites, agreed, cycles, late>>

(* Variant: some of the members need not be in the order.                    *)
MembersInOrder == Range(draw) \subseteq members

(* The members of now give the committed hash only if they are the members   *)
(* it was made from.                                                         *)
MatchesCommitment == Range(draw) = members

RevealDraw(s) ==
  /\ job[s] = Idle
  /\ state = "draw_pending"
  /\ draw # NoDraw
  /\ MatchesCommitment
  /\ Do(s, [op |-> "reveal", fresh |-> cycles = <<>>, made |-> <<>>])
  /\ UNCHANGED <<state, members, invites, agreed, draw, cycles, late>>

(* Variant: the recipient of a cycle does not pay in it.                     *)
OtherMembers(recipient) == members \ {recipient}

(* Who owes a contribution to the cycle: the members when it is generated.   *)
Payers(recipient) == members

(* generate_schedule() makes the cycles one after another.                   *)
GenerateCycle(s) ==
  LET j == job[s]
      recipient == draw[Len(j.made) + 1]
  IN /\ Doing(s, "reveal")
     /\ j.fresh /\ Len(j.made) < Len(draw)
     /\ Do(s, [j EXCEPT !.made = Append(@, [recipient |-> recipient, payers |-> Payers(recipient)])])
     /\ UNCHANGED <<state, members, invites, agreed, draw, cycles, late>>

(* The schedule (its positions are unique) and the new state.                *)
CommitReveal(s) ==
  LET j == job[s]
  IN /\ Doing(s, "reveal")
     /\ IF j.fresh
        THEN /\ Len(j.made) = Len(draw)
             /\ cycles = <<>>
             /\ cycles' = j.made
        ELSE UNCHANGED cycles
     /\ state' = "active"
     /\ Done(s)
     /\ UNCHANGED <<members, invites, agreed, draw, late>>

(* An error, a unique violation or a crash.                                  *)
Rollback(s) ==
  /\ job[s] # Idle
  /\ Done(s)
  /\ UNCHANGED <<state, members, invites, agreed, draw, cycles, late>>

Next ==
  \/ \E i \in Invites : Invite(i)
  \/ \E s \in Sessions :
       \/ \E p \in People, i \in Invites : Join(s, p, i)
       \/ AddMember(s) \/ CommitJoin(s)
       \/ \E p \in People : Agree(s, p)
       \/ CommitAgree(s)
       \/ Lock(s) \/ CountAgreements(s) \/ CommitLock(s)
       \/ \E order \in Orders : CommitDraw(s, order)
       \/ StoreDraw(s)
       \/ RevealDraw(s) \/ GenerateCycle(s) \/ CommitReveal(s)
       \/ Rollback(s)

Spec == Init /\ [][Next]_vars

-----------------------------------------------------------------------------
Cycle == [recipient : People, payers : SUBSET People]

Job ==
  [op : {"idle", "lock", "ready"}]
    \cup [op : {"join"}, who : People, invite : Invites,
          seen : {"recruiting", "agreement_pending"}, new : BOOLEAN]
    \cup [op : {"joined"}, who : People, invite : Invites, fills : BOOLEAN]
    \cup [op : {"agree"}, who : People]
    \cup [op : {"draw"}, order : Orders]
    \cup [op : {"reveal"}, fresh : BOOLEAN, made : Seq(Cycle)]

(* Types; no other session ever sees a circle that is only "locked".         *)
TypeOK ==
  /\ state \in {"recruiting", "agreement_pending", "draw_pending", "active"}
  /\ members \subseteq People /\ Owner \in members
  /\ invites \in [Invites -> {"unsent", "pending", "accepted"}]
  /\ agreed \subseteq members
  /\ draw \in Orders \cup {NoDraw}
  /\ cycles \in Seq(Cycle)
  /\ job \in [Sessions -> Job]
  /\ late \subseteq People

(* docs/architecture.md, Circles: "Locking requires the target member count  *)
(* and one immutable agreement per active member."  lock() counts members    *)
(* and agreements at two moments, and joins and agreements commit before,    *)
(* between and after them, so a locked circle may have a member who has not  *)
(* agreed.  What is left of the claim: no more members lack an agreement     *)
(* than were joining when lock() counted, also when a slow request has put   *)
(* the circle back and it is locked again.                                   *)
UnagreedWereJoining ==
  state \in {"draw_pending", "active"} =>
    Cardinality(members \ agreed) <= Cardinality(late)

(* Who owes contributions to a schedule and gets none of its payouts was     *)
(* joining when lock() counted; nobody gets there in another way, such as    *)
(* between the commitment and the reveal.                                    *)
OnlyLateMembersMissOut ==
  LET recipients == {cycles[c].recipient : c \in DOMAIN cycles}
  IN \A c \in DOMAIN cycles : cycles[c].payers \ recipients \subseteq late

(* Whoever gets a payout pays into every cycle, even if others join while    *)
(* the schedule is generated.                                                *)
RecipientsPay ==
  \A c, d \in DOMAIN cycles : cycles[c].recipient \in cycles[d].payers

(* Commit and reveal: the order is fixed once, before the schedule, and the  *)
(* schedule is generated once, from that order, however many requests        *)
(* commit and reveal at the same time.                                       *)
DrawIsBinding ==
  [][/\ draw # NoDraw => draw' = draw
     /\ cycles' # cycles =>
          /\ cycles = <<>> /\ draw # NoDraw
          /\ Len(cycles') = Len(draw)
          /\ \A c \in DOMAIN draw : cycles'[c].recipient = draw[c]]_vars

(* docs/architecture.md, Circles: the list of "Valid transitions"; "Invalid  *)
(* transitions return 409".  A commit changes the state by one transition,   *)
(* or by the two of lock().                                                  *)
ValidTransitions ==
  [][state' \in STATE_TRANSITIONS[state]
       \/ state' \in UNION {STATE_TRANSITIONS[mid] : mid \in STATE_TRANSITIONS[state]}]_state

=============================================================================
