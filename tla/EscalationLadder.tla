-------------------------- MODULE EscalationLadder --------------------------
(***************************************************************************)
(* What the escalation engine promises, with no worker, lease, clock or    *)
(* database in sight.  An incident waits on a rung of the ladder, climbs   *)
(* one rung at a time, may page one responder as it arrives on a rung, and *)
(* leaves the ladder when a person acknowledges or resolves it or when it  *)
(* falls off the top.  Nothing puts it back.                               *)
(*                                                                         *)
(* The table of rungs is the one of _TRANSITION_TABLE in                   *)
(* cloud/escalation_worker/transition.py.                                  *)
(***************************************************************************)
EXTENDS Naturals

CONSTANT Incidents

VARIABLES
  status,   \* status[i]: the rung of i, how it ended, or NOT_CREATED
  paged     \* paged[i]: the rungs whose responder has been paged for i

ladderVars == <<status, paged>>

Active   == {"AWAITING_OPERATOR", "TIER1", "TIER2"}
Closed   == {"ACK", "RESOLVED"}
Statuses == Active \cup Closed \cup {"CRITICAL_UNRESOLVED", "NOT_CREATED"}

\* The number of the rung an incident stands on.
RungOf == [ AWAITING_OPERATOR |-> 0, TIER1 |-> 1, TIER2 |-> 2,
            CRITICAL_UNRESOLVED |-> 3 ]

\* The only way up.
RungAbove == [ AWAITING_OPERATOR |-> "TIER1", TIER1 |-> "TIER2",
               TIER2 |-> "CRITICAL_UNRESOLVED" ]

LadderInit ==
  /\ status = [i \in Incidents |-> "NOT_CREATED"]
  /\ paged = [i \in Incidents |-> {}]

\* An incident starts at the bottom; its operator is paged, or nobody is on call.
Enter(i) ==
  /\ status[i] = "NOT_CREATED"
  /\ status' = [status EXCEPT ![i] = "AWAITING_OPERATOR"]
  /\ \E rungs \in SUBSET {0} : paged' = [paged EXCEPT ![i] = rungs]

\* One rung up, with at most one page, for the rung reached and for no other.
Climb(i) ==
  /\ status[i] \in Active
  /\ status' = [status EXCEPT ![i] = RungAbove[status[i]]]
  /\ \E rungs \in SUBSET {RungOf[RungAbove[status[i]]]} :
       paged' = [paged EXCEPT ![i] = @ \cup rungs]

\* A person ends it.  The request is decided on a read that may be stale, so
\* it can also land on an incident that somebody else, or the ladder, has
\* already ended: see ActionsRespectStatus in Escalation.
Close(i) ==
  /\ status[i] # "NOT_CREATED"
  /\ \E s \in Closed : status' = [status EXCEPT ![i] = s]
  /\ UNCHANGED paged

LadderNext == \E i \in Incidents : Enter(i) \/ Climb(i) \/ Close(i)

LadderSafety == LadderInit /\ [][LadderNext]_ladderVars

\* Nobody is left waiting on a rung for ever.
LadderSpec == LadderSafety /\ \A i \in Incidents : WF_ladderVars(Climb(i))
=============================================================================
