------------------------------ MODULE Notifier ------------------------------
(***************************************************************************)
(* The notifier relay: N processes that drain the outbox table.  A poll    *)
(* flips due rows to SENDING under a lease and commits, then sends and     *)
(* settles them one after the other.                                       *)
(*                                                                         *)
(*   cloud/notifier_worker/relay.py   claim, send, settle, retry           *)
(*   cloud/notifications/chain.py     providers tried in order             *)
(*   cloud/notifications/twilio_*.py  one message per call that succeeds   *)
(*                                                                         *)
(* next_attempt_at and claimed_until are the ticks left before they are    *)
(* reached, run down by Tick; 0 is "due" and "expired or NULL".  Every     *)
(* claim adds one to attempts, so the number RETURNING hands to the relay  *)
(* tells its claim from the others: no statement of the code compares it,  *)
(* nor claimed_by, but the properties do.                                  *)
(***************************************************************************)
EXTENDS Integers, FiniteSets

CONSTANTS
  Rows,         \* the outbox rows there may come to be
  Relays,       \* notifier processes
  NoRow,        \* "no row": a relay that is between rows
  Batch,        \* rows a poll may claim
  Lease,        \* ticks a claim lasts
  MaxAttempts,  \* max_attempts of every row
  Providers,    \* length of the provider chain
  BackoffBase, BackoffCap,  \* ticks before the first retry, and at most
  MaxFaults,    \* bound on crashes, exceptions and lost answers
  MaxClaims     \* bound on the claims of one row

ASSUME NotifierAssumption ==
  /\ NoRow \notin Rows
  /\ Batch \in Nat \ {0}
  /\ Lease \in Nat \ {0}
  /\ MaxAttempts \in Nat \ {0}
  /\ Providers \in Nat \ {0}
  /\ BackoffBase \in Nat
  /\ BackoffCap \in Nat
  /\ MaxFaults \in Nat
  /\ MaxClaims \in Nat

VARIABLES
  \* the outbox table
  status, attempts, due, lease,
  \* rows of the messages table that record a row's delivery, and the messages
  \* that providers have really sent for it
  messages, delivered,
  \* relays: what each does, the claimed rows still to be sent, their attempts
  \* as the claim returned them, the row in hand, the providers that have failed
  \* it, and the chain's answer
  pc, batch, ticket, row, hop, result,
  \* faults so far
  faults

table     == <<status, attempts, due, lease, messages>>
relayVars == <<pc, batch, ticket, row, hop, result>>
vars      == <<table, delivered, relayVars, faults>>

RowStatuses == {"ABSENT", "PENDING", "SENDING", "SENT", "DEAD"}
Settled     == {"SENT", "DEAD"}

\* The promise: what replies to pages rely on.  A status and its stage:
StageOf ==
  [ABSENT |-> "ABSENT", PENDING |-> "OPEN", SENDING |-> "OPEN", SENT |-> "RECORDED",
   DEAD |-> "GIVEN_UP"]

Promise == INSTANCE Delivery WITH
  stage <- [o \in Rows |-> StageOf[status[o]]],
  reached <- [o \in Rows |-> delivered[o] > 0]

\* Mutant: no cap.
BackoffUncapped(n) == BackoffBase * 2 ^ (IF n > 0 THEN n - 1 ELSE 0)

\* _backoff: exponential in the attempts made, capped.
Backoff(n) ==
  LET delay == BackoffBase * 2 ^ (IF n > 0 THEN n - 1 ELSE 0)
  IN  IF delay \in 0..BackoffCap THEN delay ELSE BackoffCap

-----------------------------------------------------------------------------
Init ==
  /\ status = [o \in Rows |-> "ABSENT"]
  /\ attempts = [o \in Rows |-> 0]
  /\ due = [o \in Rows |-> 0]
  /\ lease = [o \in Rows |-> 0]
  /\ messages = [o \in Rows |-> 0]
  /\ delivered = [o \in Rows |-> 0]
  /\ pc = [w \in Relays |-> "idle"]
  /\ batch = [w \in Relays |-> {}]
  /\ ticket = [w \in Relays |-> [o \in Rows |-> 0]]
  /\ row = [w \in Relays |-> NoRow]
  /\ hop = [w \in Relays |-> 0]
  /\ result = [w \in Relays |-> "none"]
  /\ faults = 0

\* Ingest or the escalation worker commits a row; next_attempt_at is now().
Enqueue(o) ==
  /\ status[o] = "ABSENT"
  /\ status' = [status EXCEPT ![o] = "PENDING"]
  /\ UNCHANGED <<attempts, due, lease, messages, delivered, relayVars, faults>>

-----------------------------------------------------------------------------
\* Mutant: the reaper takes rows whose lease is still running.
ClaimableUnderLease(o) ==
  /\ attempts[o] < MaxClaims
  /\ (status[o] = "PENDING" /\ due[o] = 0) \/ status[o] = "SENDING"

\* Mutant: no reaper, a SENDING row is left alone.
ClaimableOnlyPending(o) ==
  attempts[o] < MaxClaims /\ status[o] = "PENDING" /\ due[o] = 0

\* _CLAIM_SQL: due rows, and rows in flight whose lease has run out.
Claimable(o) ==
  /\ attempts[o] < MaxClaims
  /\ \/ status[o] = "PENDING" /\ due[o] = 0
     \/ status[o] = "SENDING" /\ lease[o] = 0

\* One committed statement takes a batch; overdue rows all read 0 here, so any
\* full batch of them may be the one in the order of next_attempt_at.
Claim(w) ==
  LET ready == {o \in Rows : Claimable(o)} IN
  /\ pc[w] = "idle"
  /\ \E rows \in SUBSET ready \ {{}} :
       /\ Cardinality(rows) <= Batch
       /\ rows = ready \/ Cardinality(rows) = Batch
       /\ status' = [o \in Rows |-> IF o \in rows THEN "SENDING" ELSE status[o]]
       /\ lease' = [o \in Rows |-> IF o \in rows THEN Lease ELSE lease[o]]
       /\ attempts' = [o \in Rows |-> IF o \in rows THEN attempts[o] + 1 ELSE attempts[o]]
       /\ batch' = [batch EXCEPT ![w] = rows]
       /\ ticket' = [ticket EXCEPT ![w] =
            [o \in Rows |-> IF o \in rows THEN attempts[o] + 1 ELSE 0]]
  /\ pc' = [pc EXCEPT ![w] = "send"]
  /\ UNCHANGED <<due, messages, delivered, row, hop, result, faults>>

\* Mutant: the chain goes through all its providers whatever they answer.
AnsweredByAll(w, o, answer) ==
  /\ row' = [row EXCEPT ![w] = o]
  /\ IF hop[w] + 1 = Providers
       THEN /\ pc' = [pc EXCEPT ![w] = "settle"]
            /\ hop' = [hop EXCEPT ![w] = 0]
            /\ result' = [result EXCEPT ![w] = answer]
       ELSE /\ hop' = [hop EXCEPT ![w] = @ + 1]
            /\ UNCHANGED <<pc, result>>

\* The chain goes on to the next provider until one has sent or all have failed.
Answered(w, o, answer) ==
  /\ row' = [row EXCEPT ![w] = o]
  /\ IF answer = "sent" \/ hop[w] + 1 = Providers
       THEN /\ pc' = [pc EXCEPT ![w] = "settle"]
            /\ hop' = [hop EXCEPT ![w] = 0]
            /\ result' = [result EXCEPT ![w] = answer]
       ELSE /\ hop' = [hop EXCEPT ![w] = @ + 1]
            /\ UNCHANGED <<pc, result>>

\* A provider is called for the row in hand, or for the next one of the batch.
\* The call carries no key the provider could know a repetition by.
CallProvider(w, o) ==
  /\ pc[w] = "send"
  /\ o \in batch[w]
  /\ row[w] \in {o, NoRow}
  /\ \E answer \in {"sent", "failed"} :
       /\ Answered(w, o, answer)
       /\ delivered' = [delivered EXCEPT ![o] = IF answer = "sent" THEN @ + 1 ELSE @]
  /\ UNCHANGED <<table, batch, ticket, faults>>

\* The message goes out but the call ends in an exception, which is a failure.
LoseAnswer(w, o) ==
  /\ faults < MaxFaults
  /\ pc[w] = "send"
  /\ o \in batch[w]
  /\ row[w] \in {o, NoRow}
  /\ Answered(w, o, "failed")
  /\ delivered' = [delivered EXCEPT ![o] = @ + 1]
  /\ faults' = faults + 1
  /\ UNCHANGED <<table, batch, ticket>>

\* On to the rest of the batch, or done with it.
Return(w, rest) ==
  /\ batch' = [batch EXCEPT ![w] = rest]
  /\ ticket' = [ticket EXCEPT ![w] = [o \in Rows |-> IF o \in rest THEN @[o] ELSE 0]]
  /\ pc' = [pc EXCEPT ![w] = IF rest = {} THEN "idle" ELSE "send"]
  /\ row' = [row EXCEPT ![w] = NoRow]
  /\ hop' = [hop EXCEPT ![w] = 0]
  /\ result' = [result EXCEPT ![w] = "none"]

\* Mutant: one retry too many.
OutcomeOffByOne(o, answer) ==
  /\ status' = [status EXCEPT ![o] =
       IF answer = "sent" THEN "SENT"
       ELSE IF attempts[o] > MaxAttempts THEN "DEAD" ELSE "PENDING"]
  /\ due' = [due EXCEPT ![o] =
       IF answer = "failed" /\ attempts[o] <= MaxAttempts THEN Backoff(attempts[o]) ELSE @]
  /\ messages' = [messages EXCEPT ![o] = IF answer = "sent" THEN @ + 1 ELSE @]
  /\ lease' = [lease EXCEPT ![o] = 0]

\* What the settle writes on a row that is still in flight.
Outcome(o, answer) ==
  /\ status' = [status EXCEPT ![o] =
       IF answer = "sent" THEN "SENT"
       ELSE IF attempts[o] >= MaxAttempts THEN "DEAD" ELSE "PENDING"]
  /\ due' = [due EXCEPT ![o] =
       IF answer = "failed" /\ attempts[o] < MaxAttempts THEN Backoff(attempts[o]) ELSE @]
  /\ messages' = [messages EXCEPT ![o] = IF answer = "sent" THEN @ + 1 ELSE @]
  /\ lease' = [lease EXCEPT ![o] = 0]

\* Mutant: whatever the row has become meanwhile.
SettleRegardless(w) ==
  /\ pc[w] = "settle"
  /\ Outcome(row[w], result[w])
  /\ Return(w, batch[w] \ {row[w]})
  /\ UNCHANGED <<attempts, delivered, faults>>

\* SELECT ... FOR UPDATE, the status check and the write, in one transaction.
Settle(w) ==
  /\ pc[w] = "settle"
  /\ IF status[row[w]] = "SENDING"
       THEN Outcome(row[w], result[w])
       ELSE UNCHANGED <<status, due, lease, messages>>
  /\ Return(w, batch[w] \ {row[w]})
  /\ UNCHANGED <<attempts, delivered, faults>>

\* The relay dies, or an exception ends run_once: the claimed rows that are left
\* stay SENDING until their lease runs out.
Crash(w) ==
  /\ faults < MaxFaults
  /\ pc[w] # "idle"
  /\ Return(w, {})
  /\ faults' = faults + 1
  /\ UNCHANGED <<table, delivered>>

RunDown(n) == IF n > 0 THEN n - 1 ELSE n

Tick ==
  /\ due' = [o \in Rows |-> RunDown(due[o])]
  /\ lease' = [o \in Rows |-> RunDown(lease[o])]
  /\ UNCHANGED <<status, attempts, messages, delivered, relayVars, faults>>

Work(w) == Claim(w) \/ (\E o \in Rows : CallProvider(w, o)) \/ Settle(w)

Next ==
  \/ \E o \in Rows : Enqueue(o)
  \/ \E w \in Relays : Work(w) \/ Crash(w) \/ \E o \in Rows : LoseAnswer(w, o)
  \/ Tick

Spec == Init /\ [][Next]_vars

(***************************************************************************)
(* The timing assumption behind the lease: a relay is done with a batch    *)
(* before the lease it took for it runs out.  Time waits, and nothing else *)
(* does.                                                                   *)
(***************************************************************************)
LeasesHold == \A w \in Relays : \A o \in batch[w] : lease[o] # 1

PromptNext == Next /\ (Tick => LeasesHold)
PromptSpec == Init /\ [][PromptNext]_vars

\* Every relay's loop keeps running and time passes.
Fairness ==
  /\ WF_vars(Tick /\ LeasesHold)
  /\ \A w \in Relays : WF_vars(Work(w))

FairSpec == PromptSpec /\ Fairness
-----------------------------------------------------------------------------
(***************************************************************************)
(* Properties.                                                             *)
(***************************************************************************)
\* Columns and local variables hold values of their types: no retry is further
\* away than the cap, and a relay with an answer has the row in hand.
TypeOK ==
  /\ status \in [Rows -> RowStatuses]
  /\ attempts \in [Rows -> 0..MaxClaims]
  /\ due \in [Rows -> 0..BackoffCap]
  /\ lease \in [Rows -> 0..Lease]
  /\ messages \in [Rows -> Nat]
  /\ delivered \in [Rows -> Nat]
  /\ pc \in [Relays -> {"idle", "send", "settle"}]
  /\ batch \in [Relays -> SUBSET Rows]
  /\ ticket \in [Relays -> [Rows -> 0..MaxClaims]]
  /\ row \in [Relays -> Rows \cup {NoRow}]
  /\ hop \in [Relays -> 0..(Providers - 1)]
  /\ result \in [Relays -> {"none", "sent", "failed"}]
  /\ faults \in 0..MaxFaults
  /\ \A w \in Relays :
       /\ pc[w] = "settle" => row[w] \in batch[w]
       /\ pc[w] = "settle" <=> result[w] # "none"

\* A row is SENT exactly when one 'out' record of it is in the messages table,
\* the one a reply is matched against, and then a provider has sent it; two
\* relays that both sent the row, late or not, leave one record.
OneRecordPerRow ==
  \A o \in Rows :
    /\ messages[o] = IF status[o] = "SENT" THEN 1 ELSE 0
    /\ status[o] = "SENT" => delivered[o] > 0

\* What the settle of a relay may rely on, and with the type invariant all that
\* OneRecordPerRow needs: the answer "sent" stands for a message that was sent.
AnswersAreTrue ==
  \A w \in Relays : result[w] = "sent" => delivered[row[w]] > 0

\* Somebody has the provider's word that o was sent and has not settled it yet.
SentBySomebody(o) == \E w \in Relays : row[w] = o /\ result[w] = "sent"

\* Every message beyond the first is the price of a crash or a lost answer.
DuplicatesNeedAFault ==
  \A o \in Rows :
    delivered[o] <= faults + IF status[o] = "SENT" \/ SentBySomebody(o) THEN 1 ELSE 0

\* Reclaiming a stale row counts an attempt and asks no maximum, so a row may be
\* tried more than max_attempts times, but only once more for each fault.
AttemptsPaidFor == \A o \in Rows : attempts[o] <= MaxAttempts + faults

\* "Only the worker still holding the SENDING claim settles it": whoever takes a
\* row out of SENDING made the claim that put it there.
OnlyHolderSettles ==
  [][\A o \in Rows : status[o] = "SENDING" /\ status'[o] # "SENDING" =>
       \E w \in Relays : row[w] = o /\ row'[w] = NoRow /\ ticket[w][o] = attempts[o]]_vars

\* Once a row is settled nothing more is sent for it.
NothingAfterSettled ==
  [][\A o \in Rows : status[o] \in Settled => delivered'[o] = delivered[o]]_vars

\* Every enqueued row is in the end sent or given up on, however relays crash.
EveryRowSettles == \A o \in Rows : status[o] = "PENDING" ~> status[o] \in Settled

\* The relays implement what Delivery says of a page, however they stall or die:
\* it is recorded once, after it reached the phone, and never after a give-up.
ImplementsDelivery == Promise!DeliverySpec

-----------------------------------------------------------------------------
(***************************************************************************)
(* The inductive invariants of the proofs.                                 *)
(***************************************************************************)
IInv == TypeOK /\ OneRecordPerRow /\ AnswersAreTrue

\* What the refinement of Delivery needs beside it: a claim, whether it is still
\* the relay's own or not, is of a row that was enqueued.
ClaimedRowsExist == \A w \in Relays : \A o \in batch[w] : status[o] # "ABSENT"

\* With prompt relays a claim belongs to one relay, is alive, and is the last
\* one made of its row.
ClaimsAreHeld ==
  \A w \in Relays :
    /\ row[w] \in batch[w] \cup {NoRow}
    /\ \A o \in batch[w] :
         /\ status[o] = "SENDING" /\ lease[o] > 0 /\ ticket[w][o] = attempts[o]
         /\ \A v \in Relays : o \in batch[v] => v = w

\* A row that may be claimed has at least one attempt left, or owed by a fault.
AttemptsLeft ==
  \A o \in Rows :
    /\ status[o] \in {"ABSENT", "PENDING"} => attempts[o] < MaxAttempts
    /\ (\A w \in Relays : o \notin batch[w]) /\ status[o] = "SENDING" =>
         attempts[o] < MaxAttempts + faults

\* A relay that polls is done with its batch.
IdleIsBetweenRows ==
  \A w \in Relays : pc[w] = "idle" => row[w] = NoRow /\ batch[w] = {}

PromptInv ==
  /\ IInv
  /\ ClaimsAreHeld
  /\ IdleIsBetweenRows
  /\ AttemptsLeft
  /\ AttemptsPaidFor
  /\ DuplicatesNeedAFault
=============================================================================
