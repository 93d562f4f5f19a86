------------------------- MODULE PaymentFlowProofs -------------------------
(***************************************************************************)
(* Proofs about PaymentFlow: its safety invariants for every number of     *)
(* PaymentIntents, concurrent deliveries and faults, and that the          *)
(* statements of the webhook handler implement the atomic operations of    *)
(* SubscriptionRepository.                                                 *)
(***************************************************************************)
EXTENDS PaymentFlow, RepositoryProofs

(* The steps of PaymentFlow by what they write. *)
SubscribeStep(p) ==
    \/ \E u \in Users, c \in Creators : CreatePaymentIntent(p, u, c)
    \/ InsertRow(p) \/ InsertFails(p)
    \/ RejectDuplicate(p) \/ AnswerSubscribe(p) \/ LoseAnswer(p)

StripeStep(p) == ConfirmPayment(p) \/ DeclinePayment(p) \/ AbandonIntent(p)

ReadStep(h) ==   \* only the delivery itself moves
    \/ \E e \in unacked : Receive(h, e)
    \/ SelectRow(h) \/ InsertTransaction(h) \/ UpdateRow(h)
    \/ StatementFails(h) \/ LoseAcknowledgement(h) \/ ReportError(h)

CommitStep(h) == Commit(h) \/ CommitUnheard(h)

CancelStep(h) == CancelPending(h) \/ CancelPendingUnheard(h)

(* Every step of the flow is one of these. *)
LEMMA FlowCases ==
    ASSUME [FlowNext]_vars
    PROVE  \/ \E p \in Intents : SubscribeStep(p) \/ StripeStep(p)
           \/ \E h \in Handlers : \/ ReadStep(h) \/ CommitStep(h) \/ CancelStep(h)
                                  \/ PublishSubscribed(h) \/ Acknowledge(h)
           \/ Crash \/ Others \/ UNCHANGED vars
BY DEF FlowNext, Subscribe, Stripe, Handle, HandleFails, SubscribeStep, StripeStep,
       ReadStep, CommitStep, CancelStep

-----------------------------------------------------------------------------
HandlersTyped == handlers \in [Handlers -> Deliveries \cup {NoDelivery}]

PCs == Statements \cup Acks \cup {"error"}

(* A delivery that is not idle carries an event about some PaymentIntent. *)
LEMMA BusyDelivery ==
    ASSUME HandlersTyped, NEW h \in Handlers, handlers[h].pc # "idle"
    PROVE  /\ handlers[h] \in Deliveries
           /\ handlers[h].pc \in PCs
           /\ Event(h) \in StripeEvents
           /\ Event(h) \in Events
           /\ Row(h) \in Intents
BY EventAssumption DEF HandlersTyped, Deliveries, NoDelivery, Event, Row, StripeEvents, PCs

(* Goto moves one delivery on and leaves its event, the status it read and *)
(* all other deliveries alone.                                             *)
LEMMA GotoMoves ==
    ASSUME HandlersTyped, NEW h \in Handlers, handlers[h].pc # "idle",
           NEW pc \in PCs, Goto(h, pc)
    PROVE  /\ HandlersTyped'
           /\ handlers'[h].pc = pc
           /\ handlers'[h].event = handlers[h].event
           /\ handlers'[h].flipped = handlers[h].flipped
           /\ \A other \in Handlers \ {h} : handlers'[other] = handlers[other]
BY BusyDelivery DEF HandlersTyped, Deliveries, NoDelivery, PCs, Goto

(* A delivery that ends leaves the others alone. *)
LEMMA DeliveryEnds ==
    ASSUME HandlersTyped, NEW h \in Handlers,
           handlers' = [handlers EXCEPT ![h] = NoDelivery]
    PROVE  /\ HandlersTyped'
           /\ handlers'[h] = NoDelivery
           /\ \A other \in Handlers \ {h} : handlers'[other] = handlers[other]
BY DEF HandlersTyped

(* What the steps of a delivery that only read do to it. *)
LEMMA ReadStepMoves ==
    ASSUME FlowTypeOK, NEW h \in Handlers, ReadStep(h)
    PROVE  /\ HandlersTyped'
           /\ \A other \in Handlers \ {h} : handlers'[other] = handlers[other]
           /\ UNCHANGED <<repoVars, intents, unacked, calls, published>>
           /\ faults' \in Nat
<1> USE DEF FlowTypeOK
<1>1. HandlersTyped
  BY DEF HandlersTyped
<1>2. ASSUME NEW e \in unacked, Receive(h, e)
      PROVE  HandlersTyped' /\ \A other \in Handlers \ {h} : handlers'[other] = handlers[other]
  <2> DEFINE new == [pc |-> CASE e.type = "succeeded" -> "select"
                              [] e.type = "failed"    -> "fail"
                              [] OTHER                -> "ignored",
                     event |-> e, status |-> "none", flipped |-> FALSE]
  <2>1. handlers' = [handlers EXCEPT ![h] = new]
    BY <1>2 DEF Receive
  <2>2. new \in Deliveries
    BY DEF Deliveries, Statements, Acks
  <2> HIDE DEF new
  <2> QED BY <1>1, <2>1, <2>2 DEF HandlersTyped
<1>3. ASSUME SelectRow(h)
      PROVE  HandlersTyped' /\ \A other \in Handlers \ {h} : handlers'[other] = handlers[other]
  <2>1. handlers[h] \in Deliveries /\ Row(h) \in Intents
    BY <1>1, <1>3, BusyDelivery DEF SelectRow, At
  <2>2. subs[Row(h)].status \in Statuses \cup {"none"}
    BY <2>1 DEF RepoTypeOK, Rows, NoRow
  <2> QED BY <1>1, <1>3, <2>1, <2>2 DEF SelectRow, HandlersTyped, Deliveries, Statements, Acks
<1>4. ASSUME InsertTransaction(h)
      PROVE  HandlersTyped' /\ \A other \in Handlers \ {h} : handlers'[other] = handlers[other]
  BY <1>1, <1>4, GotoMoves DEF InsertTransaction, At, PCs, Statements, Acks
<1>5. ASSUME UpdateRow(h)
      PROVE  HandlersTyped' /\ \A other \in Handlers \ {h} : handlers'[other] = handlers[other]
  <2>1. handlers[h] \in Deliveries
    BY <1>1, <1>5, BusyDelivery DEF UpdateRow, At
  <2>2. CASE Goto(h, "commit")
    BY <1>1, <1>5, <2>2, GotoMoves DEF UpdateRow, At, PCs, Statements
  <2>3. CASE handlers' = [handlers EXCEPT ![h].pc = "commit", ![h].status = "active",
                                          ![h].flipped = TRUE]
    BY <1>1, <2>1, <2>3 DEF HandlersTyped, Deliveries, Statements, Statuses
  <2> QED BY <1>5, <2>2, <2>3 DEF UpdateRow
<1>6. ASSUME StatementFails(h)
      PROVE  HandlersTyped' /\ \A other \in Handlers \ {h} : handlers'[other] = handlers[other]
  BY <1>1, <1>6, GotoMoves DEF StatementFails, PCs
<1>7. ASSUME LoseAcknowledgement(h) \/ ReportError(h)
      PROVE  HandlersTyped' /\ \A other \in Handlers \ {h} : handlers'[other] = handlers[other]
  BY <1>1, <1>7, DeliveryEnds DEF LoseAcknowledgement, ReportError
<1>8. UNCHANGED <<repoVars, intents, unacked, calls, published>> /\ faults' \in Nat
  BY DEF ReadStep, Receive, SelectRow, InsertTransaction, UpdateRow, StatementFails,
         LoseAcknowledgement, ReportError, Fault, repoVars
<1> QED BY <1>2, <1>3, <1>4, <1>5, <1>6, <1>7, <1>8 DEF ReadStep

(* The variables keep their types.  The other conjuncts are needed: a call *)
(* that inserts has a PaymentIntent to take the pair from (CallsHaveRows), *)
(* a COMMIT that activates a row finds one (OpenTransactionsAreSerial).    *)
LEMMA FlowTypeStep == FlowInv /\ [FlowNext]_vars => FlowTypeOK'
<1> SUFFICES ASSUME FlowTypeOK, CallsHaveRows, OpenTransactionsAreSerial, [FlowNext]_vars
             PROVE  FlowTypeOK'
  BY DEF FlowInv
<1> USE LedgerStays DEF FlowTypeOK
<1>0. HandlersTyped
  BY DEF HandlersTyped
<1>1. ASSUME NEW p \in Intents, SubscribeStep(p)
      PROVE  FlowTypeOK'
  <2> USE PeriodAssumption, FlowAssumption
      DEF RepoTypeOK, Rows, NoRow, Statuses, PaymentIntents, NoIntent, CallStates,
          Fault, repoVars
  <2>1. ASSUME NEW u \in Users, NEW c \in Creators, CreatePaymentIntent(p, u, c)
        PROVE  FlowTypeOK'
    BY <2>1 DEF CreatePaymentIntent
  <2>2. CASE InsertRow(p)
    <3>1. intents[p] \in PaymentIntents
      BY <2>2 DEF InsertRow, CallsHaveRows
    <3> QED BY <3>1, <2>2 DEF InsertRow, CreatePending
  <2>3. CASE InsertFails(p)
    <3>1. intents[p] \in PaymentIntents
      BY <2>3 DEF InsertFails, CallsHaveRows
    <3> QED BY <3>1, <2>3 DEF InsertFails, CreatePending
  <2>4. CASE RejectDuplicate(p) \/ AnswerSubscribe(p) \/ LoseAnswer(p)
    BY <2>4 DEF RejectDuplicate, AnswerSubscribe, LoseAnswer
  <2> QED BY <1>1, <2>1, <2>2, <2>3, <2>4 DEF SubscribeStep
<1>2. ASSUME NEW p \in Intents, StripeStep(p)
      PROVE  FlowTypeOK'
  BY <1>2, FlowAssumption
     DEF StripeStep, ConfirmPayment, DeclinePayment, AbandonIntent, SucceededEvent, FailedEvent,
         CanceledEvent, RepoTypeOK, PaymentIntents, NoIntent, StripeEvents, repoVars
<1>3. ASSUME NEW h \in Handlers, ReadStep(h)
      PROVE  FlowTypeOK'
  BY <1>3, ReadStepMoves DEF RepoTypeOK, HandlersTyped, repoVars
<1>4. ASSUME NEW h \in Handlers, CommitStep(h)
      PROVE  FlowTypeOK'
  <2>1. handlers[h].pc # "idle" /\ Row(h) \in Intents /\ Event(h) \in Events
    BY <1>0, <1>4, BusyDelivery DEF CommitStep, Commit, CommitUnheard, At
  <2>2. At(h, "commit") /\ CommitWrites(h)
    BY <1>4 DEF CommitStep, Commit, CommitUnheard
  <2>3. handlers[h].flipped => subs[Row(h)] \in Rows
    BY <2>1, <2>2 DEF OpenTransactionsAreSerial, RepoTypeOK, NoRow
  <2> DEFINE row == [event |-> Event(h), sub |-> Row(h), amount |-> PaymentAmountCents]
  <2>4. RepoTypeOK'
    <3>1. Record(row) /\ row \in Transactions
      BY <2>1, <2>2, FlowAssumption DEF CommitWrites, Transactions
    <3>2. IsABag(transactions') /\ RecordedRows' \subseteq Transactions
      BY <3>1, RecordAdds DEF RepoTypeOK
    <3> QED BY <2>1, <2>2, <2>3, <3>2
            DEF CommitWrites, RepoTypeOK, Rows, NoRow, Statuses
  <2>5. HandlersTyped'
    BY <1>0, <1>4, <2>1, GotoMoves
       DEF CommitStep, Commit, CommitUnheard, PCs, Statements
  <2> QED BY <1>4, <2>4, <2>5 DEF CommitStep, Commit, CommitUnheard, Fault, HandlersTyped
<1>5. ASSUME NEW h \in Handlers, CancelStep(h)
      PROVE  FlowTypeOK'
  <2>1. handlers[h].pc # "idle" /\ Row(h) \in Intents
    BY <1>0, <1>5, BusyDelivery DEF CancelStep, CancelPending, CancelPendingUnheard, At
  <2>2. RepoTypeOK'
    BY <1>5, <2>1
       DEF CancelStep, CancelPending, CancelPendingUnheard, MarkPaymentFailed, RepoTypeOK,
           Rows, NoRow, Statuses, repoVars
  <2>3. HandlersTyped'
    BY <1>0, <1>5, <2>1, GotoMoves
       DEF CancelStep, CancelPending, CancelPendingUnheard, PCs, Acks
  <2> QED BY <1>5, <2>2, <2>3
          DEF CancelStep, CancelPending, CancelPendingUnheard, Fault, HandlersTyped
<1>6. ASSUME NEW h \in Handlers, PublishSubscribed(h)
      PROVE  FlowTypeOK'
  <2>1. HandlersTyped'
    BY <1>0, <1>6, GotoMoves DEF PublishSubscribed, At, PCs, Acks
  <2>2. Row(h) \in Intents
    BY <1>0, <1>6, BusyDelivery DEF PublishSubscribed, At
  <2> QED BY <1>6, <2>1, <2>2 DEF PublishSubscribed, HandlersTyped, RepoTypeOK, repoVars
<1>7. ASSUME NEW h \in Handlers, Acknowledge(h)
      PROVE  FlowTypeOK'
  BY <1>7 DEF Acknowledge, RepoTypeOK, repoVars
<1>8. CASE Crash
  BY <1>8 DEF Crash, Fault, CallStates, RepoTypeOK, repoVars
<1>9. CASE Others
  BY <1>9, PeriodAssumption
     DEF Others, Cancel, Renew, ExpireOverdue, Overdue, Tick, flowVars, RepoTypeOK, Rows,
         NoRow, Statuses
<1>10. CASE UNCHANGED vars
  BY <1>10 DEF vars, RepoTypeOK
<1> QED BY <1>1, <1>2, <1>3, <1>4, <1>5, <1>6, <1>7, <1>8, <1>9, <1>10, FlowCases
-----------------------------------------------------------------------------
(* Only Subscribe makes rows, and nothing removes one. *)
LEMMA RowsStay ==
    ASSUME FlowInv, [FlowNext]_vars, NEW p \in Intents,
           ~ SubscribeStep(p)
    PROVE  subs'[p] = NoRow <=> subs[p] = NoRow
<1> USE DEF FlowInv, FlowTypeOK, RepoTypeOK, Rows, NoRow, Statuses
<1>0. HandlersTyped
  BY DEF HandlersTyped
<1>1. ASSUME NEW r \in Intents, SubscribeStep(r), r # p
      PROVE  subs'[p] = subs[p]
  BY <1>1 DEF SubscribeStep, CreatePaymentIntent, InsertRow, InsertFails, RejectDuplicate,
              AnswerSubscribe, LoseAnswer, CreatePending, repoVars
<1>2. ASSUME NEW r \in Intents, StripeStep(r)
      PROVE  subs'[p] = subs[p]
  BY <1>2 DEF StripeStep, ConfirmPayment, DeclinePayment, AbandonIntent, repoVars
<1>3. ASSUME NEW h \in Handlers, ReadStep(h) \/ PublishSubscribed(h) \/ Acknowledge(h)
      PROVE  subs'[p] = subs[p]
  BY <1>3, ReadStepMoves DEF PublishSubscribed, Acknowledge, repoVars
<1>4. ASSUME NEW h \in Handlers, CommitStep(h)
      PROVE  subs'[p] = NoRow <=> subs[p] = NoRow
  <2>1. At(h, "commit") /\ CommitWrites(h)
    BY <1>4 DEF CommitStep, Commit, CommitUnheard
  <2>2. handlers[h].flipped => subs[Row(h)].status = "pending"
    BY <2>1 DEF OpenTransactionsAreSerial
  <2> QED BY <2>1, <2>2 DEF CommitWrites
<1>5. ASSUME NEW h \in Handlers, CancelStep(h)
      PROVE  subs'[p] = NoRow <=> subs[p] = NoRow
  BY <1>5 DEF CancelStep, CancelPending, CancelPendingUnheard, MarkPaymentFailed, repoVars
<1>6. CASE Others
  BY <1>6, PeriodAssumption DEF Others, Cancel, Renew, ExpireOverdue, Overdue, Tick
<1>7. CASE Crash \/ UNCHANGED vars
  BY <1>7 DEF Crash, vars, repoVars
<1> QED BY <1>1, <1>2, <1>3, <1>4, <1>5, <1>6, <1>7, FlowCases

(* Stripe never takes a charge back, and gives no PaymentIntent twice.     *)
LEMMA ChargesStay ==
    ASSUME FlowInv, [FlowNext]_vars, NEW p \in Intents, intents[p].state = "succeeded"
    PROVE  intents'[p].state = "succeeded"
<1> USE DEF FlowInv, FlowTypeOK, PaymentIntents, NoIntent
<1>1. ASSUME NEW r \in Intents, SubscribeStep(r)
      PROVE  intents'[p] = intents[p]
  BY <1>1 DEF SubscribeStep, CreatePaymentIntent, InsertRow, InsertFails, RejectDuplicate,
              AnswerSubscribe, LoseAnswer, CallsHaveRows
<1>2. ASSUME NEW r \in Intents, StripeStep(r)
      PROVE  intents'[p].state = "succeeded"
  BY <1>2 DEF StripeStep, ConfirmPayment, DeclinePayment, AbandonIntent
<1>3. ASSUME NEW h \in Handlers, ReadStep(h)
      PROVE  intents'[p] = intents[p]
  BY <1>3, ReadStepMoves
<1>4. ASSUME NEW h \in Handlers,
             CommitStep(h) \/ CancelStep(h) \/ PublishSubscribed(h) \/ Acknowledge(h)
      PROVE  intents'[p] = intents[p]
  BY <1>4 DEF CommitStep, Commit, CommitUnheard, CancelStep, CancelPending,
              CancelPendingUnheard, PublishSubscribed, Acknowledge
<1>5. CASE Crash \/ Others \/ UNCHANGED vars
  BY <1>5 DEF Crash, Others, flowVars, vars
<1> QED BY <1>1, <1>2, <1>3, <1>4, <1>5, FlowCases

(* The client gets the client_secret only after the row is there, and      *)
(* Stripe is paid only by a client that has it.                            *)
LEMMA CallsHaveRowsStep == FlowInv /\ [FlowNext]_vars => CallsHaveRows'
<1> SUFFICES ASSUME FlowInv, [FlowNext]_vars, NEW p \in Intents
             PROVE  /\ calls'[p] = "idle" <=> intents'[p] = NoIntent
                    /\ calls'[p] \in {"idle", "intent"} => subs'[p] = NoRow
                    /\ calls'[p] \in {"inserted", "returned"} => subs'[p] # NoRow
                    /\ intents'[p].state = "succeeded" => calls'[p] = "returned"
  BY DEF CallsHaveRows
<1> USE DEF FlowInv, FlowTypeOK, CallsHaveRows, CallStates, PaymentIntents, NoIntent
<1>1. CASE SubscribeStep(p)
  BY <1>1, PeriodAssumption
     DEF SubscribeStep, CreatePaymentIntent, InsertRow, InsertFails, RejectDuplicate, AnswerSubscribe,
         LoseAnswer, CreatePending, repoVars, RepoTypeOK, Rows, NoRow
<1>2. ASSUME ~ SubscribeStep(p), NEW r \in Intents, SubscribeStep(r)
      PROVE  calls'[p] = calls[p] /\ intents'[p] = intents[p]
  BY <1>2 DEF SubscribeStep, CreatePaymentIntent, InsertRow, InsertFails, RejectDuplicate,
              AnswerSubscribe, LoseAnswer
<1>3. ASSUME NEW r \in Intents, StripeStep(r)
      PROVE  /\ calls'[p] = calls[p]
             /\ intents'[p] = NoIntent <=> intents[p] = NoIntent
             /\ intents'[p].state = "succeeded" => calls[p] = "returned"
  BY <1>3 DEF StripeStep, ConfirmPayment, DeclinePayment, AbandonIntent
<1>4. ASSUME NEW h \in Handlers,
             \/ ReadStep(h) \/ CommitStep(h) \/ CancelStep(h)
             \/ PublishSubscribed(h) \/ Acknowledge(h)
      PROVE  calls'[p] = calls[p] /\ intents'[p] = intents[p]
  BY <1>4, ReadStepMoves
     DEF CommitStep, Commit, CommitUnheard, CancelStep, CancelPending, CancelPendingUnheard,
         PublishSubscribed, Acknowledge
<1>5. CASE Crash
  BY <1>5 DEF Crash, repoVars
<1>6. ASSUME Others \/ UNCHANGED vars
      PROVE  calls'[p] = calls[p] /\ intents'[p] = intents[p]
  BY <1>6 DEF Others, flowVars, vars
<1> QED BY <1>1, <1>2, <1>3, <1>4, <1>5, <1>6, RowsStay, FlowCases
-----------------------------------------------------------------------------
(* What any step of the system may do to one delivery. *)
Begins(h) ==
    /\ handlers[h] = NoDelivery
    /\ handlers'[h].event \in unacked
    /\ handlers'[h].flipped = FALSE
    /\ \/ handlers'[h].pc = "select" /\ handlers'[h].event.type = "succeeded"
       \/ handlers'[h].pc = "fail" /\ handlers'[h].event.type = "failed"
       \/ handlers'[h].pc = "ignored" /\ handlers'[h].event.type = "unhandled"

Moves(h, pc) ==
    /\ handlers[h] \in Deliveries
    /\ handlers'[h].pc = pc
    /\ handlers'[h].event = handlers[h].event
    /\ \A other \in Handlers \ {h} : handlers'[other] = handlers[other]

MovesOn(h) ==
    \/ Moves(h, "error")
    \/ /\ SelectRow(h)
       /\ handlers'[h].flipped = handlers[h].flipped
       /\ \/ Moves(h, "unknown") /\ subs[Row(h)] = NoRow
          \/ Moves(h, "insert") /\ subs[Row(h)] # NoRow
    \/ /\ InsertTransaction(h)
       /\ handlers'[h].flipped = handlers[h].flipped
       /\ \/ Moves(h, "duplicate") /\ EventIsRecorded(Event(h))
          \/ Moves(h, "update") /\ ~ EventIsRecorded(Event(h))
    \/ /\ UpdateRow(h)
       /\ Moves(h, "commit")
       /\ handlers'[h].flipped <=> subs[Row(h)].status = "pending"
    \/ Commit(h) /\ Moves(h, "publish")
    \/ PublishSubscribed(h) /\ Moves(h, "processed")
    \/ CancelPending(h) /\ (Moves(h, "processed") \/ Moves(h, "unknown"))

(* A step moves at most one delivery, by one of its actions, or ends it.   *)
LEMMA DeliveryMoves ==
    ASSUME FlowInv, [FlowNext]_vars, NEW h \in Handlers
    PROVE  \/ handlers'[h] = handlers[h]
           \/ handlers'[h] = NoDelivery
           \/ Begins(h)
           \/ MovesOn(h)
<1> USE DEF FlowInv
<1>0. HandlersTyped /\ unacked \subseteq StripeEvents
  BY DEF FlowTypeOK, HandlersTyped
<1> DEFINE Goal == \/ handlers'[h] = handlers[h] \/ handlers'[h] = NoDelivery
                   \/ Begins(h) \/ MovesOn(h)
<1>1. ASSUME NEW p \in Intents, SubscribeStep(p) \/ StripeStep(p)
      PROVE  Goal
  BY <1>1 DEF SubscribeStep, CreatePaymentIntent, InsertRow, InsertFails, RejectDuplicate,
              AnswerSubscribe, LoseAnswer, StripeStep, ConfirmPayment, DeclinePayment,
              AbandonIntent
<1>2. CASE Crash \/ Others \/ UNCHANGED vars
  BY <1>2 DEF Crash, Others, flowVars, vars
<1>3. ASSUME NEW g \in Handlers, g # h,
             \/ ReadStep(g) \/ CommitStep(g) \/ CancelStep(g)
             \/ PublishSubscribed(g) \/ Acknowledge(g)
      PROVE  Goal
  <2>1. handlers'[h] = handlers[h]
    BY <1>0, <1>3, ReadStepMoves
       DEF CommitStep, Commit, CommitUnheard, CancelStep, CancelPending, CancelPendingUnheard,
           PublishSubscribed, Acknowledge, Goto, HandlersTyped
  <2> QED BY <2>1
<1>4. ASSUME NEW e \in unacked, Receive(h, e)
      PROVE  Goal
  <2>1. /\ handlers[h] = NoDelivery
        /\ handlers'[h].event = e
        /\ handlers'[h].flipped = FALSE
        /\ handlers'[h].pc = CASE e.type = "succeeded" -> "select"
                               [] e.type = "failed"    -> "fail"
                               [] OTHER                -> "ignored"
    BY <1>0, <1>4 DEF Receive, HandlersTyped
  <2>2. e.type \in {"succeeded", "failed", "unhandled"}
    BY <1>0 DEF StripeEvents
  <2> QED BY <2>1, <2>2 DEF Begins
<1>5. CASE LoseAcknowledgement(h) \/ ReportError(h) \/ Acknowledge(h)
  BY <1>0, <1>5 DEF LoseAcknowledgement, ReportError, Acknowledge, HandlersTyped
<1>6. CASE SelectRow(h)
  <2>1. handlers[h] \in Deliveries /\ handlers[h].pc # "idle"
    BY <1>0, <1>6, BusyDelivery DEF SelectRow, At
  <2>2. handlers'[h] = [handlers[h] EXCEPT
                          !.pc = IF subs[Row(h)] = NoRow THEN "unknown" ELSE "insert",
                          !.status = subs[Row(h)].status]
    BY <1>0, <1>6 DEF SelectRow, HandlersTyped
  <2>3. \A other \in Handlers \ {h} : handlers'[other] = handlers[other]
    BY <1>0, <1>6 DEF SelectRow, HandlersTyped
  <2>4. /\ handlers'[h].event = handlers[h].event
        /\ handlers'[h].flipped = handlers[h].flipped
        /\ handlers'[h].pc = IF subs[Row(h)] = NoRow THEN "unknown" ELSE "insert"
    BY <2>1, <2>2 DEF Deliveries
  <2> QED BY <1>6, <2>1, <2>3, <2>4 DEF MovesOn, Moves
<1>7. CASE InsertTransaction(h)
  <2>1. handlers[h] \in Deliveries /\ handlers[h].pc # "idle"
    BY <1>0, <1>7, BusyDelivery DEF InsertTransaction, At
  <2> QED BY <1>0, <1>7, <2>1, GotoMoves
          DEF InsertTransaction, MovesOn, Moves, PCs, Statements, Acks
<1>8. CASE UpdateRow(h)
  <2>1. handlers[h] \in Deliveries /\ handlers[h].pc # "idle" /\ ~ handlers[h].flipped
    BY <1>0, <1>8, BusyDelivery DEF UpdateRow, At, DeliveriesAreSound
  <2>2. CASE subs[Row(h)].status # "pending"
    BY <1>0, <1>8, <2>1, <2>2, GotoMoves DEF UpdateRow, MovesOn, Moves, PCs, Statements
  <2>3. CASE subs[Row(h)].status = "pending"
    BY <1>0, <1>8, <2>1, <2>3 DEF UpdateRow, MovesOn, Moves, HandlersTyped, Deliveries
  <2> QED BY <2>2, <2>3
<1>9. CASE StatementFails(h) \/ CommitUnheard(h) \/ CancelPendingUnheard(h)
  <2>1. handlers[h].pc # "idle" /\ Goto(h, "error")
    BY <1>9 DEF StatementFails, CommitUnheard, CancelPendingUnheard, At
  <2> QED BY <1>0, <2>1, BusyDelivery, GotoMoves DEF MovesOn, Moves, PCs
<1>10. CASE Commit(h) \/ PublishSubscribed(h) \/ CancelPending(h)
  <2>1. handlers[h] \in Deliveries /\ handlers[h].pc # "idle"
    BY <1>0, <1>10, BusyDelivery DEF Commit, PublishSubscribed, CancelPending, At
  <2> QED BY <1>0, <1>10, <2>1, GotoMoves
          DEF Commit, PublishSubscribed, CancelPending, MovesOn, Moves, PCs, Statements, Acks
<1> QED BY <1>1, <1>2, <1>3, <1>4, <1>5, <1>6, <1>7, <1>8, <1>9, <1>10, FlowCases
        DEF ReadStep, CommitStep, CancelStep

-----------------------------------------------------------------------------
(* What is done to the tables, seen from one row.                          *)

(* A COMMIT is the only step that records a transaction; none is removed.  *)
LEMMA OnlyCommitsRecord ==
    ASSUME FlowInv, [FlowNext]_vars
    PROVE  \/ transactions' = transactions /\ RecordedRows' = RecordedRows
           \/ \E h \in Handlers : CommitStep(h)
<1> USE DEF FlowInv
<1>1. ASSUME NEW p \in Intents, SubscribeStep(p) \/ StripeStep(p)
      PROVE  transactions' = transactions
  BY <1>1 DEF SubscribeStep, CreatePaymentIntent, InsertRow, InsertFails, RejectDuplicate,
              AnswerSubscribe, LoseAnswer, CreatePending, StripeStep, ConfirmPayment,
              DeclinePayment, AbandonIntent, repoVars
<1>2. ASSUME NEW h \in Handlers,
             ReadStep(h) \/ CancelStep(h) \/ PublishSubscribed(h) \/ Acknowledge(h)
      PROVE  transactions' = transactions
  BY <1>2, ReadStepMoves
     DEF CancelStep, CancelPending, CancelPendingUnheard, MarkPaymentFailed, PublishSubscribed,
         Acknowledge, repoVars
<1>3. CASE Crash \/ Others \/ UNCHANGED vars
  BY <1>3, LedgerStays DEF Crash, Others, Cancel, Renew, ExpireOverdue, Tick, vars, repoVars
<1> QED BY <1>1, <1>2, <1>3, FlowCases, LedgerStays

(* A COMMIT records the event of its delivery, once.                       *)
LEMMA CommitRecords ==
    ASSUME FlowInv, NEW h \in Handlers, CommitStep(h)
    PROVE  /\ RecordedRows' = RecordedRows \cup
                  {[event |-> Event(h), sub |-> Row(h), amount |-> PaymentAmountCents]}
           /\ handlers[h].pc = "commit"
           /\ handlers[h] \in Deliveries
           /\ Row(h) \in Intents
           /\ Event(h) = SucceededEvent(Row(h))
           /\ intents[Row(h)].state = "succeeded"
           /\ ~ EventIsRecorded(Event(h))
           /\ UNCHANGED <<intents, unacked, calls, published>>
           /\ \A other \in Handlers \ {h} : handlers'[other] = handlers[other]
<1> USE DEF FlowInv
<1>1. HandlersTyped
  BY DEF FlowTypeOK, HandlersTyped
<1>2. At(h, "commit") /\ CommitWrites(h) /\ UNCHANGED <<intents, unacked, calls, published>>
  BY DEF CommitStep, Commit, CommitUnheard
<1>3. handlers[h] \in Deliveries /\ Row(h) \in Intents
  BY <1>1, <1>2, BusyDelivery DEF At
<1>4. Event(h).type = "succeeded" /\ handlers[h] # NoDelivery
  BY <1>2 DEF At, DeliveriesAreSound, NoDelivery
<1>5. Event(h) = SucceededEvent(Row(h)) /\ intents[Row(h)].state = "succeeded"
  BY <1>4 DEF EventsAreGenuine, WasCharged, Row
<1>6. ~ EventIsRecorded(Event(h))
  BY <1>2 DEF At, OpenTransactionsAreSerial
<1>7. \A other \in Handlers \ {h} : handlers'[other] = handlers[other]
  BY <1>1 DEF CommitStep, Commit, CommitUnheard, Goto, HandlersTyped
<1>8. RecordedRows' = RecordedRows \cup
          {[event |-> Event(h), sub |-> Row(h), amount |-> PaymentAmountCents]}
  BY <1>2, RecordAdds DEF CommitWrites, FlowTypeOK, RepoTypeOK
<1> QED BY <1>2, <1>3, <1>5, <1>6, <1>7, <1>8 DEF At

(* What is recorded stays recorded.                                        *)
LEMMA RecordsStay ==
    ASSUME FlowInv, [FlowNext]_vars
    PROVE  /\ RecordedRows \subseteq RecordedRows'
           /\ \A p \in Intents : Recorded(p) => Recorded(p)'
BY OnlyCommitsRecord, CommitRecords DEF Recorded

(* A charge of a row whose event is recorded is that row's charge.         *)
LEMMA RecordedEvent ==
    ASSUME FlowInv, NEW p \in Intents
    PROVE  EventIsRecorded(SucceededEvent(p)) <=> Recorded(p)
<1>1. \A t \in RecordedRows : t.event = SucceededEvent(t.sub)
  BY DEF FlowInv, TransactionWasCharged
<1>2. \A q : SucceededEvent(q).intent = q
  BY DEF SucceededEvent
<1>3. \A t \in RecordedRows : t.event = SucceededEvent(p) <=> t.sub = p
  BY <1>1, <1>2
<1> QED BY <1>3 DEF EventIsRecorded, Recorded

(* A row never vanishes.                                                   *)
LEMMA RowsNeverVanish ==
    ASSUME FlowInv, [FlowNext]_vars, NEW p \in Intents, subs[p] # NoRow
    PROVE  subs'[p] # NoRow
<1>1. CASE ~ SubscribeStep(p)
  BY <1>1, RowsStay
<1>2. CASE SubscribeStep(p)
  BY <1>2 DEF SubscribeStep, CreatePaymentIntent, InsertRow, InsertFails, RejectDuplicate,
              AnswerSubscribe, LoseAnswer, CreatePending, repoVars
<1> QED BY <1>1, <1>2

(* Whether a row that exists is pending changes only by a COMMIT of a      *)
(* delivery that matched it, or by the UPDATE of a failed payment, which   *)
(* waits until no open transaction holds the row.                          *)
LEMMA PendingStays ==
    ASSUME FlowInv, [FlowNext]_vars, NEW p \in Intents, subs[p] # NoRow
    PROVE  \/ subs'[p].status = "pending" <=> subs[p].status = "pending"
           \/ \E h \in Handlers : CommitStep(h) /\ Row(h) = p
           \/ \E h \in Handlers : CancelStep(h) /\ subs[p].status = "pending" /\ RowIsFree(p)
<1> USE DEF FlowInv, FlowTypeOK, RepoTypeOK, Rows, NoRow, Statuses
<1>1. ASSUME NEW r \in Intents, SubscribeStep(r) \/ StripeStep(r)
      PROVE  subs'[p] = subs[p]
  BY <1>1 DEF SubscribeStep, CreatePaymentIntent, InsertRow, InsertFails, RejectDuplicate,
              AnswerSubscribe, LoseAnswer, CreatePending, StripeStep, ConfirmPayment,
              DeclinePayment, AbandonIntent, repoVars
<1>2. ASSUME NEW h \in Handlers, ReadStep(h) \/ PublishSubscribed(h) \/ Acknowledge(h)
      PROVE  subs'[p] = subs[p]
  BY <1>2, ReadStepMoves DEF PublishSubscribed, Acknowledge, repoVars
<1>3. ASSUME NEW h \in Handlers, CommitStep(h), Row(h) # p
      PROVE  subs'[p] = subs[p]
  BY <1>3 DEF CommitStep, Commit, CommitUnheard, CommitWrites
<1>4. ASSUME NEW h \in Handlers, CancelStep(h)
      PROVE  subs'[p] = subs[p] \/ (subs[p].status = "pending" /\ RowIsFree(p))
  BY <1>4 DEF CancelStep, CancelPending, CancelPendingUnheard, MarkPaymentFailed, repoVars
<1>5. CASE Others
  BY <1>5, PeriodAssumption DEF Others, Cancel, Renew, ExpireOverdue, Overdue, Tick
<1>6. CASE Crash \/ UNCHANGED vars
  BY <1>6 DEF Crash, vars, repoVars
<1> QED BY <1>1, <1>2, <1>3, <1>4, <1>5, <1>6, FlowCases

-----------------------------------------------------------------------------
(* Only what Stripe did is delivered, now and later: a charge is not taken *)
(* back and an event keeps its meaning while it is handled.                *)
LEMMA EventsAreGenuineStep == FlowInv /\ [FlowNext]_vars => EventsAreGenuine'
<1> SUFFICES ASSUME FlowInv, [FlowNext]_vars
             PROVE  EventsAreGenuine'
  OBVIOUS
<1>0. HandlersTyped /\ unacked \subseteq StripeEvents
  BY DEF FlowInv, FlowTypeOK, HandlersTyped
<1>1. ASSUME NEW e \in StripeEvents, WasCharged(e)
      PROVE  WasCharged(e)'
  BY <1>1, ChargesStay DEF WasCharged, StripeEvents, SucceededEvent
<1>2. \A e \in unacked : e.type = "succeeded" => WasCharged(e)
  BY DEF FlowInv, EventsAreGenuine
<1>3. \A e \in unacked' : e.type = "succeeded" => WasCharged(e)'
  <2>1. ASSUME NEW p \in Intents, ConfirmPayment(p)
        PROVE  /\ unacked' = unacked \cup {SucceededEvent(p)}
               /\ WasCharged(SucceededEvent(p))'
    BY <2>1 DEF ConfirmPayment, FlowInv, FlowTypeOK, PaymentIntents, NoIntent, WasCharged,
                SucceededEvent
  <2>2. ASSUME NEW p \in Intents, DeclinePayment(p) \/ AbandonIntent(p)
        PROVE  \E e : e.type # "succeeded" /\ unacked' = unacked \cup {e}
    BY <2>2 DEF DeclinePayment, AbandonIntent, FailedEvent, CanceledEvent
  <2>3. \/ \E p \in Intents : ConfirmPayment(p) \/ DeclinePayment(p) \/ AbandonIntent(p)
        \/ unacked' \subseteq unacked
    <3>1. ASSUME NEW p \in Intents, SubscribeStep(p)
          PROVE  unacked' = unacked
      BY <3>1 DEF SubscribeStep, CreatePaymentIntent, InsertRow, InsertFails, RejectDuplicate,
                  AnswerSubscribe, LoseAnswer
    <3>2. ASSUME NEW h \in Handlers,
                 \/ ReadStep(h) \/ CommitStep(h) \/ CancelStep(h)
                 \/ PublishSubscribed(h) \/ Acknowledge(h)
          PROVE  unacked' \subseteq unacked
      BY <3>2, ReadStepMoves
         DEF FlowInv, CommitStep, Commit, CommitUnheard, CancelStep, CancelPending,
             CancelPendingUnheard, PublishSubscribed, Acknowledge
    <3>3. CASE Crash \/ Others \/ UNCHANGED vars
      BY <3>3 DEF Crash, Others, flowVars, vars
    <3> QED BY <3>1, <3>2, <3>3, FlowCases DEF StripeStep
  <2>4. \A e \in unacked : e.type = "succeeded" => WasCharged(e)'
    BY <1>0, <1>1, <1>2
  <2> QED BY <2>1, <2>2, <2>3, <2>4
<1>4. ASSUME NEW h \in Handlers, handlers'[h] # NoDelivery, Event(h)'.type = "succeeded"
      PROVE  WasCharged(Event(h))'
  <2>1. CASE Event(h)' = Event(h) /\ handlers[h].pc # "idle"
    <3>1. Event(h) \in StripeEvents /\ WasCharged(Event(h))
      BY <1>0, <1>4, <2>1, BusyDelivery DEF FlowInv, EventsAreGenuine, NoDelivery
    <3> QED BY <1>1, <2>1, <3>1 DEF WasCharged
  <2>2. CASE Begins(h)
    <3>1. Event(h)' \in unacked /\ WasCharged(Event(h)')
      BY <1>2, <1>4, <2>2 DEF Begins, Event
    <3>2. intents'[Event(h)'.intent].state = "succeeded"
      BY <1>0, <3>1, ChargesStay DEF WasCharged, StripeEvents
    <3> QED BY <3>1, <3>2 DEF WasCharged
  <2>3. CASE handlers'[h] = handlers[h]
    <3>1. handlers[h].pc # "idle"
      BY <1>0, <1>4, <2>3 DEF HandlersTyped, Deliveries, Statements, Acks
    <3> QED BY <2>1, <2>3, <3>1 DEF Event
  <2>4. CASE MovesOn(h)
    <3>1. Event(h)' = Event(h) /\ handlers[h] \in Deliveries
      BY <2>4 DEF MovesOn, Moves, Event
    <3>2. handlers[h].pc # "idle"
      BY <3>1 DEF Deliveries, Statements, Acks
    <3> QED BY <2>1, <3>1, <3>2
  <2> QED BY <1>4, <2>2, <2>3, <2>4, DeliveryMoves
<1> QED BY <1>3, <1>4 DEF EventsAreGenuine

(* A delivery that is busy keeps its event.                                *)
LEMMA SameEvent ==
    ASSUME FlowInv, NEW h \in Handlers, handlers'[h] # NoDelivery,
           handlers'[h] = handlers[h] \/ MovesOn(h)
    PROVE  /\ handlers[h] \in Deliveries
           /\ handlers[h].pc # "idle"
           /\ Row(h) \in Intents
           /\ Event(h)' = Event(h) /\ Row(h)' = Row(h)
<1>1. HandlersTyped
  BY DEF FlowInv, FlowTypeOK, HandlersTyped
<1>2. handlers[h] \in Deliveries /\ Event(h)' = Event(h) /\ Row(h)' = Row(h)
  BY <1>1 DEF MovesOn, Moves, HandlersTyped, Event, Row
<1>3. handlers[h].pc # "idle"
  BY <1>2 DEF Deliveries, Statements, Acks
<1> QED BY <1>1, <1>2, <1>3, BusyDelivery

(* The event of a delivery in MarkPaymentSucceeded is the charge of its    *)
(* row, and the row is there: Stripe could only be paid once it was.       *)
LEMMA ChargedRow ==
    ASSUME FlowInv, NEW h \in Handlers, handlers[h].pc # "idle",
           Event(h).type = "succeeded"
    PROVE  /\ Row(h) \in Intents
           /\ Event(h) = SucceededEvent(Row(h))
           /\ intents[Row(h)].state = "succeeded"
           /\ subs[Row(h)] # NoRow
<1>1. Row(h) \in Intents
  BY BusyDelivery DEF FlowInv, FlowTypeOK, HandlersTyped
<1>2. WasCharged(Event(h))
  BY DEF FlowInv, EventsAreGenuine, NoDelivery
<1> QED BY <1>1, <1>2 DEF WasCharged, Row, FlowInv, CallsHaveRows

(* What one delivery has established (DeliveriesAreSound). *)
Sound(h) ==
    /\ handlers[h].pc \in {"select", "insert", "update", "commit", "publish", "duplicate"}
         => Event(h).type = "succeeded"
    /\ handlers[h].pc \in {"select", "insert", "update"} => ~ handlers[h].flipped
    /\ handlers[h].pc \in {"insert", "update", "commit"} => subs[Row(h)] # NoRow
    /\ At(h, "fail") => Event(h).type = "failed"
    /\ handlers[h].pc \in {"unknown", "ignored"} => Event(h).type # "succeeded"
    /\ handlers[h].pc \in {"publish", "duplicate"} => Recorded(Row(h))
    /\ At(h, "processed") /\ Event(h).type = "succeeded" => Recorded(Row(h))

(* No delivery is acknowledged on a branch its event does not belong to.   *)
LEMMA DeliveriesAreSoundStep == FlowInv /\ [FlowNext]_vars => DeliveriesAreSound'
<1> SUFFICES ASSUME FlowInv, [FlowNext]_vars, NEW h \in Handlers
             PROVE  Sound(h)'
  BY DEF DeliveriesAreSound, Sound
<1>1. Sound(h)
  BY DEF FlowInv, DeliveriesAreSound, Sound
<1>2. CASE handlers'[h] = NoDelivery
  BY <1>2 DEF Sound, NoDelivery, At
<1>3. CASE Begins(h)
  BY <1>3 DEF Begins, Sound, At, Event
<1>4. CASE handlers'[h] = handlers[h] /\ handlers'[h] # NoDelivery
  <2>1. Row(h) \in Intents /\ Event(h)' = Event(h) /\ Row(h)' = Row(h)
    BY <1>4, SameEvent
  <2>2. subs[Row(h)] # NoRow => subs'[Row(h)] # NoRow
    BY <2>1, RowsNeverVanish
  <2>3. Recorded(Row(h)) => Recorded(Row(h))'
    BY <2>1, RecordsStay DEF Recorded
  <2> QED BY <1>1, <1>4, <2>1, <2>2, <2>3 DEF Sound, At
<1>5. CASE MovesOn(h) /\ handlers'[h] # NoDelivery
  <2>1. /\ handlers[h] \in Deliveries /\ handlers[h].pc # "idle" /\ Row(h) \in Intents
        /\ Event(h)' = Event(h) /\ Row(h)' = Row(h)
    BY <1>5, SameEvent
  <2>2. subs[Row(h)] # NoRow => subs'[Row(h)] # NoRow
    BY <2>1, RowsNeverVanish
  <2>3. Recorded(Row(h)) => Recorded(Row(h))'
    BY <2>1, RecordsStay DEF Recorded
  <2>4. CASE Moves(h, "error")
    BY <2>4 DEF Moves, Sound, At
  <2>5. CASE /\ SelectRow(h)
             /\ handlers'[h].flipped = handlers[h].flipped
             /\ \/ Moves(h, "unknown") /\ subs[Row(h)] = NoRow
                \/ Moves(h, "insert") /\ subs[Row(h)] # NoRow
    <3>1. At(h, "select") /\ Event(h).type = "succeeded"
      BY <1>1, <2>5 DEF SelectRow, Sound, At
    <3>2. Moves(h, "insert") /\ subs[Row(h)] # NoRow
      BY <2>1, <2>5, <3>1, ChargedRow
    <3> QED BY <1>1, <2>1, <2>2, <2>5, <3>1, <3>2 DEF Sound, At, Moves
  <2>6. CASE /\ InsertTransaction(h)
             /\ handlers'[h].flipped = handlers[h].flipped
             /\ \/ Moves(h, "duplicate") /\ EventIsRecorded(Event(h))
                \/ Moves(h, "update") /\ ~ EventIsRecorded(Event(h))
    <3>1. At(h, "insert") /\ Event(h).type = "succeeded"
      BY <1>1, <2>6 DEF InsertTransaction, Sound, At
    <3>2. EventIsRecorded(Event(h)) => Recorded(Row(h))
      BY <2>1, <3>1, ChargedRow, RecordedEvent
    <3> QED BY <1>1, <2>1, <2>2, <2>3, <2>6, <3>1, <3>2 DEF Sound, At, Moves
  <2>7. CASE UpdateRow(h) /\ Moves(h, "commit")
    BY <1>1, <2>1, <2>2, <2>7 DEF UpdateRow, Sound, At, Moves
  <2>8. CASE Commit(h) /\ Moves(h, "publish")
    <3>1. /\ At(h, "commit")
          /\ \E t \in RecordedRows' : t.sub = Row(h)
      <4> DEFINE row == [event |-> Event(h), sub |-> Row(h), amount |-> PaymentAmountCents]
      <4>1. At(h, "commit") /\ row \in RecordedRows' /\ row.sub = Row(h)
        BY <2>8, CommitRecords DEF Commit, CommitStep
      <4> QED BY <4>1
    <3>2. Recorded(Row(h))'
      BY <2>1, <3>1 DEF Recorded
    <3> QED BY <1>1, <2>1, <2>8, <3>1, <3>2 DEF Sound, At, Moves
  <2>9. CASE PublishSubscribed(h) /\ Moves(h, "processed")
    BY <1>1, <2>1, <2>3, <2>9 DEF PublishSubscribed, Sound, At, Moves
  <2>10. CASE CancelPending(h) /\ (Moves(h, "processed") \/ Moves(h, "unknown"))
    BY <1>1, <2>1, <2>10 DEF CancelPending, Sound, At, Moves
  <2> QED BY <1>5, <2>4, <2>5, <2>6, <2>7, <2>8, <2>9, <2>10 DEF MovesOn
<1> QED BY <1>2, <1>3, <1>4, <1>5, DeliveryMoves

(* A delivery that holds an event after a step held it before, or has just *)
(* passed the unique index; only an UPDATE brings it to its COMMIT.        *)
LEMMA HoldersBefore ==
    ASSUME FlowInv, [FlowNext]_vars, NEW h \in Handlers,
           handlers'[h].pc \in {"update", "commit"}
    PROVE  /\ handlers[h].pc # "idle"
           /\ Row(h) \in Intents
           /\ Event(h)' = Event(h) /\ Row(h)' = Row(h)
           /\ \/ handlers[h].pc \in {"update", "commit"}
              \/ /\ InsertTransaction(h)
                 /\ ~ EventIsRecorded(Event(h))
                 /\ \A other \in Handlers \ {h} : handlers'[other] = handlers[other]
           /\ handlers'[h].pc = "commit"
                => \/ handlers'[h] = handlers[h]
                   \/ /\ UpdateRow(h)
                      /\ handlers'[h].flipped <=> subs[Row(h)].status = "pending"
<1>1. handlers'[h] # NoDelivery
  BY DEF NoDelivery
<1>2. handlers'[h] = handlers[h] \/ MovesOn(h)
  BY <1>1, DeliveryMoves DEF Begins
<1>3. handlers[h].pc # "idle" /\ Row(h) \in Intents /\ Event(h)' = Event(h) /\ Row(h)' = Row(h)
  BY <1>1, <1>2, SameEvent
<1>4. CASE handlers'[h] = handlers[h]
  BY <1>3, <1>4
<1>5. CASE MovesOn(h)
  <2>1. \/ /\ InsertTransaction(h)
           /\ Moves(h, "update") /\ ~ EventIsRecorded(Event(h))
        \/ /\ UpdateRow(h) /\ Moves(h, "commit")
           /\ handlers'[h].flipped <=> subs[Row(h)].status = "pending"
    BY <1>5 DEF MovesOn, Moves
  <2> QED BY <1>3, <2>1 DEF Moves, UpdateRow, At
<1> QED BY <1>2, <1>4, <1>5

(* The unique index lets one delivery at a time hold an event, and the row *)
(* lock keeps a matched row pending until its transaction commits.         *)
LEMMA OpenTransactionsAreSerialStep ==
    FlowInv /\ [FlowNext]_vars => OpenTransactionsAreSerial'
<1> SUFFICES ASSUME FlowInv, [FlowNext]_vars, NEW h \in Handlers
             PROVE  /\ handlers'[h].pc \in {"update", "commit"}
                       => /\ ~ EventIsRecorded(Event(h))'
                          /\ \A other \in Handlers \ {h} : ~ HoldsEvent(other, Event(h))'
                    /\ At(h, "commit")'
                       => (handlers'[h].flipped <=> subs'[Row(h)'].status = "pending")
  BY DEF OpenTransactionsAreSerial
<1> USE DEF HoldsEvent
<1>1. ASSUME NEW g \in Handlers, handlers[g].pc \in {"update", "commit"}
      PROVE  /\ ~ EventIsRecorded(Event(g))
             /\ \A other \in Handlers \ {g} : ~ HoldsEvent(other, Event(g))
  BY <1>1 DEF FlowInv, OpenTransactionsAreSerial
<1>2. ASSUME handlers'[h].pc \in {"update", "commit"}
      PROVE  ~ EventIsRecorded(Event(h))'
  <2>1. ~ EventIsRecorded(Event(h)) /\ Event(h)' = Event(h)
    BY <1>1, <1>2, HoldersBefore
  <2>2. CASE RecordedRows' = RecordedRows
    BY <2>1, <2>2 DEF EventIsRecorded
  <2>3. ASSUME NEW g \in Handlers, CommitStep(g)
        PROVE  ~ EventIsRecorded(Event(h))'
    <3>1. /\ handlers[g].pc = "commit"
          /\ RecordedRows' = RecordedRows \cup
                {[event |-> Event(g), sub |-> Row(g), amount |-> PaymentAmountCents]}
          /\ \A other \in Handlers \ {g} : handlers'[other] = handlers[other]
      BY <2>3, CommitRecords
    <3>2. g # h
      <4>1. CommitStep(h) => handlers'[h].pc \in {"publish", "error"}
        BY GotoMoves DEF CommitStep, Commit, CommitUnheard, At, FlowInv, FlowTypeOK, HandlersTyped,
                         PCs, Statements
      <4> QED BY <1>2, <2>3, <4>1
    <3>3. handlers[h].pc \in {"update", "commit"}
      BY <1>2, <3>1, <3>2
    <3>4. Event(g) # Event(h)
      BY <1>1, <3>1, <3>2, <3>3
    <3> QED BY <2>1, <3>1, <3>4 DEF EventIsRecorded
  <2> QED BY <2>2, <2>3, OnlyCommitsRecord
<1>3. ASSUME handlers'[h].pc \in {"update", "commit"}, NEW other \in Handlers \ {h},
             handlers'[other].pc \in {"update", "commit"}
      PROVE  Event(other)' # Event(h)'
  <2>1. Event(h)' = Event(h) /\ Event(other)' = Event(other)
    BY <1>3, HoldersBefore
  <2>2. CASE handlers[h].pc \in {"update", "commit"} /\ handlers[other].pc \in {"update", "commit"}
    BY <1>1, <2>1, <2>2
  <2>3. CASE handlers[h].pc \notin {"update", "commit"}
    <3>1. InsertTransaction(h) /\ handlers[other] = handlers'[other]
      BY <1>3, <2>3, HoldersBefore
    <3> QED BY <1>3, <2>1, <3>1 DEF InsertTransaction
  <2>4. CASE handlers[other].pc \notin {"update", "commit"}
    <3>1. InsertTransaction(other) /\ handlers[h] = handlers'[h]
      BY <1>3, <2>4, HoldersBefore
    <3> QED BY <1>3, <2>1, <3>1 DEF InsertTransaction
  <2> QED BY <2>2, <2>3, <2>4
<1>4. ASSUME At(h, "commit")'
      PROVE  handlers'[h].flipped <=> subs'[Row(h)'].status = "pending"
  <2>1. Row(h) \in Intents /\ Row(h)' = Row(h)
    BY <1>4, HoldersBefore DEF At
  <2>2. CASE UpdateRow(h) /\ (handlers'[h].flipped <=> subs[Row(h)].status = "pending")
    BY <2>1, <2>2 DEF UpdateRow, repoVars
  <2>3. CASE handlers'[h] = handlers[h]
    <3>1. /\ At(h, "commit")
          /\ handlers[h].flipped <=> subs[Row(h)].status = "pending"
          /\ subs[Row(h)] # NoRow
          /\ handlers[h].pc # "idle" /\ Event(h).type = "succeeded"
      BY <1>4, <2>3 DEF At, FlowInv, OpenTransactionsAreSerial, DeliveriesAreSound
    <3>2. ASSUME NEW g \in Handlers, CommitStep(g), Row(g) = Row(h)
          PROVE  FALSE
      <4>1. handlers[g].pc = "commit" /\ Event(g) = SucceededEvent(Row(h))
        BY <3>2, CommitRecords
      <4>2. Event(h) = SucceededEvent(Row(h))
        BY <3>1, ChargedRow
      <4>3. g = h
        BY <1>1, <3>1, <4>1, <4>2 DEF At
      <4>4. CommitStep(h) => handlers'[h].pc \in {"publish", "error"}
        BY GotoMoves DEF CommitStep, Commit, CommitUnheard, At, FlowInv, FlowTypeOK, HandlersTyped,
                         PCs, Statements
      <4> QED BY <1>4, <3>2, <4>3, <4>4 DEF At
    <3>3. ~ (subs[Row(h)].status = "pending" /\ RowIsFree(Row(h)))
      BY <3>1 DEF RowIsFree, HoldsRow
    <3> QED BY <2>1, <2>3, <3>1, <3>2, <3>3, PendingStays
  <2> QED BY <1>4, <2>2, <2>3, HoldersBefore DEF At
<1> QED BY <1>2, <1>3, <1>4

(* The service publishes in one place.                                     *)
LEMMA OnlyPublishNotifies ==
    ASSUME FlowInv, [FlowNext]_vars
    PROVE  published' = published \/ \E h \in Handlers : PublishSubscribed(h)
<1>1. ASSUME NEW p \in Intents, SubscribeStep(p) \/ StripeStep(p)
      PROVE  published' = published
  BY <1>1 DEF SubscribeStep, CreatePaymentIntent, InsertRow, InsertFails, RejectDuplicate,
              AnswerSubscribe, LoseAnswer, StripeStep, ConfirmPayment, DeclinePayment,
              AbandonIntent
<1>2. ASSUME NEW h \in Handlers,
             ReadStep(h) \/ CommitStep(h) \/ CancelStep(h) \/ Acknowledge(h)
      PROVE  published' = published
  BY <1>2, ReadStepMoves
     DEF FlowInv, CommitStep, Commit, CommitUnheard, CancelStep, CancelPending,
         CancelPendingUnheard, Acknowledge
<1>3. CASE Crash \/ Others \/ UNCHANGED vars
  BY <1>3 DEF Crash, Others, flowVars, vars
<1> QED BY <1>1, <1>2, <1>3, FlowCases

(* Whoever is about to publish was so before or has just committed.        *)
LEMMA PublishersCommitted ==
    ASSUME FlowInv, [FlowNext]_vars, NEW g \in Handlers, At(g, "publish")'
    PROVE  /\ Row(g) \in Intents /\ Row(g)' = Row(g)
           /\ \/ handlers'[g] = handlers[g] /\ At(g, "publish")
              \/ CommitStep(g)
<1>1. handlers'[g] # NoDelivery
  BY DEF At, NoDelivery
<1>2. handlers'[g] = handlers[g] \/ MovesOn(g)
  BY <1>1, DeliveryMoves DEF Begins, At
<1>3. Row(g) \in Intents /\ Row(g)' = Row(g)
  BY <1>1, <1>2, SameEvent
<1>4. MovesOn(g) => CommitStep(g)
  BY DEF MovesOn, Moves, At, CommitStep
<1> QED BY <1>2, <1>3, <1>4 DEF At

(* Two deliveries never publish for one row: each has recorded the row's   *)
(* one event, and the second would have found it recorded.                 *)
LEMMA OnePublisherStep == FlowInv /\ [FlowNext]_vars => OnePublisher'
<1> SUFFICES ASSUME FlowInv, [FlowNext]_vars, NEW h \in Handlers, At(h, "publish")'
             PROVE  /\ published'[Row(h)'] = 0
                    /\ \A other \in Handlers \ {h} :
                          ~ (At(other, "publish")' /\ Row(other)' = Row(h)')
  BY DEF OnePublisher
<1>1. ASSUME NEW g \in Handlers, At(g, "publish")'
      PROVE  /\ Row(g) \in Intents /\ Row(g)' = Row(g)
             /\ \/ handlers'[g] = handlers[g] /\ At(g, "publish")
                \/ CommitStep(g)
  BY <1>1, PublishersCommitted
<1>2. ASSUME NEW g \in Handlers, At(g, "publish")
      PROVE  Recorded(Row(g))
  BY <1>2 DEF At, FlowInv, DeliveriesAreSound
<1>3. ASSUME NEW g \in Handlers, CommitStep(g)
      PROVE  /\ ~ Recorded(Row(g)) /\ Row(g) \in Intents
             /\ published' = published
             /\ \A other \in Handlers \ {g} : handlers'[other] = handlers[other]
  BY <1>3, CommitRecords, RecordedEvent
<1>4. \A other \in Handlers \ {h} : ~ (At(other, "publish")' /\ Row(other)' = Row(h)')
  <2> SUFFICES ASSUME NEW other \in Handlers \ {h}, At(other, "publish")', Row(other) = Row(h)
               PROVE  FALSE
    BY <1>1
  <2>1. CASE At(h, "publish") /\ At(other, "publish")
    BY <2>1 DEF FlowInv, OnePublisher
  <2>2. CASE CommitStep(h)
    <3>1. At(other, "publish")
      BY <1>3, <2>2 DEF At
    <3> QED BY <1>2, <1>3, <2>2, <3>1
  <2>3. CASE CommitStep(other)
    <3>1. At(h, "publish")
      BY <1>3, <2>3 DEF At
    <3> QED BY <1>2, <1>3, <2>3, <3>1
  <2> QED BY <1>1, <2>1, <2>2, <2>3
<1>5. published'[Row(h)] = 0
  <2>1. CASE CommitStep(h)
    <3>1. /\ Row(h) \in Intents /\ ~ Recorded(Row(h)) /\ published' = published
      BY <1>3, <2>1
    <3>2. published[Row(h)] \in Nat /\ published[Row(h)] <= 1 /\ published[Row(h)] # 1
      BY <3>1 DEF FlowInv, FlowTypeOK, NotifiedAtMostOnce
    <3> QED BY <3>1, <3>2
  <2>2. CASE At(h, "publish") /\ handlers'[h] = handlers[h]
    <3>1. published[Row(h)] = 0 /\ Row(h) \in Intents
      BY <1>1, <2>2 DEF FlowInv, OnePublisher
    <3>2. ASSUME NEW g \in Handlers, PublishSubscribed(g)
          PROVE  published'[Row(h)] = published[Row(h)]
      <4>1. At(g, "publish") /\ published' = [published EXCEPT ![Row(g)] = @ + 1]
        BY <3>2 DEF PublishSubscribed
      <4>2. g # h
        <5>1. PublishSubscribed(h) => handlers'[h].pc = "processed"
          BY GotoMoves DEF PublishSubscribed, At, FlowInv, FlowTypeOK, HandlersTyped, PCs, Acks
        <5> QED BY <2>2, <3>2, <5>1 DEF At
      <4>3. Row(g) # Row(h)
        BY <2>2, <4>1, <4>2 DEF FlowInv, OnePublisher
      <4> QED BY <3>1, <4>1, <4>3 DEF FlowInv, FlowTypeOK
    <3> QED BY <3>1, <3>2, OnlyPublishNotifies
  <2> QED BY <1>1, <2>1, <2>2
<1> QED BY <1>1, <1>4, <1>5

(* Stripe gives an event up only when a delivery acknowledges it, and a    *)
(* delivery of a charge reaches a 200 only with the payment recorded.      *)
LEMMA NoPaymentLostStep == FlowInv /\ [FlowNext]_vars => NoPaymentLost'
<1> SUFFICES ASSUME FlowInv, [FlowNext]_vars, NEW p \in Intents,
                    intents'[p].state = "succeeded", SucceededEvent(p) \notin unacked'
             PROVE  Recorded(p)'
  BY DEF NoPaymentLost, SucceededEvent
<1> USE DEF FlowInv
<1>1. Recorded(p) => Recorded(p)'
  BY RecordsStay
<1>2. intents[p].state = "succeeded" /\ SucceededEvent(p) \notin unacked => Recorded(p)
  BY DEF NoPaymentLost
<1>3. ASSUME NEW r \in Intents, SubscribeStep(r)
      PROVE  unacked' = unacked /\ intents'[p].state = intents[p].state
  BY <1>3 DEF SubscribeStep, CreatePaymentIntent, InsertRow, InsertFails, RejectDuplicate,
              AnswerSubscribe, LoseAnswer, FlowTypeOK, PaymentIntents, NoIntent
<1>4. ASSUME NEW r \in Intents, StripeStep(r)
      PROVE  intents[p].state = "succeeded" /\ SucceededEvent(p) \notin unacked
  BY <1>4 DEF StripeStep, ConfirmPayment, DeclinePayment, AbandonIntent, FlowTypeOK,
              PaymentIntents, NoIntent
<1>5. ASSUME NEW h \in Handlers, Acknowledge(h)
      PROVE  intents[p].state = "succeeded" /\ (SucceededEvent(p) \in unacked => Recorded(p))
  <2>1. intents' = intents /\ unacked' = unacked \ {Event(h)} /\ handlers[h].pc \in Acks
    BY <1>5 DEF Acknowledge
  <2>2. ASSUME Event(h) = SucceededEvent(p)
        PROVE  Recorded(p)
    <3>1. Event(h).type = "succeeded" /\ Row(h) = p
      BY <2>2 DEF SucceededEvent, Row
    <3> QED BY <2>1, <3>1 DEF DeliveriesAreSound, At, Acks
  <2> QED BY <2>1, <2>2
<1>6. ASSUME NEW h \in Handlers,
             ReadStep(h) \/ CommitStep(h) \/ CancelStep(h) \/ PublishSubscribed(h)
      PROVE  unacked' = unacked /\ intents' = intents
  BY <1>6, ReadStepMoves
     DEF CommitStep, Commit, CommitUnheard, CancelStep, CancelPending, CancelPendingUnheard,
         PublishSubscribed
<1>7. CASE Crash \/ Others \/ UNCHANGED vars
  BY <1>1, <1>2, <1>7 DEF Crash, Others, flowVars, vars
<1> QED BY <1>1, <1>2, <1>3, <1>4, <1>5, <1>6, <1>7, FlowCases

(* The COMMIT records the genuine event of its delivery.                   *)
LEMMA TransactionWasChargedStep == FlowInv /\ [FlowNext]_vars => TransactionWasCharged'
<1> SUFFICES ASSUME FlowInv, [FlowNext]_vars, NEW t \in RecordedRows'
             PROVE  t.event = SucceededEvent(t.sub) /\ intents'[t.sub].state = "succeeded"
  BY DEF TransactionWasCharged, SucceededEvent
<1>1. CASE t \in RecordedRows
  <2>1. t.sub \in Intents
    BY <1>1 DEF FlowInv, FlowTypeOK, RepoTypeOK, Transactions
  <2> QED BY <1>1, <2>1, ChargesStay DEF FlowInv, TransactionWasCharged
<1>2. ASSUME NEW h \in Handlers, CommitStep(h), t \notin RecordedRows
      PROVE  t.event = SucceededEvent(t.sub) /\ intents'[t.sub].state = "succeeded"
  <2>1. t = [event |-> Event(h), sub |-> Row(h), amount |-> PaymentAmountCents]
    BY <1>2, CommitRecords
  <2>2. t.event = Event(h) /\ t.sub = Row(h)
    BY <2>1
  <2> QED BY <1>2, <2>2, CommitRecords, ChargesStay
<1> QED BY <1>1, <1>2, OnlyCommitsRecord

(* The one publisher of a row publishes once.                              *)
LEMMA NotifiedAtMostOnceStep == FlowInv /\ [FlowNext]_vars => NotifiedAtMostOnce'
<1> SUFFICES ASSUME FlowInv, [FlowNext]_vars, NEW p \in Intents
             PROVE  published'[p] <= 1 /\ (published'[p] = 1 => Recorded(p)')
  BY DEF NotifiedAtMostOnce
<1>1. Recorded(p) => Recorded(p)'
  BY RecordsStay
<1>2. published[p] <= 1 /\ (published[p] = 1 => Recorded(p))
  BY DEF FlowInv, NotifiedAtMostOnce
<1>3. ASSUME NEW h \in Handlers, PublishSubscribed(h)
      PROVE  published'[p] = published[p] \/ (published'[p] = 1 /\ Recorded(p))
  <2>1. At(h, "publish") /\ published' = [published EXCEPT ![Row(h)] = @ + 1]
    BY <1>3 DEF PublishSubscribed
  <2>2. published[Row(h)] = 0 /\ Recorded(Row(h))
    BY <2>1 DEF At, FlowInv, OnePublisher, DeliveriesAreSound
  <2>3. published \in [Intents -> Nat]
    BY DEF FlowInv, FlowTypeOK
  <2> QED BY <2>1, <2>2, <2>3
<1> QED BY <1>1, <1>2, <1>3, OnlyPublishNotifies
-----------------------------------------------------------------------------
(* Nothing is there, and nothing is being handled.                         *)
LEMMA FlowInvInit == FlowInit => FlowInv
<1> SUFFICES ASSUME FlowInit PROVE FlowInv
  OBVIOUS
<1>0. IsABag(transactions) /\ RecordedRows = {}
  BY NothingIsRecordedFirst DEF FlowInit
<1> USE <1>0 DEF FlowInit, RepoInit
<1>1. FlowTypeOK
  BY DEF FlowTypeOK, RepoTypeOK, CallStates
<1>2. CallsHaveRows /\ NoPaymentLost
  BY DEF CallsHaveRows, NoPaymentLost, NoIntent
<1>3. EventsAreGenuine /\ DeliveriesAreSound /\ OpenTransactionsAreSerial /\ OnePublisher
  BY DEF EventsAreGenuine, DeliveriesAreSound, OpenTransactionsAreSerial, OnePublisher,
         NoDelivery, At
<1>4. TransactionWasCharged /\ NotifiedAtMostOnce
  BY DEF TransactionWasCharged, NotifiedAtMostOnce
<1> QED BY <1>1, <1>2, <1>3, <1>4 DEF FlowInv

(* The conjuncts of FlowInv are inductive together and none of them alone. *)
LEMMA FlowInvStep == FlowInv /\ [FlowNext]_vars => FlowInv'
BY FlowTypeStep, CallsHaveRowsStep, EventsAreGenuineStep, DeliveriesAreSoundStep,
   OpenTransactionsAreSerialStep, OnePublisherStep, NoPaymentLostStep,
   TransactionWasChargedStep, NotifiedAtMostOnceStep DEF FlowInv

(* FlowInv holds for every number of PaymentIntents, concurrent webhook    *)
(* deliveries, declined attempts, faults and crashes.                      *)
THEOREM FlowInvariant == FlowSpec => []FlowInv
BY FlowInvInit, FlowInvStep, PTL DEF FlowSpec

(* Every variable keeps its type: no step of the webhook handler writes a  *)
(* status or a row the schema does not know.                               *)
THEOREM FlowTypeCorrect == FlowSpec => []FlowTypeOK
<1>1. FlowInv => FlowTypeOK
  BY DEF FlowInv
<1> QED BY <1>1, FlowInvariant, PTL

(* No 200 the webhook handler answers makes Stripe forget a payment that   *)
(* is not in the transactions table.                                       *)
THEOREM PaymentsAreKept == FlowSpec => []NoPaymentLost
<1>1. FlowInv => NoPaymentLost
  BY DEF FlowInv
<1> QED BY <1>1, FlowInvariant, PTL

(* No transaction row is invented.                                         *)
THEOREM TransactionsAreCharges == FlowSpec => []TransactionWasCharged
<1>1. FlowInv => TransactionWasCharged
  BY DEF FlowInv
<1> QED BY <1>1, FlowInvariant, PTL

(* However often and however concurrently Stripe delivers, a subscription  *)
(* is published at most once, after its payment is recorded.               *)
THEOREM PublishedAtMostOnce == FlowSpec => []NotifiedAtMostOnce
<1>1. FlowInv => NotifiedAtMostOnce
  BY DEF FlowInv
<1> QED BY <1>1, FlowInvariant, PTL

(* The index on stripe_event_id and the row lock serialise the webhook's   *)
(* transactions.                                                           *)
THEOREM TransactionsAreSerial == FlowSpec => []OpenTransactionsAreSerial
<1>1. FlowInv => OpenTransactionsAreSerial
  BY DEF FlowInv
<1> QED BY <1>1, FlowInvariant, PTL

-----------------------------------------------------------------------------
(* The COMMIT is where MarkPaymentSucceeded happens: the row lock makes    *)
(* "the UPDATE matched" and "the row is pending" the same thing there.     *)
LEMMA CommitIsMarkPaymentSucceeded ==
    ASSUME FlowInv, NEW h \in Handlers, CommitStep(h)
    PROVE  RepoNext
<1>1. /\ At(h, "commit") /\ CommitWrites(h)
      /\ handlers[h].pc # "idle"
  BY DEF CommitStep, Commit, CommitUnheard, At
<1>2. Row(h) \in Intents /\ Event(h) \in Events
  BY <1>1, BusyDelivery DEF FlowInv, FlowTypeOK, HandlersTyped
<1>3. /\ handlers[h].flipped <=> subs[Row(h)].status = "pending"
      /\ ~ EventIsRecorded(Event(h)) /\ subs[Row(h)] # NoRow
  BY <1>1 DEF At, FlowInv, OpenTransactionsAreSerial, DeliveriesAreSound
<1>4. MarkPaymentSucceeded(Row(h), Event(h), PaymentAmountCents)
  BY <1>1, <1>3 DEF CommitWrites, MarkPaymentSucceeded
<1> QED BY <1>2, <1>4, FlowAssumption DEF RepoNext

(* Every step of the calls, the deliveries and Stripe is an operation of   *)
(* the repository or leaves the tables alone.                              *)
LEMMA FlowStepIsRepoStep == FlowInv /\ [FlowNext]_vars => [RepoNext]_repoVars
<1> SUFFICES ASSUME FlowInv, [FlowNext]_vars
             PROVE  [RepoNext]_repoVars
  OBVIOUS
<1> USE DEF FlowInv
<1>1. ASSUME NEW p \in Intents, SubscribeStep(p)
      PROVE  [RepoNext]_repoVars
  <2>1. ASSUME calls[p] = "intent", CreatePending(p, intents[p].user, intents[p].creator)
        PROVE  RepoNext
    <3>1. intents[p].user \in Users /\ intents[p].creator \in Creators
      BY <2>1 DEF FlowTypeOK, CallsHaveRows, PaymentIntents
    <3> QED BY <2>1, <3>1 DEF RepoNext
  <2>2. CASE InsertRow(p) \/ InsertFails(p)
    BY <2>1, <2>2 DEF InsertRow, InsertFails
  <2>3. CASE \/ \E u \in Users, c \in Creators : CreatePaymentIntent(p, u, c)
             \/ RejectDuplicate(p) \/ AnswerSubscribe(p) \/ LoseAnswer(p)
    BY <2>3 DEF CreatePaymentIntent, RejectDuplicate, AnswerSubscribe, LoseAnswer
  <2> QED BY <1>1, <2>2, <2>3 DEF SubscribeStep
<1>2. ASSUME NEW p \in Intents, StripeStep(p)
      PROVE  UNCHANGED repoVars
  BY <1>2 DEF StripeStep, ConfirmPayment, DeclinePayment, AbandonIntent
<1>3. ASSUME NEW h \in Handlers, ReadStep(h) \/ PublishSubscribed(h) \/ Acknowledge(h)
      PROVE  UNCHANGED repoVars
  BY <1>3, ReadStepMoves DEF PublishSubscribed, Acknowledge
<1>4. ASSUME NEW h \in Handlers, CommitStep(h)
      PROVE  [RepoNext]_repoVars
  BY <1>4, CommitIsMarkPaymentSucceeded
<1>5. ASSUME NEW h \in Handlers, CancelStep(h)
      PROVE  [RepoNext]_repoVars
  <2>1. Row(h) \in Intents
    BY <1>5, BusyDelivery DEF CancelStep, CancelPending, CancelPendingUnheard, At, FlowTypeOK,
                              HandlersTyped
  <2> QED BY <1>5, <2>1 DEF CancelStep, CancelPending, CancelPendingUnheard, RepoNext
<1>6. CASE Others
  BY <1>6 DEF Others, RepoNext
<1>7. CASE Crash \/ UNCHANGED vars
  BY <1>7 DEF Crash, vars, repoVars
<1> QED BY <1>1, <1>2, <1>3, <1>4, <1>5, <1>6, <1>7, FlowCases

(* The webhook handler's statements, interleaved with each other and with  *)
(* everybody else's, keep the promise of the repository's interface: each  *)
(* MarkPaymentSucceeded takes effect at once or not at all.                *)
THEOREM FlowImplementsRepository == FlowSpec => RepoSpec
<1>1. FlowInit => RepoInit
  BY DEF FlowInit
<1> QED BY <1>1, FlowStepIsRepoStep, FlowInvariant, PTL DEF FlowSpec, RepoSpec

(* A creator's subscribers have the access that CreatorAccess promises     *)
(* them, and the tables keep every invariant of the repository, however    *)
(* the statements of the webhook handler interleave and fail: the          *)
(* repository's theorems hold of its callers.                              *)
THEOREM FlowKeepsAccess == FlowSpec => AccessSpec /\ []RepoInv
<1> QED BY FlowImplementsRepository, RepositoryImplementsAccess, RepoInvariant, PTL

(* Of any number of deliveries of one event that run at once, fail between *)
(* any two statements and come again, one leaves a transaction row.        *)
THEOREM EventsAreRecordedOnce == FlowSpec => []OneTransactionPerEvent
<1>1. RepoInv => OneTransactionPerEvent
  BY DEF RepoInv
<1> QED BY <1>1, FlowKeepsAccess, PTL

-----------------------------------------------------------------------------
(* NoticeOf without the arm that no reachable state takes.                 *)
Place(p) ==
    IF published[p] = 1 THEN "told"
    ELSE IF Publishing(p) THEN "due"
    ELSE IF Recorded(p) THEN "lost" ELSE "none"

LEMMA NoticeHasItsPlace == FlowInv => \A p \in Intents : NoticeOf(p) = Place(p)
<1> SUFFICES ASSUME FlowInv, NEW p \in Intents
             PROVE  NoticeOf(p) = Place(p)
  OBVIOUS
<1>1. published[p] = 0 \/ published[p] = 1
  <2>1. published[p] \in Nat /\ published[p] <= 1
    BY DEF FlowInv, FlowTypeOK, NotifiedAtMostOnce
  <2> QED BY <2>1
<1>2. Publishing(p) => published[p] = 0 /\ Recorded(p)
  BY DEF Publishing, At, FlowInv, OnePublisher, DeliveriesAreSound
<1>3. published[p] = 1 => Recorded(p)
  BY DEF FlowInv, NotifiedAtMostOnce
<1> QED BY <1>1, <1>2, <1>3 DEF NoticeOf, Place

(* Notices that all make one legal move make a step of the promise.        *)
LEMMA OneMoveIsAStep ==
    ASSUME NEW from, NEW to,
           <<from, to>> \in {<<"none", "due">>, <<"none", "lost">>, <<"due", "lost">>},
           \A p \in Intents : \/ NoticeOf(p)' = NoticeOf(p)
                              \/ NoticeOf(p) = from /\ NoticeOf(p)' = to
    PROVE  [Promise!Next]_[p \in Intents |-> NoticeOf(p)]
<1> DEFINE S == {p \in Intents : NoticeOf(p) = from /\ NoticeOf(p)' = to}
<1>1. Promise!Move(S, from, to)
  BY DEF Promise!Move
<1>2. S \in SUBSET Intents
  OBVIOUS
<1> HIDE DEF S
<1> QED BY <1>1, <1>2 DEF Promise!Next, Promise!FallDue, Promise!Miss, Promise!Lose

(* The COMMIT makes the notice of its row due, or lost if the handler does *)
(* not hear of it.                                                         *)
LEMMA CommitMakesDue ==
    ASSUME FlowInv, FlowInv', [FlowNext]_vars, NEW h \in Handlers, CommitStep(h)
    PROVE  [Promise!Next]_[p \in Intents |-> NoticeOf(p)]
<1>1. \A p \in Intents : NoticeOf(p) = Place(p) /\ NoticeOf(p)' = Place(p)'
  <2>1. (FlowInv => \A p \in Intents : NoticeOf(p) = Place(p))'
    BY NoticeHasItsPlace, PTL
  <2> QED BY <2>1, NoticeHasItsPlace
<1>2. PICK s \in Intents : s = Row(h)
  BY CommitRecords
<1>3. /\ ~ Recorded(s) /\ published' = published /\ ~ At(h, "publish")
      /\ \A g \in Handlers \ {h} : handlers'[g] = handlers[g]
  BY <1>2, CommitRecords, RecordedEvent DEF At
<1>4. \A p \in Intents : Recorded(p)' <=> Recorded(p) \/ p = s
  <2> DEFINE row == [event |-> Event(h), sub |-> Row(h), amount |-> PaymentAmountCents]
  <2>1. RecordedRows' = RecordedRows \cup {row} /\ row.sub = s
    BY <1>2, CommitRecords
  <2> HIDE DEF row
  <2> QED BY <2>1 DEF Recorded
<1>5. ~ Publishing(s) /\ published[s] # 1
  BY <1>3 DEF Publishing, At, FlowInv, DeliveriesAreSound, NotifiedAtMostOnce
<1>6. ASSUME NEW p \in Intents, p # s
      PROVE  Place(p)' = Place(p)
  <2>1. ASSUME NEW g \in Handlers, At(g, "publish")', Row(g)' = p
        PROVE  At(g, "publish") /\ Row(g) = p
    <3>1. Row(g)' = Row(g) /\ g # h
      BY <1>2, <1>6, <2>1, PublishersCommitted
    <3> QED BY <1>3, <2>1, <3>1 DEF At
  <2>2. ASSUME NEW g \in Handlers, At(g, "publish"), Row(g) = p
        PROVE  At(g, "publish")' /\ Row(g)' = p
    BY <1>3, <2>2 DEF At, Row, Event
  <2>3. Publishing(p)' <=> Publishing(p)
    BY <2>1, <2>2 DEF Publishing
  <2> QED BY <1>3, <1>4, <1>6, <2>3 DEF Place
<1>7. Place(s) = "none" /\ Place(s)' \in {"due", "lost"}
  BY <1>3, <1>4, <1>5 DEF Place
<1>8. CASE Place(s)' = "due"
  BY <1>1, <1>6, <1>7, <1>8, OneMoveIsAStep
<1>9. CASE Place(s)' = "lost"
  BY <1>1, <1>6, <1>7, <1>9, OneMoveIsAStep
<1> QED BY <1>7, <1>8, <1>9

LEMMA PublishTells ==
    ASSUME FlowInv, FlowInv', [FlowNext]_vars, NEW h \in Handlers, PublishSubscribed(h)
    PROVE  [Promise!Next]_[p \in Intents |-> NoticeOf(p)]
<1>1. \A p \in Intents : NoticeOf(p) = Place(p) /\ NoticeOf(p)' = Place(p)'
  <2>1. (FlowInv => \A p \in Intents : NoticeOf(p) = Place(p))'
    BY NoticeHasItsPlace, PTL
  <2> QED BY <2>1, NoticeHasItsPlace
<1>2. PICK s \in Intents : s = Row(h)
  BY BusyDelivery DEF PublishSubscribed, At, FlowInv, FlowTypeOK, HandlersTyped
<1>3. /\ At(h, "publish") /\ UNCHANGED RecordedRows
      /\ published' = [published EXCEPT ![s] = @ + 1]
      /\ Goto(h, "processed")
  BY <1>2, LedgerStays DEF PublishSubscribed, repoVars
<1>4. /\ ~ At(h, "publish")'
      /\ \A g \in Handlers \ {h} : handlers'[g] = handlers[g]
  BY <1>3, GotoMoves DEF At, FlowInv, FlowTypeOK, HandlersTyped, PCs, Acks
<1>5. published[s] = 0 /\ Publishing(s) /\ published \in [Intents -> Nat]
  BY <1>2, <1>3 DEF Publishing, At, FlowInv, OnePublisher, FlowTypeOK
<1>6. \A p \in Intents : p # s => (Publishing(p)' <=> Publishing(p))
  BY <1>2, <1>3, <1>4 DEF Publishing, At, Row, Event
<1>7. Place(s) = "due" /\ Place(s)' = "told"
  BY <1>3, <1>5 DEF Place
<1>8. \A p \in Intents : p # s => Place(p)' = Place(p)
  BY <1>3, <1>5, <1>6 DEF Place, Recorded
<1>9. Promise!Tell(s)
  BY <1>1, <1>7, <1>8 DEF Promise!Tell, Promise!Move
<1> QED BY <1>9 DEF Promise!Next

LEMMA FlowStepKeepsPromise ==
    ASSUME FlowInv, FlowInv', [FlowNext]_vars
    PROVE  [Promise!Next]_[p \in Intents |-> NoticeOf(p)]
<1>1. CASE \E h \in Handlers : CommitStep(h)
  BY <1>1, CommitMakesDue
<1>2. CASE \E h \in Handlers : PublishSubscribed(h)
  BY <1>2, PublishTells
<1>3. CASE ~ \E h \in Handlers : CommitStep(h) \/ PublishSubscribed(h)
  <2>1. RecordedRows' = RecordedRows /\ published' = published
    BY <1>3, OnlyCommitsRecord, OnlyPublishNotifies
  <2>2. \A p \in Intents : Publishing(p)' => Publishing(p)
    BY <1>3, PublishersCommitted DEF Publishing
  <2>3. \A p \in Intents : Publishing(p) => Recorded(p)
    BY DEF Publishing, At, FlowInv, DeliveriesAreSound
  <2>4. \A p \in Intents : Place(p)' = Place(p) \/ (Place(p) = "due" /\ Place(p)' = "lost")
    BY <2>1, <2>2, <2>3 DEF Place, Recorded
  <2>5. \A p \in Intents : NoticeOf(p) = Place(p) /\ NoticeOf(p)' = Place(p)'
    <3>1. (FlowInv => \A p \in Intents : NoticeOf(p) = Place(p))'
      BY NoticeHasItsPlace, PTL
    <3> QED BY <3>1, NoticeHasItsPlace
  <2> QED BY <2>4, <2>5, OneMoveIsAStep
<1> QED BY <1>1, <1>2, <1>3

(* However often, late and concurrently Stripe delivers, the webhook keeps *)
(* the promise of CreatorNotices: a payment's notice falls due with its    *)
(* COMMIT and is published from there or never; no redelivery makes up for *)
(* a publish that was lost.                                                *)
THEOREM WebhookKeepsNoticePromise == FlowSpec => NoticeSpec
<1>1. FlowInit => Promise!Init
  <2> SUFFICES ASSUME FlowInit
               PROVE  \A p \in Intents : NoticeOf(p) = "none"
    BY DEF Promise!Init
  <2>1. \A p \in Intents : published[p] = 0 /\ ~ Recorded(p) /\ ~ Publishing(p)
    BY NothingIsRecordedFirst DEF FlowInit, Recorded, Publishing, At, NoDelivery
  <2> QED BY <2>1 DEF NoticeOf
<1>2. FlowInv /\ FlowInv' /\ [FlowNext]_vars
        => [Promise!Next]_[p \in Intents |-> NoticeOf(p)]
  BY FlowStepKeepsPromise
<1> QED BY <1>1, <1>2, FlowInvariant, PTL DEF FlowSpec, NoticeSpec, Promise!Spec
=============================================================================
