------------------------ MODULE SteamControllerProofs ------------------------
(***************************************************************************)
(* The GATT queue for any number of operations and links and any faults:   *)
(* no operation is in two places, the queue never rests with work in it,   *)
(* while no callback reports a failed write only a configured controller   *)
(* is registered, and on the first link nothing runs without services.     *)
(***************************************************************************)
EXTENDS SteamController, TLAPS

-----------------------------------------------------------------------------
(***************************************************************************)
(* What the three updates of the queue do.                                 *)
(***************************************************************************)

\* Adding at the end.
LEMMA AppendOp ==
  ASSUME NEW q \in Seq(Op), NEW op \in Op
  PROVE  /\ Append(q, op) \in Seq(Op) /\ DOMAIN Append(q, op) = 1..(Len(q) + 1)
         /\ Append(q, op)[Len(q) + 1] = op /\ Len(q) \in Nat /\ DOMAIN q = 1..Len(q)
         /\ \A i \in DOMAIN q : Append(q, op)[i] = q[i]
BY SMT

\* Taking from the front.
LEMMA TailOp ==
  ASSUME NEW q \in Seq(Op), q # <<>>
  PROVE  /\ Head(q) \in Op /\ Head(q) = q[1] /\ 1 \in DOMAIN q
         /\ Tail(q) \in Seq(Op)
         /\ \A i \in DOMAIN Tail(q) : Tail(q)[i] = q[i + 1] /\ i + 1 \in DOMAIN q
                                      /\ i + 1 # 1 /\ i \in Nat
BY SMT

\* Putting back in front.
LEMMA ConsOp ==
  ASSUME NEW q \in Seq(Op), NEW op \in Op
  PROVE  /\ <<op>> \o q \in Seq(Op) /\ (<<op>> \o q)[1] = op
         /\ \A i \in DOMAIN (<<op>> \o q) :
              i = 1 \/ (i \in Nat /\ i - 1 \in DOMAIN q /\ (<<op>> \o q)[i] = q[i - 1])
<1>1. /\ <<op>> \in Seq(Op) /\ Len(<<op>>) = 1 /\ <<op>>[1] = op
  BY SMT
<1>2. /\ <<op>> \o q \in Seq(Op) /\ Len(<<op>> \o q) = 1 + Len(q)
      /\ \A i \in 1..(1 + Len(q)) :
           (<<op>> \o q)[i] = IF i <= 1 THEN <<op>>[i] ELSE q[i - 1]
  BY <1>1, SMT
<1> QED BY <1>1, <1>2, SMT

\* NoOp is no operation.
LEMMA NoOpIsNone == \A op \in Op : op # NoOp /\ op.id \in Nat \ {0} /\ op.id # NoOp.id
BY DEF Op, NoOp

\* An answer changes an operation's result and nothing else.
LEMMA AnsweredOp ==
  ASSUME NEW op \in Op, NEW result \in {"accepted", "refused"}
  PROVE  /\ [op EXCEPT !.result = result] \in Op
         /\ [op EXCEPT !.result = result].id = op.id
         /\ [op EXCEPT !.result = result].kind = op.kind
BY SMT DEF Op

-----------------------------------------------------------------------------
(***************************************************************************)
(* The inductive invariant of the queue.                                   *)
(***************************************************************************)

QueueTypes ==
  /\ mOperations \in Seq(Op) /\ mCurrentOperation \in Op \cup {NoOp}
  /\ binder \in [pc : {"idle", "finish", "taken", "execute"}, op : Op \cup {NoOp}]
  /\ sdl \in [pc : {"idle", "add", "execute"}, kind : Kind]
  /\ created \in 0..MaxOps /\ mGatt \in 0..MaxLinks /\ links \in 1..MaxLinks
  /\ crashed \in BOOLEAN

Distinct(q)  == \A i, j \in DOMAIN q : q[i].id = q[j].id => i = j
Apart(q, op) == \A i \in DOMAIN q : q[i].id # op.id
Old(q, n)    == \A i \in DOMAIN q : q[i].id <= n

\* Identities are handed out once: every operation anywhere has one of those
\* created so far, and a new one is apart from all.  The Binder thread has an
\* operation in hand only between its two blocks.
Homes ==
  /\ Distinct(mOperations)
  /\ Apart(mOperations, mCurrentOperation) /\ Apart(mOperations, binder.op)
  /\ mCurrentOperation = NoOp \/ mCurrentOperation.id # binder.op.id
  /\ Old(mOperations, created)
  /\ mCurrentOperation.id <= created /\ binder.op.id <= created
  /\ binder.pc # "taken" => binder.op = NoOp

QueueInv == QueueTypes /\ Homes /\ NoIdleQueue

queueState == <<mOperations, mCurrentOperation, binder, sdl, created>>

\* A step that leaves the queue and its threads alone.
LEMMA QuietKeeps ==
  ASSUME QueueInv, UNCHANGED queueState, crashed => crashed', crashed' \in BOOLEAN,
         mGatt' \in 0..MaxLinks, links' \in 1..MaxLinks
  PROVE  QueueInv'
BY DEF QueueInv, QueueTypes, Homes, NoIdleQueue, queueState, Distinct, Apart, Old

\* The next operation to be created.
LEMMA NewOpIsNew ==
  ASSUME QueueInv, NEW kind \in Kind, created < MaxOps
  PROVE  /\ NewOp(kind) \in Op /\ NewOp(kind).id = created + 1 /\ NewOp(kind).kind = kind
         /\ created \in Nat /\ created + 1 \in 0..MaxOps
BY BoundsAssumption DEF QueueInv, QueueTypes, NewOp, Op

\* queueGattOperation appends an operation that is nowhere else.
LEMMA AddKeeps ==
  ASSUME QueueInv, NEW kind \in Kind, AddOperation(kind), mCurrentOperation' = mCurrentOperation,
         NEW op \in {binder.op, NoOp}, binder'.op = op
  PROVE  /\ mOperations' \in Seq(Op) /\ created' \in 0..MaxOps /\ created' = created + 1
         /\ Distinct(mOperations') /\ Old(mOperations', created')
         /\ Apart(mOperations', mCurrentOperation) /\ Apart(mOperations', op)
<1> DEFINE new == NewOp(kind)
<1>1. /\ created < MaxOps /\ created' = created + 1 /\ mOperations' = Append(mOperations, new)
  BY DEF AddOperation
<1>2. new \in Op /\ new.id = created + 1 /\ created \in Nat /\ created' \in 0..MaxOps
  BY <1>1, NewOpIsNew
<1> HIDE DEF new
<1>3. mOperations \in Seq(Op) /\ Homes /\ binder.op \in Op \cup {NoOp}
      /\ mCurrentOperation \in Op \cup {NoOp}
  BY DEF QueueInv, QueueTypes
<1>4. /\ mOperations' \in Seq(Op) /\ DOMAIN mOperations' = 1..(Len(mOperations) + 1)
      /\ mOperations'[Len(mOperations) + 1] = new
      /\ Len(mOperations) \in Nat /\ DOMAIN mOperations = 1..Len(mOperations)
      /\ \A i \in DOMAIN mOperations : mOperations'[i] = mOperations[i]
  BY <1>1, <1>2, <1>3, AppendOp
<1>5. \A i \in DOMAIN mOperations : mOperations[i] \in Op /\ mOperations[i].id <= created
                                    /\ mOperations[i].id \in Nat \ {0}
  <2>1. \A i \in DOMAIN mOperations : mOperations[i] \in Op
    BY <1>3
  <2> QED BY <1>3, <2>1, NoOpIsNone DEF Homes, Old
<1>6. \A i \in DOMAIN mOperations' : i \in DOMAIN mOperations \/ i = Len(mOperations) + 1
  BY <1>4
<1>7. Old(mOperations', created')
  BY <1>1, <1>2, <1>4, <1>5, <1>6 DEF Old
<1>8. Distinct(mOperations')
  <2> SUFFICES ASSUME NEW i \in DOMAIN mOperations', NEW j \in DOMAIN mOperations',
                      mOperations'[i].id = mOperations'[j].id
               PROVE  i = j
    BY DEF Distinct
  <2>1. CASE i \in DOMAIN mOperations /\ j \in DOMAIN mOperations
    BY <1>3, <1>4, <2>1 DEF Homes, Distinct
  <2>2. ASSUME NEW k \in DOMAIN mOperations
        PROVE  mOperations'[k].id # mOperations'[Len(mOperations) + 1].id
    BY <1>2, <1>4, <1>5
  <2> QED BY <1>6, <2>1, <2>2
<1>9. ASSUME NEW other, other.id <= created, other.id \in Nat, Apart(mOperations, other)
      PROVE  Apart(mOperations', other)
  BY <1>2, <1>4, <1>6, <1>9 DEF Apart
<1>10. /\ mCurrentOperation.id \in Nat /\ binder.op.id \in Nat /\ NoOp.id = 0
  BY <1>3, NoOpIsNone DEF NoOp
<1>11. Apart(mOperations, NoOp)
  BY <1>5, NoOpIsNone DEF Apart
<1> QED BY <1>1, <1>2, <1>3, <1>4, <1>7, <1>8, <1>9, <1>10, <1>11 DEF Homes

\* executeNextGattOperation moves the head of the queue to mCurrentOperation, or
\* has nothing to do.
LEMMA ExecuteKeeps ==
  ASSUME QueueInv, ExecuteNext
  PROVE  /\ mOperations' \in Seq(Op) /\ mCurrentOperation' \in Op \cup {NoOp}
         /\ Distinct(mOperations') /\ Old(mOperations', created)
         /\ Apart(mOperations', mCurrentOperation') /\ Apart(mOperations', binder.op)
         /\ mCurrentOperation' = NoOp \/ mCurrentOperation'.id # binder.op.id
         /\ mCurrentOperation'.id <= created
         /\ mOperations' # <<>> => mCurrentOperation' # NoOp
<1>1. CASE mCurrentOperation # NoOp \/ mOperations = <<>>
  BY <1>1 DEF ExecuteNext, queueVars, QueueInv, QueueTypes, Homes
<1>2. CASE ~(mCurrentOperation # NoOp \/ mOperations = <<>>)
  <2>1. /\ mCurrentOperation' = Head(mOperations) /\ mOperations' = Tail(mOperations)
        /\ mOperations # <<>> /\ mOperations \in Seq(Op) /\ Homes
    BY <1>2 DEF ExecuteNext, QueueInv, QueueTypes
  <2>2. /\ mCurrentOperation' \in Op /\ mCurrentOperation' = mOperations[1]
        /\ 1 \in DOMAIN mOperations /\ mOperations' \in Seq(Op)
        /\ \A i \in DOMAIN mOperations' :
             mOperations'[i] = mOperations[i + 1] /\ i + 1 \in DOMAIN mOperations
             /\ i + 1 # 1 /\ i \in Nat
    BY <2>1, TailOp
  <2>3. Old(mOperations', created) /\ Apart(mOperations', binder.op)
    BY <2>1, <2>2 DEF Homes, Old, Apart
  <2>4. Apart(mOperations', mCurrentOperation')
    BY <2>1, <2>2 DEF Homes, Distinct, Apart
  <2>5. Distinct(mOperations')
    <3> SUFFICES ASSUME NEW i \in DOMAIN mOperations', NEW j \in DOMAIN mOperations',
                        mOperations'[i].id = mOperations'[j].id
                 PROVE  i = j
      BY DEF Distinct
    <3>1. i + 1 = j + 1
      BY <2>1, <2>2 DEF Homes, Distinct
    <3> QED BY <2>2, <3>1
  <2>6. mCurrentOperation'.id # binder.op.id /\ mCurrentOperation'.id <= created
    BY <2>1, <2>2 DEF Homes, Apart, Old
  <2> QED BY <2>2, <2>3, <2>4, <2>5, <2>6, NoOpIsNone
<1> QED BY <1>1, <1>2

\* The main thread: only Shutdown touches the queue, and it empties it; a run
\* changes no more of the current operation than its result.
LEMMA MainKeeps ==
  ASSUME QueueInv, MainThread
  PROVE  QueueInv'
<1>1. CASE RunPosted
  <2>1. /\ UNCHANGED <<mOperations, binder, sdl, created, mGatt, links>>
        /\ mCurrentOperation' = mCurrentOperation
             \/ (mCurrentOperation # NoOp
                 /\ \E result \in {"accepted", "refused"} : Answer(mCurrentOperation, result))
        /\ crashed' \in BOOLEAN /\ (crashed => crashed')
    BY <1>1 DEF RunPosted, RunOperation, Main, QueueInv, QueueTypes
  <2>2. CASE mCurrentOperation' = mCurrentOperation
    BY <2>1, <2>2, QuietKeeps DEF queueState, QueueInv, QueueTypes
  <2>3. CASE mCurrentOperation # NoOp
             /\ \E result \in {"accepted", "refused"} : Answer(mCurrentOperation, result)
    <3>1. /\ mCurrentOperation' \in Op /\ mCurrentOperation'.id = mCurrentOperation.id
      <4>1. PICK result \in {"accepted", "refused"} : Answer(mCurrentOperation, result)
        BY <2>3
      <4>2. mCurrentOperation \in Op
        BY <2>3 DEF QueueInv, QueueTypes
      <4> QED BY <4>1, <4>2, AnsweredOp DEF Answer
    <3>2. QueueTypes'
      BY <2>1, <3>1 DEF QueueInv, QueueTypes
    <3>3. Homes'
      BY <2>1, <2>3, <3>1 DEF QueueInv, Homes, Distinct, Apart, Old
    <3>4. NoIdleQueue'
      BY <3>1, NoOpIsNone DEF NoIdleQueue
    <3> QED BY <3>2, <3>3, <3>4 DEF QueueInv
  <2> QED BY <2>1, <2>2, <2>3
<1>2. CASE DiscoverPosted
  BY <1>2, QuietKeeps DEF DiscoverPosted, Main, queueState, QueueInv, QueueTypes
<1>3. CASE Reconnect
  <2>1. mGatt' \in 0..MaxLinks /\ links' \in 1..MaxLinks
    BY <1>3, BoundsAssumption DEF Reconnect, Connect, QueueInv, QueueTypes
  <2> QED BY <1>3, <2>1, QuietKeeps DEF Reconnect, queueState, queueVars, QueueInv, QueueTypes
<1>4. CASE Shutdown
  <2>1. /\ mOperations' = <<>> /\ mGatt' = 0
        /\ UNCHANGED <<mCurrentOperation, binder, sdl, created, links, crashed>>
    BY <1>4 DEF Shutdown
  <2>2. <<>> \in Seq(Op) /\ DOMAIN <<>> = {} /\ 0 \in 0..MaxLinks
    BY BoundsAssumption, SMT
  <2>3. QueueTypes'
    BY <2>1, <2>2 DEF QueueInv, QueueTypes
  <2>4. Homes'
    BY <2>1, <2>2 DEF QueueInv, Homes, Distinct, Apart, Old
  <2> QED BY <2>1, <2>3, <2>4 DEF QueueInv, NoIdleQueue
<1> QED BY <1>1, <1>2, <1>3, <1>4 DEF MainThread

\* Connection changes and discovered services: the latter may queue the
\* notification of the input characteristic.
LEMMA ConnectionKeeps ==
  ASSUME QueueInv, OnConnected \/ OnDisconnected \/ OnServicesDiscovered
  PROVE  QueueInv'
<1>1. CASE OnConnected
  BY <1>1, QuietKeeps DEF OnConnected, queueState, QueueInv, QueueTypes
<1>2. CASE OnDisconnected
  BY <1>2, QuietKeeps DEF OnDisconnected, queueState, queueVars, QueueInv, QueueTypes
<1>3. CASE OnServicesDiscovered
  <2>1. UNCHANGED <<mCurrentOperation, sdl, crashed>>
    BY <1>3 DEF OnServicesDiscovered
  <2>2. \/ UNCHANGED <<mOperations, created, binder, mGatt, links>>
        \/ AddOperation("notify") /\ BinderAt("execute", NoOp) /\ UNCHANGED <<mGatt, links>>
        \/ Connect /\ UNCHANGED <<mOperations, created, binder>>
    BY <1>3 DEF OnServicesDiscovered
  <2>3. CASE UNCHANGED <<mOperations, created, binder, mGatt, links>>
    BY <2>1, <2>3, QuietKeeps DEF queueState, QueueInv, QueueTypes
  <2>4. CASE Connect /\ UNCHANGED <<mOperations, created, binder>>
    <3>1. mGatt' \in 0..MaxLinks /\ links' \in 1..MaxLinks
      BY <2>4, BoundsAssumption DEF Connect, QueueInv, QueueTypes
    <3> QED BY <2>1, <2>4, <3>1, QuietKeeps DEF queueState, QueueInv, QueueTypes
  <2>5. CASE AddOperation("notify") /\ BinderAt("execute", NoOp) /\ UNCHANGED <<mGatt, links>>
    <3>1. binder' = [pc |-> "execute", op |-> NoOp] /\ "notify" \in Kind
      BY <2>5 DEF BinderAt, Kind
    <3>2. /\ mOperations' \in Seq(Op) /\ created' \in 0..MaxOps /\ created' = created + 1
          /\ Distinct(mOperations') /\ Old(mOperations', created')
          /\ Apart(mOperations', mCurrentOperation) /\ Apart(mOperations', NoOp)
      BY <2>1, <2>5, <3>1, AddKeeps
    <3>3. QueueTypes'
      BY <2>1, <2>5, <3>1, <3>2 DEF QueueInv, QueueTypes
    <3>4. /\ mCurrentOperation.id <= created' /\ NoOp.id <= created'
          /\ mCurrentOperation = NoOp \/ mCurrentOperation.id # NoOp.id
      BY <3>2, NoOpIsNone, BoundsAssumption DEF QueueInv, QueueTypes, Homes, NoOp
    <3>5. Homes'
      BY <2>1, <3>1, <3>2, <3>4 DEF Homes
    <3> QED BY <3>1, <3>3, <3>5 DEF QueueInv, NoIdleQueue
  <2> QED BY <2>2, <2>3, <2>4, <2>5
<1> QED BY <1>1, <1>2, <1>3

\* A callback that answers a request: finishCurrentGattOperation comes next,
\* with nothing in hand yet.
LEMMA AnswerKeeps ==
  ASSUME QueueInv, OnCharacteristicRead \/ OnCharacteristicWrite \/ OnDescriptorWrite
  PROVE  QueueInv'
<1>1. /\ binder.pc = "idle" /\ binder' = [pc |-> "finish", op |-> NoOp]
      /\ UNCHANGED <<mOperations, mCurrentOperation, sdl, created, mGatt, links, crashed>>
  BY DEF OnCharacteristicRead, OnCharacteristicWrite, OnDescriptorWrite, Callback,
         BinderAt, queueVars
<1>2. binder.op = NoOp
  BY <1>1 DEF QueueInv, Homes
<1>3. QueueTypes'
  BY <1>1 DEF QueueInv, QueueTypes
<1>4. Homes'
  BY <1>1, <1>2 DEF QueueInv, Homes, Distinct, Apart, Old
<1>5. NoIdleQueue'
  BY <1>1 DEF QueueInv, NoIdleQueue
<1> QED BY <1>3, <1>4, <1>5 DEF QueueInv

\* finishCurrentGattOperation takes the current operation out ...
LEMMA TakeKeeps ==
  ASSUME QueueInv, TakeCurrent
  PROVE  QueueInv'
<1>1. /\ binder' = [pc |-> "taken", op |-> mCurrentOperation] /\ mCurrentOperation' = NoOp
      /\ UNCHANGED <<mOperations, sdl, created, mGatt, links, crashed>>
  BY DEF TakeCurrent, BinderAt
<1>2. QueueTypes'
  BY <1>1 DEF QueueInv, QueueTypes
<1>3. /\ Apart(mOperations, NoOp) /\ NoOp.id <= created
  <2>1. \A i \in DOMAIN mOperations : mOperations[i] \in Op
    BY DEF QueueInv, QueueTypes
  <2>2. NoOp.id <= created
    BY BoundsAssumption DEF QueueInv, QueueTypes, NoOp
  <2> QED BY <2>1, <2>2, NoOpIsNone DEF Apart
<1>4. Homes'
  BY <1>1, <1>3 DEF QueueInv, Homes, Distinct, Apart, Old
<1>5. NoIdleQueue'
  BY <1>1 DEF NoIdleQueue
<1> QED BY <1>2, <1>4, <1>5 DEF QueueInv

\* ... and puts it back in front of the queue if it was refused: it was apart
\* from all that is queued.
LEMMA FinishKeeps ==
  ASSUME QueueInv, FinishTaken
  PROVE  QueueInv'
<1>1. /\ binder' = [pc |-> "execute", op |-> NoOp]
      /\ UNCHANGED <<mCurrentOperation, sdl, created, mGatt, links, crashed>>
      /\ mOperations' = mOperations
           \/ (binder.op # NoOp /\ mOperations' = <<binder.op>> \o mOperations)
  BY DEF FinishTaken, BinderAt
<1>2. NoOp.id <= created /\ (mCurrentOperation = NoOp \/ mCurrentOperation.id # NoOp.id)
  BY BoundsAssumption, NoOpIsNone DEF QueueInv, QueueTypes, NoOp
<1>3. ASSUME NEW q \in Seq(Op)
      PROVE  Apart(q, NoOp)
  <2>1. \A i \in DOMAIN q : q[i] \in Op
    OBVIOUS
  <2> QED BY <2>1, NoOpIsNone DEF Apart
<1>4. mOperations \in Seq(Op) /\ Homes
  BY DEF QueueInv, QueueTypes
<1>5. /\ mOperations' \in Seq(Op) /\ Distinct(mOperations') /\ Old(mOperations', created)
      /\ Apart(mOperations', mCurrentOperation)
  <2>1. CASE mOperations' = mOperations
    BY <1>4, <2>1 DEF Homes
  <2>2. CASE binder.op # NoOp /\ mOperations' = <<binder.op>> \o mOperations
    <3>1. binder.op \in Op
      BY <2>2 DEF QueueInv, QueueTypes
    <3>2. /\ mOperations' \in Seq(Op) /\ mOperations'[1] = binder.op
          /\ \A i \in DOMAIN mOperations' :
               i = 1 \/ (i \in Nat /\ i - 1 \in DOMAIN mOperations
                         /\ mOperations'[i] = mOperations[i - 1])
      BY <1>4, <2>2, <3>1, ConsOp
    <3>3. Old(mOperations', created)
      BY <1>4, <3>2 DEF Homes, Old
    <3>4. Apart(mOperations', mCurrentOperation)
      BY <1>4, <1>2, <3>1, <3>2, NoOpIsNone DEF Homes, Apart
    <3>5. Distinct(mOperations')
      <4> SUFFICES ASSUME NEW i \in DOMAIN mOperations', NEW j \in DOMAIN mOperations',
                          mOperations'[i].id = mOperations'[j].id
                   PROVE  i = j
        BY DEF Distinct
      <4>1. CASE i = 1 \/ j = 1
        BY <1>4, <3>2, <4>1 DEF Homes, Apart
      <4>2. CASE i # 1 /\ j # 1
        <5>1. i - 1 = j - 1 /\ i \in Nat /\ j \in Nat
          BY <1>4, <3>2, <4>2 DEF Homes, Distinct
        <5> QED BY <5>1
      <4> QED BY <4>1, <4>2
    <3> QED BY <3>2, <3>3, <3>4, <3>5
  <2> QED BY <1>1, <2>1, <2>2
<1>6. QueueTypes'
  BY <1>1, <1>5 DEF QueueInv, QueueTypes
<1>7. Homes'
  BY <1>1, <1>2, <1>3, <1>4, <1>5 DEF Homes
<1> QED BY <1>1, <1>6, <1>7 DEF QueueInv, NoIdleQueue

\* executeNextGattOperation by either thread: afterwards an operation is current
\* or the queue is empty.
LEMMA ExecutesKeep ==
  ASSUME QueueInv, BinderExecute \/ SDLExecute
  PROVE  QueueInv'
<1>1. ExecuteNext /\ UNCHANGED <<created, mGatt, links, crashed>>
  BY DEF BinderExecute, SDLExecute
<1>2. binder'.op = binder.op /\ (binder'.pc # "taken" => binder.op = NoOp)
      /\ binder' \in [pc : {"idle", "finish", "taken", "execute"}, op : Op \cup {NoOp}]
      /\ sdl' \in [pc : {"idle", "add", "execute"}, kind : Kind]
  <2>1. CASE BinderExecute
    <3>1. binder.pc = "execute" /\ binder' = [pc |-> "idle", op |-> NoOp] /\ sdl' = sdl
      BY <2>1 DEF BinderExecute, BinderAt
    <3> QED BY <3>1 DEF QueueInv, QueueTypes, Homes
  <2>2. CASE SDLExecute
    <3>1. sdl' = [pc |-> "idle", kind |-> "write"] /\ binder' = binder
      BY <2>2 DEF SDLExecute, SDLAt
    <3> QED BY <3>1 DEF QueueInv, QueueTypes, Homes, Kind
  <2> QED BY <2>1, <2>2
<1>3. /\ mOperations' \in Seq(Op) /\ mCurrentOperation' \in Op \cup {NoOp}
      /\ Distinct(mOperations') /\ Old(mOperations', created)
      /\ Apart(mOperations', mCurrentOperation') /\ Apart(mOperations', binder.op)
      /\ mCurrentOperation' = NoOp \/ mCurrentOperation'.id # binder.op.id
      /\ mCurrentOperation'.id <= created
      /\ mOperations' # <<>> => mCurrentOperation' # NoOp
  BY <1>1, ExecuteKeeps
<1>4. QueueTypes'
  BY <1>1, <1>2, <1>3 DEF QueueInv, QueueTypes
<1>5. Homes'
  BY <1>1, <1>2, <1>3 DEF QueueInv, Homes
<1> QED BY <1>3, <1>4, <1>5 DEF QueueInv, NoIdleQueue

\* The SDL thread on its way to the queue, and its first block.
LEMMA ReportsKeep ==
  ASSUME QueueInv, ReportTooEarly \/ SDLAdd \/ \E k \in {"write", "read"} : Report(k)
  PROVE  QueueInv'
<1>1. CASE SDLAdd
  <2>1. /\ AddOperation(sdl.kind) /\ sdl' = [pc |-> "execute", kind |-> sdl.kind]
        /\ UNCHANGED <<mCurrentOperation, binder, mGatt, links, crashed>> /\ sdl.kind \in Kind
    BY <1>1 DEF SDLAdd, SDLAt, QueueInv, QueueTypes
  <2>2. /\ mOperations' \in Seq(Op) /\ created' \in 0..MaxOps /\ created' = created + 1
        /\ Distinct(mOperations') /\ Old(mOperations', created')
        /\ Apart(mOperations', mCurrentOperation) /\ Apart(mOperations', binder.op)
    BY <2>1, AddKeeps
  <2>3. QueueTypes'
    BY <2>1, <2>2 DEF QueueInv, QueueTypes
  <2>4. mCurrentOperation.id <= created' /\ binder.op.id <= created'
    <3>1. mCurrentOperation.id \in Nat /\ binder.op.id \in Nat /\ created \in Nat
      BY NoOpIsNone, BoundsAssumption DEF QueueInv, QueueTypes, NoOp
    <3> QED BY <2>2, <3>1 DEF QueueInv, Homes
  <2>5. Homes'
    BY <2>1, <2>2, <2>4 DEF QueueInv, Homes
  <2> QED BY <2>1, <2>3, <2>5 DEF QueueInv, NoIdleQueue
<1>2. CASE ReportTooEarly \/ \E k \in {"write", "read"} : Report(k)
  <2>1. /\ UNCHANGED <<mOperations, mCurrentOperation, binder, created, crashed>>
        /\ sdl.pc = "idle"
    BY <1>2 DEF ReportTooEarly, Report, SDLIdle, queueVars
  <2>2. sdl' \in [pc : {"idle", "add", "execute"}, kind : Kind]
    BY <1>2 DEF ReportTooEarly, Report, SDLAt, Kind, QueueInv, QueueTypes
  <2>3. mGatt' \in 0..MaxLinks /\ links' \in 1..MaxLinks
    BY <1>2, BoundsAssumption DEF ReportTooEarly, Report, Connect, QueueInv, QueueTypes
  <2>4. QueueTypes'
    BY <2>1, <2>2, <2>3 DEF QueueInv, QueueTypes
  <2>5. Homes'
    BY <2>1 DEF QueueInv, Homes, Distinct, Apart, Old
  <2> QED BY <2>1, <2>4, <2>5 DEF QueueInv, NoIdleQueue
<1> QED BY <1>1, <1>2

\* Where the two threads overwrite each other one of the two operations is left
\* in the queue and the other nowhere.
LEMMA RaceKeeps ==
  ASSUME QueueInv, RacyAdd
  PROVE  QueueInv'
<1>1. /\ binder' = [pc |-> "execute", op |-> NoOp] /\ created' = created + 1
      /\ sdl' = [pc |-> "execute", kind |-> sdl.kind] /\ created < MaxOps
      /\ UNCHANGED <<mCurrentOperation, mGatt, links, crashed>>
      /\ binder.op # NoOp /\ mOperations' \in {<<binder.op>>, <<NewOp(sdl.kind)>>}
  BY DEF RacyAdd, BinderAt, SDLAt
<1>2. /\ NewOp(sdl.kind) \in Op /\ NewOp(sdl.kind).id = created + 1 /\ binder.op \in Op
      /\ created \in Nat /\ created' \in 0..MaxOps /\ mCurrentOperation.id \in Nat
      /\ NoOp.id = 0 /\ binder.op.id \in Nat \ {0}
  <2>1. sdl.kind \in Kind
    BY DEF QueueInv, QueueTypes
  <2> QED BY <1>1, <2>1, NewOpIsNew, NoOpIsNone DEF QueueInv, QueueTypes, NoOp
<1>3. PICK op \in Op : /\ mOperations' = <<op>>
                       /\ op = binder.op \/ op = NewOp(sdl.kind)
  BY <1>1, <1>2
<1>4. /\ op.id <= created' /\ op.id # mCurrentOperation.id /\ op.id # NoOp.id
      /\ mCurrentOperation.id <= created'
  BY <1>1, <1>2, <1>3, NoOpIsNone DEF QueueInv, Homes
<1>5. mOperations' \in Seq(Op) /\ DOMAIN mOperations' = {1} /\ mOperations'[1] = op
  BY <1>3, SMT
<1>6. QueueTypes'
  BY <1>1, <1>2, <1>5 DEF QueueInv, QueueTypes
<1>7. Homes'
  <2>1. mCurrentOperation = NoOp \/ mCurrentOperation.id # NoOp.id
    BY NoOpIsNone DEF QueueInv, QueueTypes
  <2> QED BY <1>1, <1>2, <1>4, <1>5, <2>1 DEF Homes, Distinct, Apart, Old
<1> QED BY <1>1, <1>6, <1>7 DEF QueueInv, NoIdleQueue

-----------------------------------------------------------------------------
LEMMA StartQueue == Init => QueueInv
<1> SUFFICES ASSUME Init PROVE QueueInv
  OBVIOUS
<1>1. <<>> \in Seq(Op) /\ DOMAIN <<>> = {} /\ 1 \in 0..MaxLinks /\ 1 \in 1..MaxLinks
      /\ 0 \in 0..MaxOps
  BY BoundsAssumption, SMT
<1>2. QueueTypes
  BY <1>1 DEF Init, QueueTypes, Kind
<1>3. Homes
  BY <1>1 DEF Init, Homes, Distinct, Apart, Old, NoOp
<1> QED BY <1>2, <1>3 DEF Init, QueueInv, NoIdleQueue

LEMMA StepQueue == QueueInv /\ [Next]_<<vars, faults>> => QueueInv'
<1> SUFFICES ASSUME QueueInv, [Next]_<<vars, faults>> PROVE QueueInv'
  OBVIOUS
<1>1. CASE MainThread
  BY <1>1, MainKeeps
<1>2. CASE BinderThread
  BY <1>2, ConnectionKeeps, AnswerKeeps, TakeKeeps, FinishKeeps, ExecutesKeep
  DEF BinderThread, Callbacks, BinderFinish
<1>3. CASE SDLThread
  BY <1>3, ReportsKeep, ExecutesKeep DEF SDLThread, SDLQueue
<1>4. CASE RacyAdd
  BY <1>4, RaceKeeps
<1>5. CASE UNCHANGED <<vars, faults>>
  BY <1>5, QuietKeeps DEF vars, queueVars, queueState, QueueInv, QueueTypes
<1> QED BY <1>1, <1>2, <1>3, <1>4, <1>5 DEF Next

LEMMA QueueKept == Spec => []QueueInv
BY StartQueue, StepQueue, PTL DEF Spec

\* No operation is queued, current or in the hands of finishCurrentGattOperation
\* twice, whatever is refused, put back or raced for.
THEOREM OneOperationOneHome == Spec => []OneHome
<1>1. QueueInv => OneHome
  <2> SUFFICES ASSUME QueueInv PROVE OneHome
    OBVIOUS
  <2>1. Homes
    BY DEF QueueInv
  <2> QED BY <2>1 DEF Homes, OneHome, Distinct, Apart
<1> QED BY <1>1, QueueKept, PTL

\* Work in the queue and no current operation: some thread is on its way to
\* executeNextGattOperation, or an exception has ended the process.
THEOREM QueueNeverIdle == Spec => []NoIdleQueue
<1>1. QueueInv => NoIdleQueue
  BY DEF QueueInv
<1> QED BY <1>1, QueueKept, PTL

-----------------------------------------------------------------------------
(***************************************************************************)
(* Registered only when configured, while no callback reports a failure.   *)
(***************************************************************************)

NoWrite(op)  == op = NoOp \/ op.kind # "write"
NoWrites(q)  == \A i \in DOMAIN q : q[i].kind # "write"

\* Before enterValveMode is confirmed no feature or output report exists in any
\* place: SDL makes one only for a registered controller.
Unwritten ==
  /\ ~mIsRegistered /\ air # "write"
  /\ sdl.pc = "add" => sdl.kind # "write"
  /\ NoWrites(mOperations) /\ NoWrite(mCurrentOperation) /\ NoWrite(binder.op)

WriteInv == "error" \notin faults /\ ~configured => Unwritten

LEMMA MainUnwritten ==
  ASSUME QueueInv, Unwritten, MainThread
  PROVE  Unwritten'
<1>1. CASE RunPosted
  <2>1. UNCHANGED <<mOperations, mIsRegistered, sdl, binder>>
    BY <1>1 DEF RunPosted, flagVars
  <2>2. CASE UNCHANGED <<mCurrentOperation, air>>
    BY <2>1, <2>2 DEF Unwritten
  <2>3. CASE /\ mCurrentOperation # NoOp
             /\ \E result \in {"accepted", "refused"} : Answer(mCurrentOperation, result)
             /\ air' = Request(mCurrentOperation.kind) \/ air' = air
    <3>1. PICK result \in {"accepted", "refused"} : Answer(mCurrentOperation, result)
      BY <2>3
    <3>2. mCurrentOperation \in Op
      BY <2>3 DEF QueueInv, QueueTypes
    <3>3. mCurrentOperation'.kind = mCurrentOperation.kind
      BY <3>1, <3>2, AnsweredOp DEF Answer
    <3>4. air' # "write"
      BY <2>3 DEF Unwritten, NoWrite, Request
    <3> QED BY <2>1, <2>3, <3>3, <3>4 DEF Unwritten, NoWrite
  <2> QED BY <1>1, <2>2, <2>3 DEF RunPosted, RunOperation
<1>2. CASE DiscoverPosted \/ Reconnect
  BY <1>2 DEF DiscoverPosted, Reconnect, Connect, Unwritten, flagVars, queueVars
<1>3. CASE Shutdown
  <2>1. NoWrites(mOperations')
    BY <1>3 DEF Shutdown, NoWrites
  <2> QED BY <1>3, <2>1 DEF Shutdown, Unwritten
<1> QED BY <1>1, <1>2, <1>3 DEF MainThread

\* Appending an operation that is no write.
LEMMA AddUnwritten ==
  ASSUME QueueInv, Unwritten, NEW kind \in Kind, kind # "write", AddOperation(kind)
  PROVE  NoWrites(mOperations')
<1>1. NewOp(kind) \in Op /\ NewOp(kind).kind # "write" /\ mOperations \in Seq(Op)
      /\ mOperations' = Append(mOperations, NewOp(kind))
  BY NewOpIsNew DEF AddOperation, QueueInv, QueueTypes
<1>2. \A i \in DOMAIN mOperations' :
        mOperations'[i] = NewOp(kind)
        \/ (i \in DOMAIN mOperations /\ mOperations'[i] = mOperations[i])
  BY <1>1, AppendOp
<1> QED BY <1>1, <1>2 DEF Unwritten, NoWrites

LEMMA ExecuteUnwritten ==
  ASSUME QueueInv, Unwritten, ExecuteNext
  PROVE  NoWrites(mOperations') /\ NoWrite(mCurrentOperation')
<1>1. CASE UNCHANGED queueVars
  BY <1>1 DEF Unwritten, queueVars
<1>2. CASE ~UNCHANGED queueVars
  <2>1. /\ mCurrentOperation' = Head(mOperations) /\ mOperations' = Tail(mOperations)
        /\ mOperations # <<>> /\ mOperations \in Seq(Op)
    BY <1>2 DEF ExecuteNext, QueueInv, QueueTypes
  <2> QED BY <2>1, TailOp DEF Unwritten, NoWrites, NoWrite
<1> QED BY <1>1, <1>2

LEMMA BinderUnwritten ==
  ASSUME QueueInv, Unwritten, ~configured, ~configured', "error" \notin faults, BinderThread
  PROVE  Unwritten'
<1>1. CASE OnConnected \/ OnDisconnected
  BY <1>1 DEF OnConnected, OnDisconnected, Unwritten, queueVars
<1>2. CASE OnServicesDiscovered
  <2>1. /\ UNCHANGED <<mCurrentOperation, sdl, mIsRegistered>>
        /\ air' = air \/ air' = "none"
        /\ UNCHANGED <<mOperations, binder>>
             \/ (AddOperation("notify") /\ binder' = [pc |-> "execute", op |-> NoOp])
    BY <1>2 DEF OnServicesDiscovered, Connect, BinderAt, flagVars
  <2>2. NoWrites(mOperations')
    BY <2>1, AddUnwritten DEF Kind, Unwritten
  <2> QED BY <2>1, <2>2 DEF Unwritten, NoWrite
<1>3. CASE OnCharacteristicRead \/ OnDescriptorWrite
  BY <1>3 DEF OnCharacteristicRead, OnDescriptorWrite, BinderAt, Unwritten, NoWrite,
              queueVars, flagVars
<1>4. CASE OnCharacteristicWrite
  <2>1. air = "valve"
    BY <1>4 DEF OnCharacteristicWrite, Unwritten
  <2>2. configured' = TRUE
    BY <1>4, <2>1 DEF OnCharacteristicWrite, Status
  <2> QED BY <2>2
<1>5. CASE TakeCurrent
  BY <1>5 DEF TakeCurrent, BinderAt, Unwritten, NoWrite, gattVars, flagVars
<1>6. CASE FinishTaken
  <2>1. /\ UNCHANGED <<mCurrentOperation, sdl, air, mIsRegistered>>
        /\ binder' = [pc |-> "execute", op |-> NoOp]
        /\ mOperations' = mOperations
             \/ (binder.op # NoOp /\ mOperations' = <<binder.op>> \o mOperations)
    BY <1>6 DEF FinishTaken, BinderAt, gattVars, flagVars
  <2>2. CASE binder.op # NoOp /\ mOperations' = <<binder.op>> \o mOperations
    <3>1. binder.op \in Op /\ mOperations \in Seq(Op) /\ binder.op.kind # "write"
      BY <2>2 DEF QueueInv, QueueTypes, Unwritten, NoWrite
    <3>2. \A i \in DOMAIN mOperations' :
            mOperations'[i] = binder.op
            \/ (i - 1 \in DOMAIN mOperations /\ mOperations'[i] = mOperations[i - 1])
      BY <2>2, <3>1, ConsOp
    <3>3. NoWrites(mOperations')
      BY <3>1, <3>2 DEF Unwritten, NoWrites
    <3> QED BY <2>1, <3>3 DEF Unwritten, NoWrite
  <2> QED BY <2>1, <2>2 DEF Unwritten, NoWrite
<1>7. CASE BinderExecute
  BY <1>7, ExecuteUnwritten DEF BinderExecute, BinderAt, Unwritten, NoWrite, gattVars, flagVars
<1> QED BY <1>1, <1>2, <1>3, <1>4, <1>5, <1>6, <1>7
        DEF BinderThread, Callbacks, BinderFinish

LEMMA SDLUnwritten ==
  ASSUME QueueInv, Unwritten, SDLThread \/ RacyAdd
  PROVE  Unwritten'
<1>1. CASE ReportTooEarly
  <2>1. /\ UNCHANGED <<mOperations, mCurrentOperation, mIsRegistered, binder>>
        /\ \/ sdl' = [pc |-> "add", kind |-> "notify"] /\ air' = air
           \/ sdl' = sdl /\ air' = "none"
    BY <1>1 DEF ReportTooEarly, SDLAt, Connect, queueVars, gattVars
  <2>2. sdl'.pc = "add" => sdl'.kind # "write"
    BY <2>1 DEF Unwritten
  <2>3. air' # "write"
    BY <2>1 DEF Unwritten
  <2> QED BY <2>1, <2>2, <2>3 DEF Unwritten
<1>2. CASE \E k \in {"write", "read"} : Report(k)
  BY <1>2 DEF Report, Unwritten
<1>3. CASE SDLAdd
  <2>1. sdl.kind \in Kind /\ sdl.kind # "write" /\ AddOperation(sdl.kind)
    BY <1>3 DEF SDLAdd, Unwritten, QueueInv, QueueTypes
  <2>2. NoWrites(mOperations')
    BY <2>1, AddUnwritten
  <2> QED BY <1>3, <2>2 DEF SDLAdd, SDLAt, Unwritten, gattVars, flagVars
<1>4. CASE SDLExecute
  BY <1>4, ExecuteUnwritten DEF SDLExecute, SDLAt, Unwritten, gattVars, flagVars
<1>5. CASE RacyAdd
  <2>1. sdl.kind \in Kind /\ sdl.kind # "write" /\ binder.op.kind # "write"
        /\ created < MaxOps /\ mOperations' \in {<<binder.op>>, <<NewOp(sdl.kind)>>}
    BY <1>5 DEF RacyAdd, Unwritten, NoWrite, QueueInv, QueueTypes
  <2>2. NewOp(sdl.kind).kind # "write"
    BY <2>1, NewOpIsNew
  <2>3. NoWrites(mOperations')
    BY <2>1, <2>2 DEF NoWrites
  <2> QED BY <1>5, <2>3 DEF RacyAdd, SDLAt, BinderAt, Unwritten, NoWrite, gattVars, flagVars
<1> QED BY <1>1, <1>2, <1>3, <1>4, <1>5 DEF SDLThread, SDLQueue

\* The controller forgets nothing it has confirmed.
LEMMA StaysConfigured ==
  ASSUME Next, configured
  PROVE  configured'
<1>1. CASE OnCharacteristicWrite
  <2>1. PICK ok \in Status : configured' = (configured \/ (air = "valve" /\ ok))
    BY <1>1 DEF OnCharacteristicWrite
  <2> QED BY <2>1
<1>2. CASE ~OnCharacteristicWrite
  <2>1. configured' = configured
    BY <1>2 DEF Next, MainThread, BinderThread, Callbacks, BinderFinish, SDLThread, SDLQueue,
                RunPosted, DiscoverPosted, Reconnect, Shutdown, OnConnected, OnDisconnected,
                OnServicesDiscovered, OnCharacteristicRead, OnDescriptorWrite, TakeCurrent,
                FinishTaken, BinderExecute, SDLAdd, SDLExecute, ReportTooEarly, Report, RacyAdd
  <2> QED BY <2>1
<1> QED BY <1>1, <1>2

\* Whatever is lost, refused, discovered in vain or sent too early: as long as
\* no callback reports a failed write, a registered controller has confirmed
\* enterValveMode.
THEOREM ConfiguredFirst == Spec => []("error" \notin faults => ConfiguredBeforeRegistered)
<1>1. Init => WriteInv
  BY DEF Init, WriteInv, Unwritten, NoWrites, NoWrite
<1>2. QueueInv /\ WriteInv /\ [Next]_<<vars, faults>> => WriteInv'
  <2> SUFFICES ASSUME QueueInv, WriteInv, [Next]_<<vars, faults>>,
                      "error" \notin faults', ~configured'
               PROVE  Unwritten'
    BY DEF WriteInv
  <2>1. CASE Next
    <3>1. "error" \notin faults /\ ~configured /\ Unwritten
      BY <2>1, StaysConfigured DEF Next, WriteInv
    <3> QED BY <2>1, <3>1, MainUnwritten, BinderUnwritten, SDLUnwritten DEF Next
  <2>2. CASE UNCHANGED <<vars, faults>>
    BY <2>2 DEF vars, queueVars, gattVars, flagVars, WriteInv, Unwritten
  <2> QED BY <2>1, <2>2
<1>3. WriteInv => ("error" \notin faults => ConfiguredBeforeRegistered)
  BY DEF WriteInv, Unwritten, ConfiguredBeforeRegistered
<1> QED BY <1>1, <1>2, <1>3, QueueKept, PTL DEF Spec

-----------------------------------------------------------------------------
(***************************************************************************)
(* The types of what the queue does not depend on.                         *)
(***************************************************************************)

Runnables == {"run", "discover"}

RestTypes ==
  /\ faults \in FaultCases
  /\ mIsRegistered \in BOOLEAN /\ mIsConnected \in BOOLEAN /\ mIsReconnecting \in BOOLEAN
  /\ posted \in Seq(Runnables)
  /\ link \in {"connecting", "connected", "lost", "closed"}
  /\ services \in [0..MaxLinks -> {"none", "discovering", "known"}] /\ air \in Air
  /\ configured \in BOOLEAN

LEMMA PostedTypes ==
  ASSUME NEW q \in Seq(Runnables)
  PROVE  /\ \A r \in Runnables : Append(q, r) \in Seq(Runnables)
         /\ q # <<>> => Tail(q) \in Seq(Runnables)
BY SMT

LEMMA ServicesTypes ==
  ASSUME RestTypes, NEW n, NEW to \in {"none", "discovering", "known"}
  PROVE  [services EXCEPT ![n] = to] \in [0..MaxLinks -> {"none", "discovering", "known"}]
BY DEF RestTypes

LEMMA ExecuteRest ==
  ASSUME RestTypes, ExecuteNext
  PROVE  posted' \in Seq(Runnables)
BY PostedTypes DEF RestTypes, ExecuteNext, queueVars, Runnables

LEMMA MainRest ==
  ASSUME QueueInv, RestTypes, MainThread, UNCHANGED faults
  PROVE  RestTypes'
<1>1. CASE RunPosted
  <2>1. air' \in Air
    <3>1. CASE mCurrentOperation = NoOp
      BY <1>1, <3>1 DEF RunPosted, RestTypes
    <3>2. CASE mCurrentOperation # NoOp
      <4>1. mCurrentOperation.kind \in Kind
        BY <3>2 DEF QueueInv, QueueTypes, Op
      <4>2. Request(mCurrentOperation.kind) \in Air
        BY <4>1 DEF Request, Kind, Air
      <4> QED BY <1>1, <3>2, <4>2 DEF RunPosted, RunOperation, RestTypes
    <3> QED BY <3>1, <3>2
  <2> QED BY <1>1, <2>1, PostedTypes DEF RunPosted, Main, RestTypes, flagVars
<1>2. CASE DiscoverPosted
  <2>1. services' \in [0..MaxLinks -> {"none", "discovering", "known"}]
    BY <1>2, ServicesTypes DEF DiscoverPosted, RestTypes
  <2> QED BY <1>2, <2>1, PostedTypes DEF DiscoverPosted, Main, RestTypes, flagVars
<1>3. CASE Reconnect
  BY <1>3 DEF Reconnect, Connect, RestTypes, Air, flagVars, queueVars
<1>4. CASE Shutdown
  BY <1>4 DEF Shutdown, RestTypes, Air
<1> QED BY <1>1, <1>2, <1>3, <1>4 DEF MainThread

LEMMA BinderRest ==
  ASSUME RestTypes, BinderThread, UNCHANGED faults
  PROVE  RestTypes'
<1>1. CASE OnConnected
  BY <1>1, PostedTypes DEF OnConnected, RestTypes, Runnables
<1>2. CASE OnDisconnected
  BY <1>2 DEF OnDisconnected, RestTypes, Air, queueVars
<1>3. CASE OnServicesDiscovered
  <2>1. services' \in [0..MaxLinks -> {"none", "discovering", "known"}]
    BY <1>3, ServicesTypes DEF OnServicesDiscovered, RestTypes
  <2>2. /\ mIsRegistered' \in BOOLEAN /\ mIsConnected' \in BOOLEAN
        /\ mIsReconnecting' \in BOOLEAN /\ air' \in Air
        /\ link' \in {"connecting", "connected", "lost", "closed"}
    BY <1>3 DEF OnServicesDiscovered, Connect, RestTypes, Air, flagVars
  <2> QED BY <1>3, <2>1, <2>2 DEF OnServicesDiscovered, RestTypes
<1>4. CASE OnCharacteristicRead \/ OnDescriptorWrite
  BY <1>4 DEF OnCharacteristicRead, OnDescriptorWrite, RestTypes, Air, queueVars, flagVars
<1>5. CASE OnCharacteristicWrite
  <2>1. configured' \in BOOLEAN
    BY <1>5 DEF OnCharacteristicWrite, RestTypes
  <2> QED BY <1>5, <2>1 DEF OnCharacteristicWrite, RestTypes, Air, queueVars
<1>6. CASE TakeCurrent \/ FinishTaken
  BY <1>6 DEF TakeCurrent, FinishTaken, RestTypes, gattVars, flagVars
<1>7. CASE BinderExecute
  BY <1>7, ExecuteRest DEF BinderExecute, RestTypes, gattVars, flagVars
<1> QED BY <1>1, <1>2, <1>3, <1>4, <1>5, <1>6, <1>7
        DEF BinderThread, Callbacks, BinderFinish

LEMMA SDLRest ==
  ASSUME RestTypes, SDLThread \/ RacyAdd, UNCHANGED faults
  PROVE  RestTypes'
<1>1. CASE ReportTooEarly
  <2>1. /\ UNCHANGED <<posted, services, mIsRegistered, configured>>
        /\ \/ UNCHANGED <<mIsConnected, mIsReconnecting, link, air>>
           \/ /\ mIsConnected' = FALSE /\ mIsReconnecting' = TRUE
              /\ link' = "connecting" /\ air' = "none"
    BY <1>1 DEF ReportTooEarly, Connect, queueVars, gattVars
  <2> QED BY <2>1 DEF RestTypes, Air
<1>2. CASE \E k \in {"write", "read"} : Report(k)
  BY <1>2 DEF Report, RestTypes, queueVars, gattVars, flagVars
<1>3. CASE SDLAdd \/ RacyAdd
  BY <1>3 DEF SDLAdd, RacyAdd, RestTypes, gattVars, flagVars
<1>4. CASE SDLExecute
  BY <1>4, ExecuteRest DEF SDLExecute, RestTypes, gattVars, flagVars
<1> QED BY <1>1, <1>2, <1>3, <1>4 DEF SDLThread, SDLQueue

\* Every variable keeps its type; in particular no operation is queued,
\* current or in hand whose result is none of the three run() and its absence
\* leave.
THEOREM TypeCorrect == Spec => []TypeOK
<1>1. Init => RestTypes
  <2> SUFFICES ASSUME Init PROVE RestTypes
    OBVIOUS
  <2>1. <<>> \in Seq(Runnables)
    BY SMT
  <2> QED BY <2>1 DEF Init, RestTypes, Air
<1>2. QueueInv /\ RestTypes /\ [Next]_<<vars, faults>> => RestTypes'
  <2> SUFFICES ASSUME QueueInv, RestTypes, [Next]_<<vars, faults>> PROVE RestTypes'
    OBVIOUS
  <2>1. CASE Next
    BY <2>1, MainRest, BinderRest, SDLRest DEF Next
  <2>2. CASE UNCHANGED <<vars, faults>>
    BY <2>2 DEF vars, queueVars, gattVars, flagVars, RestTypes
  <2> QED BY <2>1, <2>2
<1>3. QueueInv /\ RestTypes => TypeOK
  BY DEF QueueInv, QueueTypes, RestTypes, TypeOK, Runnables
<1> QED BY <1>1, <1>2, <1>3, QueueKept, PTL DEF Spec

-----------------------------------------------------------------------------
(***************************************************************************)
(* On the first link nothing runs without services.                        *)
(***************************************************************************)

Known == services[1] = "known"

\* An operation made for the first BluetoothGatt; all but the notification, which
\* copes without, are made only once the services are known.
Served(op, known)   == op = NoOp \/ (op.gatt = 1 /\ (op.kind # "notify" => known))
AllServed(q, known) == \A i \in DOMAIN q : Served(q[i], known)

\* Services are discovered once, so what is known stays known: the Runnable of
\* onConnectionStateChange is posted at most once, when nothing is known yet.
DiscoveredOnce ==
  /\ \A i, j \in DOMAIN posted : posted[i] = "discover" /\ posted[j] = "discover" => i = j
  /\ (\E i \in DOMAIN posted : posted[i] = "discover")
       => (services[1] = "none" /\ link # "connecting")
  /\ link = "connecting" => services[1] = "none"

\* The registration, a request on the air and a report being queued all come
\* after the services.
ServedFirst ==
  /\ mGatt = 1 /\ ~crashed
  /\ (mIsRegistered \/ air # "none") => Known
  /\ (sdl.pc = "add" /\ sdl.kind # "notify") => Known
  /\ AllServed(mOperations, Known) /\ Served(mCurrentOperation, Known)
  /\ Served(binder.op, Known)

FirstLink == DiscoveredOnce /\ ServedFirst
FirstInv  == (links = 1 /\ mGatt # 0) => FirstLink

\* A posted Runnable removed or added.
LEMMA PostedQueue ==
  ASSUME NEW q \in Seq(Runnables)
  PROVE  /\ q # <<>> => (/\ Head(q) = q[1] /\ 1 \in DOMAIN q
                         /\ \A i \in DOMAIN Tail(q) : /\ Tail(q)[i] = q[i + 1] /\ i \in Nat
                                                      /\ i + 1 \in DOMAIN q /\ i + 1 # 1)
         /\ \A r \in Runnables : \A i \in DOMAIN Append(q, r) :
              \/ i = Len(q) + 1 /\ Append(q, r)[i] = r
              \/ i \in DOMAIN q /\ Append(q, r)[i] = q[i]
BY SMT

\* What executeNextGattOperation moves was served before, and it posts no
\* discovery.
LEMMA ExecuteServed ==
  ASSUME TypeOK, ExecuteNext, NEW known \in BOOLEAN,
         AllServed(mOperations, known), Served(mCurrentOperation, known)
  PROVE  /\ AllServed(mOperations', known) /\ Served(mCurrentOperation', known)
         /\ \A i \in DOMAIN posted' : posted'[i] = "run"
                                      \/ (i \in DOMAIN posted /\ posted'[i] = posted[i])
<1>1. CASE UNCHANGED queueVars
  BY <1>1 DEF queueVars
<1>2. CASE ~UNCHANGED queueVars
  <2>1. /\ mCurrentOperation' = Head(mOperations) /\ mOperations' = Tail(mOperations)
        /\ mOperations # <<>> /\ mOperations \in Seq(Op)
        /\ posted' = Append(posted, "run") /\ posted \in Seq(Runnables)
    BY <1>2 DEF ExecuteNext, TypeOK, Runnables
  <2>2. AllServed(mOperations', known) /\ Served(mCurrentOperation', known)
    BY <2>1, TailOp DEF AllServed
  <2> QED BY <2>1, <2>2, PostedQueue DEF Runnables
<1> QED BY <1>1, <1>2

\* No new discovery, and nothing about the link and the services.
LEMMA DiscoveryKept ==
  ASSUME DiscoveredOnce, services'[1] = services[1],
         link' = link \/ link' \in {"lost", "connected"},
         \A i \in DOMAIN posted' : posted'[i] = "run"
                                   \/ (i \in DOMAIN posted /\ posted'[i] = posted[i])
  PROVE  DiscoveredOnce'
BY DEF DiscoveredOnce

LEMMA TailDiscovery ==
  ASSUME TypeOK, DiscoveredOnce, posted # <<>>, posted' = Tail(posted), link' = link,
         services'[1] = services[1] \/ Head(posted) = "discover"
  PROVE  DiscoveredOnce'
<1>1. /\ Head(posted) = posted[1] /\ 1 \in DOMAIN posted
      /\ \A i \in DOMAIN posted' : /\ posted'[i] = posted[i + 1] /\ i \in Nat
                                   /\ i + 1 \in DOMAIN posted /\ i + 1 # 1
  BY PostedQueue DEF TypeOK, Runnables
<1>2. ASSUME NEW i \in DOMAIN posted', NEW j \in DOMAIN posted',
             posted'[i] = "discover", posted'[j] = "discover"
      PROVE  i = j
  <2>1. i + 1 = j + 1
    BY <1>1, <1>2 DEF DiscoveredOnce
  <2> QED BY <1>1, <2>1
<1>3. CASE services'[1] = services[1]
  BY <1>1, <1>2, <1>3 DEF DiscoveredOnce
<1>4. CASE Head(posted) = "discover"
  <2>1. \A i \in DOMAIN posted' : posted'[i] # "discover"
    BY <1>1, <1>4 DEF DiscoveredOnce
  <2>2. link' # "connecting"
    BY <1>1, <1>4 DEF DiscoveredOnce
  <2> QED BY <2>1, <2>2 DEF DiscoveredOnce
<1> QED BY <1>3, <1>4

\* The main thread runs what is served; a run that finds no characteristic
\* leaves the air empty.
LEMMA MainServed ==
  ASSUME TypeOK, links = 1, FirstLink, MainThread, links' = 1, mGatt' # 0
  PROVE  FirstLink'
<1>1. CASE RunPosted
  <2>1. /\ posted # <<>> /\ posted' = Tail(posted)
        /\ UNCHANGED <<mOperations, link, services, mIsRegistered, mGatt, binder, sdl>>
    BY <1>1 DEF RunPosted, Main, flagVars
  <2>2. DiscoveredOnce'
    BY <2>1, TailDiscovery DEF FirstLink
  <2>3. CASE mCurrentOperation = NoOp \/ UNCHANGED <<mCurrentOperation, air, crashed>>
    <3>1. UNCHANGED <<mCurrentOperation, air, crashed>>
      BY <1>1, <2>3 DEF RunPosted
    <3> QED BY <2>1, <2>2, <3>1 DEF FirstLink, ServedFirst, Known
  <2>4. CASE /\ mCurrentOperation # NoOp /\ RunOperation(mCurrentOperation)
             /\ ~UNCHANGED <<mCurrentOperation, air, crashed>>
    <3>1. mCurrentOperation \in Op /\ mCurrentOperation.gatt = 1
          /\ (mCurrentOperation.kind # "notify" => Known)
      BY <2>4 DEF TypeOK, FirstLink, ServedFirst, Served
    <3>2. ~Throws(mCurrentOperation)
      BY <3>1 DEF Throws, Missing, Known
    <3>3. PICK result \in {"accepted", "refused"} : Answer(mCurrentOperation, result)
      BY <2>4, <3>2 DEF RunOperation
    <3>4. ~crashed' /\ (air' # "none" => Known)
      BY <2>4, <3>1, <3>2 DEF RunOperation, NoSuchCharacteristic, Missing, Known, FirstLink, ServedFirst
    <3>5. /\ mCurrentOperation'.gatt = 1 /\ mCurrentOperation'.kind = mCurrentOperation.kind
      BY <3>1, <3>3 DEF Answer, Op
    <3> QED BY <2>1, <2>2, <3>1, <3>4, <3>5 DEF FirstLink, ServedFirst, Served, Known
  <2> QED BY <1>1, <2>3, <2>4 DEF RunPosted
<1>2. CASE DiscoverPosted
  <2>1. /\ posted # <<>> /\ posted' = Tail(posted) /\ Head(posted) = "discover" /\ link' = link
        /\ UNCHANGED <<mOperations, mCurrentOperation, air, mIsRegistered, mGatt, binder, sdl>>
        /\ crashed' = (mGatt = 0)
    BY <1>2 DEF DiscoverPosted, Main, flagVars
  <2>2. ~Known
    <3>1. posted[1] = "discover" /\ 1 \in DOMAIN posted
      BY <2>1, PostedQueue DEF TypeOK, Runnables
    <3> QED BY <3>1 DEF FirstLink, DiscoveredOnce, Known
  <2>3. ~Known'
    BY <1>2, <2>2, BoundsAssumption DEF DiscoverPosted, Known, TypeOK, FirstLink, ServedFirst
  <2>4. DiscoveredOnce'
    BY <2>1, TailDiscovery DEF FirstLink
  <2>5. ServedFirst'
    BY <2>1, <2>2, <2>3
    DEF FirstLink, ServedFirst, AllServed, Served
  <2> QED BY <2>4, <2>5 DEF FirstLink
<1>3. CASE Reconnect \/ Shutdown
  BY <1>3 DEF Reconnect, Connect, Shutdown
<1> QED BY <1>1, <1>2, <1>3 DEF MainThread

\* Appending an operation of the first link.
LEMMA AddServed ==
  ASSUME TypeOK, QueueInv, mGatt = 1, NEW kind \in Kind, NEW known \in BOOLEAN,
         AddOperation(kind), AllServed(mOperations, known), kind # "notify" => known
  PROVE  AllServed(mOperations', known)
<1>1. NewOp(kind) \in Op /\ Served(NewOp(kind), known) /\ mOperations \in Seq(Op)
      /\ mOperations' = Append(mOperations, NewOp(kind))
  BY NewOpIsNew DEF AddOperation, TypeOK, NewOp, Served
<1>2. \A i \in DOMAIN mOperations' :
        mOperations'[i] = NewOp(kind)
        \/ (i \in DOMAIN mOperations /\ mOperations'[i] = mOperations[i])
  BY <1>1, AppendOp
<1> QED BY <1>1, <1>2 DEF AllServed

\* More is known after the services are discovered.
LEMMA ServedMore ==
  ASSUME NEW q, NEW op, NEW known \in BOOLEAN, NEW more \in BOOLEAN, known => more
  PROVE  /\ AllServed(q, known) => AllServed(q, more)
         /\ Served(op, known) => Served(op, more)
BY DEF AllServed, Served

LEMMA BinderServed ==
  ASSUME TypeOK, QueueInv, links = 1, FirstLink, BinderThread, links' = 1, mGatt' # 0
  PROVE  FirstLink'
<1>1. ServedFirst /\ DiscoveredOnce /\ Known \in BOOLEAN
  BY DEF FirstLink, Known
<1>2. CASE OnConnected
  <2>1. /\ link = "connecting" /\ link' = "connected"
        /\ posted' = posted \/ posted' = Append(posted, "discover")
        /\ UNCHANGED <<mOperations, mCurrentOperation, services, air, mIsRegistered, mGatt,
                       binder, sdl, crashed>>
    BY <1>2 DEF OnConnected
  <2>2. services[1] = "none" /\ \A i \in DOMAIN posted : posted[i] # "discover"
    BY <1>1, <2>1 DEF DiscoveredOnce
  <2>3. \A i \in DOMAIN posted' : posted'[i] = "discover" => i = Len(posted) + 1
    <3>1. CASE posted' = posted
      BY <2>2, <3>1
    <3>2. CASE posted' = Append(posted, "discover")
      <4>1. posted \in Seq(Runnables) /\ "discover" \in Runnables
        BY DEF TypeOK, Runnables
      <4>2. \A i \in DOMAIN posted' : i = Len(posted) + 1
                                      \/ (i \in DOMAIN posted /\ posted'[i] = posted[i])
        BY <3>2, <4>1, PostedQueue
      <4> QED BY <2>2, <4>2
    <3> QED BY <2>1, <3>1, <3>2
  <2>4. DiscoveredOnce'
    BY <2>1, <2>2, <2>3 DEF DiscoveredOnce
  <2> QED BY <1>1, <2>1, <2>4 DEF FirstLink, ServedFirst, Known
<1>3. CASE OnDisconnected
  <2>1. DiscoveredOnce'
    BY <1>1, <1>3, DiscoveryKept DEF OnDisconnected, queueVars
  <2> QED BY <1>1, <1>3, <2>1 DEF OnDisconnected, queueVars, FirstLink, ServedFirst, Known
<1>4. CASE OnServicesDiscovered
  <2>1. /\ link = "connected" /\ link' = link /\ services[1] = "discovering"
        /\ UNCHANGED <<mCurrentOperation, posted, mIsRegistered, air, mGatt, sdl, crashed>>
        /\ \/ UNCHANGED <<mOperations, binder>>
           \/ AddOperation("notify") /\ binder' = [pc |-> "execute", op |-> NoOp]
    BY <1>1, <1>4 DEF OnServicesDiscovered, Connect, BinderAt, flagVars, ServedFirst
  <2>2. ~Known /\ \A i \in DOMAIN posted : posted[i] # "discover"
    BY <1>1, <2>1 DEF DiscoveredOnce, Known
  <2>3. DiscoveredOnce'
    BY <2>1, <2>2 DEF DiscoveredOnce
  <2>4. AllServed(mOperations', Known) /\ Served(binder'.op, Known)
    BY <1>1, <2>1, AddServed DEF ServedFirst, Kind, Served
  <2>5. AllServed(mOperations', Known') /\ Served(binder'.op, Known')
        /\ Served(mCurrentOperation', Known')
    BY <1>1, <2>1, <2>2, <2>4, ServedMore DEF ServedFirst, Known
  <2> QED BY <1>1, <2>1, <2>2, <2>3, <2>5 DEF FirstLink, ServedFirst
<1>5. CASE OnCharacteristicRead \/ OnCharacteristicWrite \/ OnDescriptorWrite
  <2>1. /\ air # "none" /\ UNCHANGED <<mOperations, mCurrentOperation, posted, link, services,
                                        mGatt, sdl, crashed>>
        /\ binder'.op = NoOp
    BY <1>5 DEF OnCharacteristicRead, OnCharacteristicWrite, OnDescriptorWrite, BinderAt, queueVars
  <2>2. Known /\ Known'
    BY <1>1, <2>1 DEF ServedFirst, Known
  <2>3. DiscoveredOnce'
    BY <1>1, <2>1, DiscoveryKept
  <2> QED BY <1>1, <2>1, <2>2, <2>3 DEF FirstLink, ServedFirst, AllServed, Served
<1>6. CASE TakeCurrent
  <2>1. /\ binder'.op = mCurrentOperation /\ mCurrentOperation' = NoOp
        /\ UNCHANGED <<mOperations, posted, link, services, air, mIsRegistered, mGatt, sdl, crashed>>
    BY <1>6 DEF TakeCurrent, BinderAt, gattVars, flagVars
  <2>2. DiscoveredOnce'
    BY <1>1, <2>1, DiscoveryKept
  <2> QED BY <1>1, <2>1, <2>2 DEF FirstLink, ServedFirst, Served, Known
<1>7. CASE FinishTaken
  <2>1. /\ binder'.op = NoOp
        /\ mOperations' = mOperations
             \/ (binder.op # NoOp /\ mOperations' = <<binder.op>> \o mOperations)
        /\ UNCHANGED <<mCurrentOperation, posted, link, services, air, mIsRegistered, mGatt, sdl,
                       crashed>>
    BY <1>7 DEF FinishTaken, BinderAt, gattVars, flagVars
  <2>2. AllServed(mOperations', Known)
    <3>1. CASE binder.op # NoOp /\ mOperations' = <<binder.op>> \o mOperations
      <4>1. binder.op \in Op /\ mOperations \in Seq(Op)
        BY <3>1 DEF TypeOK
      <4>2. \A i \in DOMAIN mOperations' :
              mOperations'[i] = binder.op
              \/ (i - 1 \in DOMAIN mOperations /\ mOperations'[i] = mOperations[i - 1])
        BY <3>1, <4>1, ConsOp
      <4> QED BY <1>1, <4>2 DEF ServedFirst, AllServed
    <3> QED BY <1>1, <2>1, <3>1 DEF ServedFirst
  <2>3. DiscoveredOnce'
    BY <1>1, <2>1, DiscoveryKept
  <2> QED BY <1>1, <2>1, <2>2, <2>3 DEF FirstLink, ServedFirst, Served, Known
<1>8. CASE BinderExecute
  <2>1. /\ binder'.op = NoOp /\ ExecuteNext
        /\ UNCHANGED <<link, services, air, mIsRegistered, mGatt, sdl, crashed>>
    BY <1>8 DEF BinderExecute, BinderAt, gattVars, flagVars
  <2>2. /\ AllServed(mOperations', Known) /\ Served(mCurrentOperation', Known)
        /\ \A i \in DOMAIN posted' : posted'[i] = "run"
                                     \/ (i \in DOMAIN posted /\ posted'[i] = posted[i])
    BY <1>1, <2>1, ExecuteServed DEF ServedFirst
  <2>3. DiscoveredOnce'
    BY <1>1, <2>1, <2>2, DiscoveryKept
  <2> QED BY <1>1, <2>1, <2>2, <2>3 DEF FirstLink, ServedFirst, Served, Known
<1> QED BY <1>2, <1>3, <1>4, <1>5, <1>6, <1>7, <1>8 DEF BinderThread, Callbacks, BinderFinish

LEMMA SDLServed ==
  ASSUME TypeOK, QueueInv, links = 1, FirstLink, SDLThread \/ RacyAdd, links' = 1, mGatt' # 0
  PROVE  FirstLink'
<1>1. ServedFirst /\ DiscoveredOnce /\ Known \in BOOLEAN
  BY DEF FirstLink, Known
<1>2. CASE ReportTooEarly \/ \E k \in {"write", "read"} : Report(k)
  <2>1. /\ UNCHANGED <<mOperations, mCurrentOperation, posted, link, services, air, mIsRegistered,
                       mGatt, binder, crashed>>
        /\ sdl'.kind = "notify" \/ mIsRegistered
    BY <1>2 DEF ReportTooEarly, Report, SDLAt, Connect, queueVars, gattVars, flagVars
  <2>2. DiscoveredOnce'
    BY <1>1, <2>1, DiscoveryKept
  <2> QED BY <1>1, <2>1, <2>2 DEF FirstLink, ServedFirst, Known
<1>3. CASE SDLAdd
  <2>1. /\ sdl.kind \in Kind /\ AddOperation(sdl.kind) /\ sdl.pc = "add" /\ sdl'.pc = "execute"
        /\ UNCHANGED <<mCurrentOperation, posted, link, services, air, mIsRegistered, mGatt, binder,
                       crashed>>
    BY <1>3 DEF SDLAdd, SDLAt, TypeOK, gattVars, flagVars
  <2>2. AllServed(mOperations', Known)
    BY <1>1, <2>1, AddServed DEF ServedFirst
  <2>3. DiscoveredOnce'
    BY <1>1, <2>1, DiscoveryKept
  <2> QED BY <1>1, <2>1, <2>2, <2>3 DEF FirstLink, ServedFirst, Known
<1>4. CASE SDLExecute
  <2>1. /\ ExecuteNext /\ sdl'.pc = "idle"
        /\ UNCHANGED <<link, services, air, mIsRegistered, mGatt, binder, crashed>>
    BY <1>4 DEF SDLExecute, SDLAt, gattVars, flagVars
  <2>2. /\ AllServed(mOperations', Known) /\ Served(mCurrentOperation', Known)
        /\ \A i \in DOMAIN posted' : posted'[i] = "run"
                                     \/ (i \in DOMAIN posted /\ posted'[i] = posted[i])
    BY <1>1, <2>1, ExecuteServed DEF ServedFirst
  <2>3. DiscoveredOnce'
    BY <1>1, <2>1, <2>2, DiscoveryKept
  <2> QED BY <1>1, <2>1, <2>2, <2>3 DEF FirstLink, ServedFirst, Known
<1>5. CASE RacyAdd
  <2>1. /\ sdl.pc = "add" /\ sdl'.pc = "execute" /\ binder'.op = NoOp
        /\ mOperations' \in {<<binder.op>>, <<NewOp(sdl.kind)>>}
        /\ UNCHANGED <<mCurrentOperation, posted, link, services, air, mIsRegistered, mGatt, crashed>>
    BY <1>5 DEF RacyAdd, SDLAt, BinderAt, gattVars, flagVars
  <2>2. Served(NewOp(sdl.kind), Known) /\ Served(binder.op, Known)
    BY <1>1, <2>1 DEF ServedFirst, Served, NewOp
  <2>3. AllServed(mOperations', Known)
    BY <2>1, <2>2 DEF AllServed
  <2>4. DiscoveredOnce'
    BY <1>1, <2>1, DiscoveryKept
  <2> QED BY <1>1, <2>1, <2>3, <2>4 DEF FirstLink, ServedFirst, Served, Known
<1> QED BY <1>2, <1>3, <1>4, <1>5 DEF SDLThread, SDLQueue

\* The first BluetoothGatt stays until it is replaced or shut down.
LEMMA FirstStays ==
  ASSUME TypeOK, Next, links' = 1, mGatt' # 0
  PROVE  links = 1 /\ mGatt # 0
<1>1. UNCHANGED <<links, mGatt>> \/ mGatt' = 0 \/ links' = links + 1
  BY DEF Next, MainThread, BinderThread, Callbacks, BinderFinish, SDLThread, SDLQueue,
         RunPosted, DiscoverPosted, Reconnect, Shutdown, Connect, OnConnected, OnDisconnected,
         OnServicesDiscovered, OnCharacteristicRead, OnCharacteristicWrite, OnDescriptorWrite,
         TakeCurrent, FinishTaken, BinderExecute, SDLAdd, SDLExecute, ReportTooEarly, Report,
         RacyAdd, gattVars
<1>2. links \in Nat \ {0}
  BY BoundsAssumption DEF TypeOK
<1> QED BY <1>1, <1>2

\* Whatever fails or is refused, an exception ends the process only after the
\* device was reconnected or shut down: on the first link every report is made
\* after the services are known, and they are never forgotten.
THEOREM FirstLinkSafe == Spec => []FirstLinkNeverThrows
<1>1. Init => FirstInv
  <2> SUFFICES ASSUME Init PROVE FirstLink
    BY DEF FirstInv
  <2>1. /\ DOMAIN posted = {} /\ DOMAIN mOperations = {} /\ services[1] = "none"
    BY BoundsAssumption DEF Init
  <2> QED BY <2>1 DEF Init, FirstLink, DiscoveredOnce, ServedFirst, AllServed, Served
<1>2. TypeOK /\ QueueInv /\ FirstInv /\ [Next]_<<vars, faults>> => FirstInv'
  <2> SUFFICES ASSUME TypeOK, QueueInv, FirstInv, [Next]_<<vars, faults>>, links' = 1, mGatt' # 0
               PROVE  FirstLink'
    BY DEF FirstInv
  <2>1. CASE Next
    <3>1. links = 1 /\ FirstLink
      BY <2>1, FirstStays DEF FirstInv
    <3> QED BY <2>1, <3>1, MainServed, BinderServed, SDLServed DEF Next
  <2>2. CASE UNCHANGED <<vars, faults>>
    BY <2>2 DEF vars, queueVars, gattVars, flagVars, FirstInv, FirstLink, DiscoveredOnce, ServedFirst, Known
  <2> QED BY <2>1, <2>2
<1>3. TypeOK /\ FirstInv => FirstLinkNeverThrows
  BY BoundsAssumption DEF TypeOK, FirstInv, FirstLink, ServedFirst, FirstLinkNeverThrows
<1> QED BY <1>1, <1>2, <1>3, TypeCorrect, QueueKept, PTL DEF Spec
=============================================================================
