--------------------------- MODULE PieceDirectory ---------------------------
(***************************************************************************)
(* Adding deals and building indexes in the piece directory:               *)
(* lib/boost/piecedirectory/piecedirectory.go:229-406 and 610-649.         *)
(*                                                                         *)
(* At most one index operation runs for a piece.  addIdxOpByCid maps a     *)
(* piece to its operation; a call that finds one waits for its result, and *)
(* a call that finds none becomes the owner of a new one, waits for a slot *)
(* of the throttle channel and indexes the piece with its own deal.  The   *)
(* three deferred calls of the owner run one after the other: give the     *)
(* slot back, close op.done, delete the map entry.                         *)
(*                                                                         *)
(* addIndexForPiece reads the deal's data and parses it (PieceData); the   *)
(* code that would store the records is commented out, so all it leaves is *)
(* an error or nil.                                                        *)
(***************************************************************************)
EXTENDS PieceData, FiniteSets

CONSTANTS
  Callers,       \* goroutines that call the piece directory
  Pieces,
  Deals,
  PieceOf,       \* the piece of each deal
  Contents,      \* what a piece may contain, as in PieceData
  Data,          \* the data of each deal
  Indexed,       \* the pieces the store already has an index of
  Stored,        \* the deals the store has from earlier runs
  Flaky,         \* can reading valid data, or the store, fail as well?
  ThrottleSize,  \* addIdxThrottleSize
  MaxCalls,      \* bound: calls made
  None           \* no piece, deal or operation

ASSUME PieceDirectoryAssumption ==
  /\ IsFiniteSet(Callers)
  /\ None \notin Nat \cup Deals
  /\ PieceOf \in [Deals -> Pieces]
  /\ Contents \subseteq Content
  /\ Data \in [Deals -> Contents]
  /\ Indexed \subseteq Pieces
  /\ Stored \subseteq Deals
  /\ Flaky \in BOOLEAN
  /\ ThrottleSize \in Nat \ {0}
  /\ MaxCalls \in Nat

\* Every call starts at most one operation for each deal it tries.
Ops == 1..(MaxCalls * Cardinality(Deals))

VARIABLES
  stored,     \* the deals the store has
  opByCid,    \* addIdxOpByCid: the operation of each piece
  ops,        \* the addIndexOperations created so far
  throttle,   \* slots of addIdxThrottle in use
  call,       \* the call each goroutine is in, or its last one
  calls       \* calls so far (bounds the model)

vars == <<stored, opByCid, ops, throttle, call, calls>>

Errors == {"nil", "failed", "canceled"}
Kinds == {"AddDealForPiece", "TxAddDealForPiece", "BuildIndexForPiece"}
OwnerPCs == {"throttle", "index", "release", "close", "delete"}
PCs == {"idle", "join", "wait", "attempted", "store"} \cup OwnerPCs

AddIndexOperation == [piece: Pieces, deal: Deals, done: BOOLEAN, err: Errors]

\* todo: the deals BuildIndexForPiece has not tried.
Call == [pc: PCs, kind: Kinds, piece: Pieces, deal: Deals \cup {None},
         op: Ops \cup {None}, todo: SUBSET Deals, err: Errors,
         canceled: BOOLEAN]
NoCall == [pc |-> "idle"]

created == Cardinality(DOMAIN ops)

TypeOK ==
  /\ stored \subseteq Deals
  /\ opByCid \in [Pieces -> DOMAIN ops \cup {None}]
  /\ DOMAIN ops = 1..created /\ created \in 0..Cardinality(Ops)
  /\ \A o \in DOMAIN ops : ops[o] \in AddIndexOperation
  /\ throttle \in 0..ThrottleSize
  /\ \A c \in Callers : call[c] \in Call \cup {NoCall}
  /\ calls \in 0..MaxCalls

Init ==
  /\ stored = Stored
  /\ opByCid = [p \in Pieces |-> None]
  /\ ops = <<>>
  /\ throttle = 0
  /\ call = [c \in Callers |-> NoCall]
  /\ calls = 0

Active(c) == call[c].pc # "idle"
At(c, pc) == call[c].pc = pc
Goto(c, pc) == call' = [call EXCEPT ![c].pc = pc]

Finish(c) == call' = [call EXCEPT ![c] = NoCall]

\* The attempt to index is over for c, with this error.
Attempted(c, err) == call' = [call EXCEPT ![c].pc = "attempted", ![c].err = err]

-----------------------------------------------------------------------------
(* The calls up to addIndexForPieceThrottled. *)

DealsOf(p) == {d \in stored : PieceOf[d] = p}

NewCall(c, kind, pc, p, d, todo) ==
  /\ ~Active(c)
  /\ calls < MaxCalls
  /\ calls' = calls + 1
  /\ call' = [call EXCEPT ![c] =
       [pc |-> pc, kind |-> kind, piece |-> p, deal |-> d, op |-> None, todo |-> todo,
        err |-> "nil", canceled |-> FALSE]]
  /\ UNCHANGED <<stored, opByCid, ops, throttle>>

\* A piece that is already indexed only gets the deal.
AddDealForPiece(c, d) ==
  NewCall(c, "AddDealForPiece", IF PieceOf[d] \in Indexed THEN "store" ELSE "join",
          PieceOf[d], d, {})

\* Asks the store as well, but indexes whatever the answer is.
TxAddDealForPiece(c, d) == NewCall(c, "TxAddDealForPiece", "join", PieceOf[d], d, {})

\* Reads the deals once and tries them in turn.
BuildIndexForPiece(c, p) ==
  /\ DealsOf(p) # {}
  /\ NewCall(c, "BuildIndexForPiece", "attempted", p, None, DealsOf(p))

\* The context of the caller is cancelled.  Only the two selects look at it.
Cancel(c) ==
  /\ At(c, "wait") \/ At(c, "throttle")
  /\ ~call[c].canceled
  /\ call' = [call EXCEPT ![c].canceled = TRUE]
  /\ UNCHANGED <<stored, opByCid, ops, throttle, calls>>

-----------------------------------------------------------------------------
(* addIndexForPieceThrottled *)

\* LoadOrStore finds the operation of another call.
Join(c) ==
  /\ At(c, "join")
  /\ opByCid[call[c].piece] # None
  /\ call' = [call EXCEPT ![c].pc = "wait", ![c].op = opByCid[call[c].piece]]
  /\ UNCHANGED <<stored, opByCid, ops, throttle, calls>>

\* Mutant: Load and Store instead of LoadOrStore.
OwnAnyway(c) ==
  /\ At(c, "join")
  /\ LET o == created + 1
     IN  /\ ops' = Append(ops, [piece |-> call[c].piece, deal |-> call[c].deal,
                                done |-> FALSE, err |-> "nil"])
         /\ opByCid' = [opByCid EXCEPT ![call[c].piece] = o]
         /\ call' = [call EXCEPT ![c].pc = "throttle", ![c].op = o]
  /\ UNCHANGED <<stored, throttle, calls>>

\* LoadOrStore stores the new operation.
Own(c) ==
  /\ At(c, "join")
  /\ opByCid[call[c].piece] = None
  /\ LET o == created + 1
     IN  /\ ops' = Append(ops, [piece |-> call[c].piece, deal |-> call[c].deal,
                                done |-> FALSE, err |-> "nil"])
         /\ opByCid' = [opByCid EXCEPT ![call[c].piece] = o]
         /\ call' = [call EXCEPT ![c].pc = "throttle", ![c].op = o]
  /\ UNCHANGED <<stored, throttle, calls>>

\* Mutant: the result is read without waiting for done.
ReadErrAtOnce(c) ==
  /\ At(c, "wait")
  /\ Attempted(c, ops[call[c].op].err)
  /\ UNCHANGED <<stored, opByCid, ops, throttle, calls>>

WaitDone(c) ==
  /\ At(c, "wait")
  /\ ops[call[c].op].done
  /\ Attempted(c, ops[call[c].op].err)
  /\ UNCHANGED <<stored, opByCid, ops, throttle, calls>>

WaitCanceled(c) ==
  /\ At(c, "wait")
  /\ call[c].canceled
  /\ Attempted(c, "canceled")
  /\ UNCHANGED <<stored, opByCid, ops, throttle, calls>>

TakeSlot(c) ==
  /\ At(c, "throttle")
  /\ throttle < ThrottleSize
  /\ throttle' = throttle + 1
  /\ Goto(c, "index")
  /\ UNCHANGED <<stored, opByCid, ops, calls>>

\* Mutant: the receive is deferred before the select.
CanceledReleases(c) ==
  /\ At(c, "throttle")
  /\ call[c].canceled
  /\ ops' = [ops EXCEPT ![call[c].op].err = "canceled"]
  /\ Goto(c, "release")
  /\ UNCHANGED <<stored, opByCid, throttle, calls>>

\* Mutant: done is only closed on the way out of a finished operation.
CanceledNotClosed(c) ==
  /\ At(c, "throttle")
  /\ call[c].canceled
  /\ ops' = [ops EXCEPT ![call[c].op].err = "canceled"]
  /\ Goto(c, "delete")
  /\ UNCHANGED <<stored, opByCid, throttle, calls>>

\* The owner's error is what every waiting call gets.
ThrottleCanceled(c) ==
  /\ At(c, "throttle")
  /\ call[c].canceled
  /\ ops' = [ops EXCEPT ![call[c].op].err = "canceled"]
  /\ Goto(c, "close")
  /\ UNCHANGED <<stored, opByCid, throttle, calls>>

\* The records made of the data of each deal.
Records == [d \in Deals |-> Parse(Data[d])]

\* Mutant: the slot is only given back after a success.
IndexFailureKeepsSlot(c) ==
  /\ At(c, "index")
  /\ \E err \in {"nil", "failed"} :
       /\ err = "nil" => Records[call[c].deal] # Broken
       /\ err = "failed" => Flaky \/ Records[call[c].deal] = Broken
       /\ ops' = [ops EXCEPT ![call[c].op].err = err]
       /\ Goto(c, IF err = "nil" THEN "release" ELSE "close")
  /\ UNCHANGED <<stored, opByCid, throttle, calls>>

\* Runs in the context of the piece directory, not of the caller.
addIndexForPiece(c) ==
  /\ At(c, "index")
  /\ \E err \in {"nil", "failed"} :
       /\ err = "nil" => Records[call[c].deal] # Broken
       /\ err = "failed" => Flaky \/ Records[call[c].deal] = Broken
       /\ ops' = [ops EXCEPT ![call[c].op].err = err]
  /\ Goto(c, "release")
  /\ UNCHANGED <<stored, opByCid, throttle, calls>>

ReleaseSlot(c) ==
  /\ At(c, "release")
  /\ throttle' = throttle - 1
  /\ Goto(c, "close")
  /\ UNCHANGED <<stored, opByCid, ops, calls>>

CloseDone(c) ==
  /\ At(c, "close")
  /\ ops' = [ops EXCEPT ![call[c].op].done = TRUE]
  /\ Goto(c, "delete")
  /\ UNCHANGED <<stored, opByCid, throttle, calls>>

\* Mutant: a cancelled owner sets the error on its way out.
DeleteOpLateError(c) ==
  /\ At(c, "delete")
  /\ opByCid' = [opByCid EXCEPT ![call[c].piece] = None]
  /\ ops' = IF call[c].canceled
            THEN [ops EXCEPT ![call[c].op].err = "canceled"]
            ELSE ops
  /\ Attempted(c, ops'[call[c].op].err)
  /\ UNCHANGED <<stored, throttle, calls>>

DeleteOp(c) ==
  /\ At(c, "delete")
  /\ opByCid' = [opByCid EXCEPT ![call[c].piece] = None]
  /\ Attempted(c, ops[call[c].op].err)
  /\ UNCHANGED <<stored, ops, throttle, calls>>

-----------------------------------------------------------------------------
(* The calls after addIndexForPieceThrottled. *)

\* BuildIndexForPiece goes on to its next deal.  (It begins here as well.)
NextDeal(c) ==
  /\ At(c, "attempted") /\ call[c].kind = "BuildIndexForPiece"
  /\ call[c].err # "nil" \/ call[c].deal = None
  /\ \E d \in call[c].todo :
       call' = [call EXCEPT ![c].pc = "join", ![c].deal = d, ![c].todo = @ \ {d}]
  /\ UNCHANGED <<stored, opByCid, ops, throttle, calls>>

GoStore(c) ==
  /\ At(c, "attempted") /\ call[c].kind = "AddDealForPiece"
  /\ call[c].err = "nil"
  /\ Goto(c, "store")
  /\ UNCHANGED <<stored, opByCid, ops, throttle, calls>>

\* The call is about to return the error of its last attempt.
Returns(c) ==
  /\ At(c, "attempted")
  /\ CASE call[c].kind = "AddDealForPiece" -> call[c].err # "nil"
       [] call[c].kind = "TxAddDealForPiece" -> TRUE
       [] OTHER -> call[c].deal # None /\ (call[c].err = "nil" \/ call[c].todo = {})

Return(c) ==
  /\ Returns(c)
  /\ Finish(c)
  /\ UNCHANGED <<stored, opByCid, ops, throttle, calls>>

StoreDeal(c) ==
  /\ At(c, "store")
  /\ stored' = stored \cup {call[c].deal}
  /\ Finish(c)
  /\ UNCHANGED <<opByCid, ops, throttle, calls>>

StoreFails(c) ==
  /\ At(c, "store")
  /\ Flaky
  /\ Finish(c)
  /\ UNCHANGED <<stored, opByCid, ops, throttle, calls>>

-----------------------------------------------------------------------------
\* What the goroutine of a call does without waiting for a slot.
CallStep(c) ==
  \/ Join(c) \/ Own(c)
  \/ WaitDone(c) \/ WaitCanceled(c)
  \/ ThrottleCanceled(c)
  \/ addIndexForPiece(c) \/ ReleaseSlot(c) \/ CloseDone(c) \/ DeleteOp(c)
  \/ NextDeal(c) \/ GoStore(c) \/ Return(c)
  \/ StoreDeal(c) \/ StoreFails(c)

\* Every call the bound allows was made and has returned.
Finished ==
  /\ calls = MaxCalls
  /\ \A c \in Callers : ~Active(c)
  /\ UNCHANGED vars

Next ==
  \/ Finished
  \/ \E c \in Callers, d \in Deals : AddDealForPiece(c, d) \/ TxAddDealForPiece(c, d)
  \/ \E c \in Callers, p \in Pieces : BuildIndexForPiece(c, p)
  \/ \E c \in Callers : Cancel(c) \/ TakeSlot(c) \/ CallStep(c)

\* Goroutines run, and senders blocked on a channel are served in turn.
Fairness == \A c \in Callers : WF_vars(CallStep(c)) /\ SF_vars(TakeSlot(c))

Spec == Init /\ [][Next]_vars /\ Fairness

-----------------------------------------------------------------------------
Owners(p) == {c \in Callers : call[c].pc \in OwnerPCs /\ call[c].piece = p}

\* One index operation at a time for a piece, from LoadOrStore to Delete: the
\* map entry is that of the only owner, and no entry outlives its owner, which
\* would make every later call wait for a finished operation or report the
\* piece as being indexed for ever.  (piecedirectory.go:287-312.)
SingleFlight ==
  \A p \in Pieces :
    /\ \A c, d \in Owners(p) : c = d
    /\ (opByCid[p] = None) <=> (Owners(p) = {})
    /\ \A c \in Owners(p) : call[c].op = opByCid[p]

\* The throttle bounds the pieces read and parsed at the same time, and no
\* path, cancelled ones included, loses a slot or gives back one it did not
\* take.  (piecedirectory.go:314-323.)
SlotsAccounted ==
  throttle = Cardinality({c \in Callers : call[c].pc \in {"index", "release"}})

Good == {d \in Deals : Readable(Data[d])}

\* A piece is known to be readable: the store had its index, or an operation
\* parsed the data of one of its deals.
Built(p) ==
  \/ p \in Indexed
  \/ \E o \in DOMAIN ops : /\ ops[o].piece = p /\ ops[o].deal \in Good
                           /\ ops[o].done /\ ops[o].err = "nil"

\* No call reports success, and no deal is recorded, on the strength of an
\* operation that did not finish, failed or was about another piece.
\* (op.err is read without a lock by every waiter, piecedirectory.go:306.)
SuccessIsReal ==
  \A c \in Callers : (Returns(c) \/ At(c, "store")) /\ call[c].err = "nil" =>
    Built(call[c].piece)

ParserRight == \A piece \in Contents : ParsedRight(piece)

\* Whatever segments a piece that is being indexed has, and however they are shared out among
\* the goroutines that validate them (piecedirectory.go:504-535), the records are those of all
\* the valid segments at their offsets in the piece; one bad segment makes it the CAR at the
\* beginning or an error, and no block is left out or counted twice.
RecordsRight == (\E c \in Callers : At(c, "index")) => ParserRight

\* The waiters of an operation all get the same answer: its error does not
\* change once done is closed.
ResultFrozen ==
  [][\A o \in DOMAIN ops : ops[o].done => ops'[o] = ops[o]]_vars

\* Every call returns, even when the owner of the operation it waits for is
\* cancelled before it gets a slot.
CallsReturn == \A c \in Callers : Active(c) ~> ~Active(c)

=============================================================================
