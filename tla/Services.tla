------------------------------ MODULE Services ------------------------------
(***************************************************************************)
(* What the smaller services of the API have in common: HTTP handlers that *)
(* read rows, check them, and write them in later calls.                   *)
(*                                                                         *)
(* The services that extend this module share no row, so a behaviour is    *)
(* about one of them, its `office`: to run two of them side by side would  *)
(* only multiply their states.                                             *)
(***************************************************************************)
EXTENDS Integers, FiniteSets

CONSTANTS
    Worker,     \* HTTP handlers in flight
    Employee,   \* the employees the rows are about
    None,       \* a column that is null
    MaxCalls,   \* bound, per office: handlers started
    MaxAborts   \* bound: handlers that die between two awaits

ASSUME ServicesAssumption ==
    /\ IsFiniteSet(Worker)
    /\ None \notin Int /\ None \notin Employee
    /\ \A o \in DOMAIN MaxCalls : MaxCalls[o] \in Nat
    /\ MaxAborts \in Nat

VARIABLES
    office,      \* the service at work; never changes
    db,          \* the tables of that service
    page,        \* what the web page that calls a handler shows, where it matters
    handler,     \* the handlers
    calls,       \* auxiliary: handlers started
    aborts,      \* auxiliary: handlers that died
    overlapped   \* auxiliary: rows that two handlers in flight were about

vars == <<office, db, page, handler, calls, aborts, overlapped>>

Idle == [pc |-> "idle", on |-> None]

InitHandlers ==
    /\ page = [w \in Worker |-> None]
    /\ handler = [w \in Worker |-> Idle]
    /\ calls = 0 /\ aborts = 0 /\ overlapped = {}

At(w, pc) == handler[w].pc = pc

\* The handler h, about the row h.on, begins; what it read is in h.
Begin(w, h) ==
    /\ handler[w] = Idle
    /\ calls < MaxCalls[office]
    /\ calls' = calls + 1
    /\ handler' = [handler EXCEPT ![w] = h]
    /\ overlapped' = IF \E v \in Worker : handler[v].on = h.on
                     THEN overlapped \union {h.on} ELSE overlapped
    /\ UNCHANGED <<office, page, aborts>>

\* It begins with a read.
Start(w, h) == Begin(w, h) /\ UNCHANGED db

\* A handler whose only write is one call.
Call ==
    /\ calls < MaxCalls[office]
    /\ calls' = calls + 1
    /\ UNCHANGED <<office, page, handler, aborts, overlapped>>

\* The handler goes on as h after a write of its own.
Goto(w, h) ==
    /\ handler' = [handler EXCEPT ![w] = h]
    /\ UNCHANGED <<office, page, calls, aborts, overlapped>>

Finish(w) == Goto(w, Idle)

\* A call of the handler is rejected, or its process ends.
Abort(w) ==
    /\ handler[w] # Idle
    /\ aborts < MaxAborts
    /\ aborts' = aborts + 1
    /\ handler' = [handler EXCEPT ![w] = Idle]
    /\ UNCHANGED <<office, db, page, calls, overlapped>>
=============================================================================
