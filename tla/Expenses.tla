------------------------------ MODULE Expenses ------------------------------
(***************************************************************************)
(* ExpensesService: the rows of expense_claims.  Both updates of a claim   *)
(* go by id alone; decide looks at no status, and writes back the stamps   *)
(* it read.                                                                *)
(***************************************************************************)
EXTENDS Services

CONSTANT Claim  \* primary keys of expense_claims

ASSUME ExpensesAssumption == None \notin Claim

\* What ExpenseDecisionBody lets through.
Decisions == {"approved", "rejected", "paid"}

NoClaim == [status |-> "none", approved |-> FALSE, paid |-> FALSE]

ExpensesInit ==
    /\ office = "expenses"
    /\ db = [claim |-> [c \in Claim |-> NoClaim]]
    /\ InitHandlers

\* create: one insert of a draft with its items.
CreateClaim(c) ==
    /\ office = "expenses"
    /\ db.claim[c] = NoClaim
    /\ db' = [db EXCEPT !.claim[c].status = "draft"]
    /\ Call

SubmitRead(w, c) ==
    /\ office = "expenses"
    /\ db.claim[c].status = "draft"
    /\ Start(w, [pc |-> "submit", on |-> c])

SubmitWrite(w) ==
    /\ At(w, "submit")
    /\ db' = [db EXCEPT !.claim[handler[w].on].status = "submitted"]
    /\ Finish(w)

\* The claim is there, in any status.
DecideClaim(w, c, decision) ==
    /\ office = "expenses"
    /\ db.claim[c] # NoClaim
    /\ Start(w, [pc |-> "decide", on |-> c, decision |-> decision, read |-> db.claim[c]])

\* Fault: only the stamp of the decision is written, the other one is reset.
DecideStampAlone(w) ==
    LET h == handler[w] IN
    /\ At(w, "decide")
    /\ db' = [db EXCEPT !.claim[h.on] = [status |-> h.decision,
                                         approved |-> h.decision = "approved",
                                         paid |-> h.decision = "paid"]]
    /\ Finish(w)

\* approvedAt and paidAt are set by their decision, else what was read.
DecideStamp(w) ==
    LET h == handler[w] IN
    /\ At(w, "decide")
    /\ db' = [db EXCEPT !.claim[h.on] = [status |-> h.decision,
                                         approved |-> h.decision = "approved" \/ h.read.approved,
                                         paid |-> h.decision = "paid" \/ h.read.paid]]
    /\ Finish(w)

ExpensesStep(w) ==
    \/ \E c \in Claim : SubmitRead(w, c) \/ \E d \in Decisions : DecideClaim(w, c, d)
    \/ SubmitWrite(w) \/ DecideStamp(w)

ExpensesNext ==
    \/ \E c \in Claim : CreateClaim(c)
    \/ \E w \in Worker : ExpensesStep(w) \/ Abort(w)

ExpensesSpec == ExpensesInit /\ [][ExpensesNext]_vars

----------------------------------------------------------------------------
ClaimRow == [status : {"none", "draft", "submitted"} \union Decisions,
             approved : BOOLEAN, paid : BOOLEAN]

ExpensesTypeOK ==
    /\ db \in [claim : [Claim -> ClaimRow]]
    /\ handler \in [Worker -> [pc : {"idle"}, on : {None}] \union [pc : {"submit"}, on : Claim]
           \union [pc : {"decide"}, on : Claim, decision : Decisions, read : ClaimRow]]

Decided(row) == row.status \in Decisions

\* Money that was approved or paid stays on record: as long as no two calls
\* about a claim overlap, a decided claim is not taken back to draft or
\* submitted, and no later decision takes approvedAt or paidAt away.
DecisionsAreKept ==
    [][office = "expenses" => \A c \in Claim \ overlapped' :
        LET old == db.claim[c]
            new == db'.claim[c] IN
        /\ Decided(old) => Decided(new)
        /\ old.approved => new.approved
        /\ old.paid => new.paid]_vars
=============================================================================
