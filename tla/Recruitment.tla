---------------------------- MODULE Recruitment -----------------------------
(***************************************************************************)
(* RecruitmentService from the application on: the stage of an             *)
(* application, its interview rounds and its offer.  moveStage checks the  *)
(* stage it read, and updates by id.                                       *)
(*                                                                         *)
(* No code of the repository inserts an application; Apply is the import   *)
(* that brings one.                                                        *)
(***************************************************************************)
EXTENDS Services

CONSTANTS
    Application,  \* primary keys of applications
    Round         \* round numbers of interviews

ASSUME RecruitmentAssumption == None \notin Application

Stages == {"applied", "screening", "interview", "offer", "hired", "rejected"}

\* validTransitions: where a stage leads besides "rejected".
Following == [applied |-> "screening", screening |-> "interview",
              interview |-> "offer", offer |-> "hired"]

\* Fault: any stage but the first may be asked for.
CanMoveAnywhere(from, to) == from \in DOMAIN Following /\ to # "applied"

\* Fault: a rejected candidate may be taken up again.
CanMoveBack(from, to) ==
    \/ from \in DOMAIN Following /\ (to = "rejected" \/ to = Following[from])
    \/ from = "rejected" /\ to = "screening"

CanMove(from, to) == from \in DOMAIN Following /\ (to = "rejected" \/ to = Following[from])

\* `trail` is auxiliary: the stages the application was in.
NoApplication == [stage |-> "none", trail |-> {}, hired |-> FALSE, rejected |-> FALSE,
                  rounds |-> [n \in Round |-> "none"], offer |-> "none"]

RecruitmentInit ==
    /\ office = "recruitment"
    /\ db = [application |-> [a \in Application |-> NoApplication]]
    /\ InitHandlers

Apply(a) ==
    /\ office = "recruitment"
    /\ db.application[a] = NoApplication
    /\ db' = [db EXCEPT !.application[a].stage = "applied", !.application[a].trail = {"applied"}]
    /\ Call

MoveRead(w, a, to) ==
    /\ office = "recruitment"
    /\ CanMove(db.application[a].stage, to)
    /\ Start(w, [pc |-> "moveStage", on |-> a, from |-> db.application[a].stage,
                 to |-> to])

MoveWrite(w) ==
    LET h == handler[w] IN
    /\ At(w, "moveStage")
    /\ db' = [db EXCEPT !.application[h.on].stage = h.to,
                        !.application[h.on].trail = @ \union {h.to},
                        !.application[h.on].hired = @ \/ h.to = "hired",
                        !.application[h.on].rejected = @ \/ h.to = "rejected"]
    /\ Finish(w)

\* The application itself is not looked at.
ScheduleRead(w, a, n) ==
    /\ office = "recruitment"
    /\ db.application[a] # NoApplication
    /\ db.application[a].rounds[n] = "none"
    /\ Start(w, [pc |-> "schedule", on |-> a, round |-> n])

\* (applicationId, roundNumber) is unique: a second insert is refused.
ScheduleCreate(w) ==
    LET h == handler[w] IN
    /\ At(w, "schedule")
    /\ db' = IF db.application[h.on].rounds[h.round] = "none"
             THEN [db EXCEPT !.application[h.on].rounds[h.round] = "scheduled"] ELSE db
    /\ Finish(w)

OfferRead(w, a) ==
    /\ office = "recruitment"
    /\ db.application[a].stage = "offer"
    /\ Start(w, [pc |-> "offer", on |-> a])

\* The upsert: an offer that is there keeps its status.
OfferUpsert(w) ==
    /\ At(w, "offer")
    /\ db' = [db EXCEPT !.application[handler[w].on].offer = IF @ = "none" THEN "draft" ELSE @]
    /\ Finish(w)

RecruitmentStep(w) ==
    \/ \E a \in Application :
        \/ \E to \in Stages : MoveRead(w, a, to)
        \/ \E n \in Round : ScheduleRead(w, a, n)
        \/ OfferRead(w, a)
    \/ MoveWrite(w) \/ ScheduleCreate(w) \/ OfferUpsert(w)

RecruitmentNext ==
    \/ \E a \in Application : Apply(a)
    \/ \E w \in Worker : RecruitmentStep(w) \/ Abort(w)

RecruitmentSpec == RecruitmentInit /\ [][RecruitmentNext]_vars

----------------------------------------------------------------------------
ApplicationRow == [stage : {"none"} \union Stages, trail : SUBSET Stages,
                   hired : BOOLEAN, rejected : BOOLEAN,
                   rounds : [Round -> {"none", "scheduled"}], offer : {"none", "draft"}]

RecruitmentTypeOK ==
    /\ db \in [application : [Application -> ApplicationRow]]
    /\ handler \in [Worker -> [pc : {"idle"}, on : {None}]
           \union [pc : {"moveStage"}, on : Application, from : Stages, to : Stages]
           \union [pc : {"schedule"}, on : Application, round : Round]
           \union [pc : {"offer"}, on : Application]]

\* Whoever is hired, or has an offer, went through every stage before it: no
\* interleaving of moves, however stale the stage they read, skips one.
NoStageIsSkipped ==
    office = "recruitment" => \A a \in Application :
        LET row == db.application[a] IN
        /\ row.hired => {"applied", "screening", "interview", "offer"} \subseteq row.trail
        /\ row.offer # "none" => {"applied", "screening", "interview"} \subseteq row.trail

\* As long as no two calls about an application overlap, a rejection or a
\* hiring is the end of it: the stage stays, and it never gets both dates.
OutcomeIsFinal ==
    [][office = "recruitment" => \A a \in Application \ overlapped' :
        LET old == db.application[a]
            new == db'.application[a] IN
        (old.hired \/ old.rejected) =>
            [new EXCEPT !.rounds = old.rounds] = old]_vars
=============================================================================
