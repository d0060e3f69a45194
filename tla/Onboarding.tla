----------------------------- MODULE Onboarding -----------------------------
(***************************************************************************)
(* OnboardingService: the rows of onboarding_sessions.  A session has a    *)
(* JSON document with one key for each step saved, which saveStep reads,   *)
(* extends and writes back as a whole, and the step it has reached.        *)
(***************************************************************************)
EXTENDS Services

CONSTANTS
    OnboardingSession,  \* primary keys of onboarding_sessions
    TotalSteps          \* totalSteps of a session (8 when the web creates it)

ASSUME OnboardingAssumption ==
    None \notin OnboardingSession /\ TotalSteps \in Nat \ {0}

Steps == 1..TotalSteps
NoSession == [step |-> 0, data |-> {}, complete |-> FALSE]

OnboardingInit ==
    /\ office = "onboarding"
    /\ db = [session |-> [s \in OnboardingSession |-> NoSession]]
    /\ InitHandlers

CreateSession(s) ==
    /\ office = "onboarding"
    /\ db.session[s] = NoSession
    /\ db' = [db EXCEPT !.session[s].step = 1]
    /\ Call

SaveStepRead(w, s, step, mark) ==
    /\ office = "onboarding"
    /\ db.session[s] # NoSession
    /\ Start(w, [pc |-> "saveStep", on |-> s, step |-> step, mark |-> mark,
                 read |-> db.session[s]])

\* currentStep after the step is saved.
NextStep(h) ==
    IF h.mark THEN (IF h.step < TotalSteps THEN h.step + 1 ELSE TotalSteps)
    ELSE (IF h.read.step > h.step THEN h.read.step ELSE h.step)

\* Fault: the document is the step's alone.
SaveStepReplaces(w) ==
    LET h == handler[w] IN
    /\ At(w, "saveStep")
    /\ db' = [db EXCEPT !.session[h.on] =
                 [step |-> NextStep(h), data |-> {h.step},
                  complete |-> NextStep(h) >= TotalSteps /\ h.mark]]
    /\ Finish(w)

SaveStepWrite(w) ==
    LET h == handler[w] IN
    /\ At(w, "saveStep")
    /\ db' = [db EXCEPT !.session[h.on] =
                 [step |-> NextStep(h), data |-> h.read.data \union {h.step},
                  complete |-> NextStep(h) >= TotalSteps /\ h.mark]]
    /\ Finish(w)

CompleteRead(w, s) ==
    /\ office = "onboarding"
    /\ db.session[s] # NoSession
    /\ Start(w, [pc |-> "complete", on |-> s])

\* The document is left alone.
CompleteWrite(w) ==
    /\ At(w, "complete")
    /\ db' = [db EXCEPT !.session[handler[w].on].step = TotalSteps,
                        !.session[handler[w].on].complete = TRUE]
    /\ Finish(w)

OnboardingStep(w) ==
    \/ \E s \in OnboardingSession :
        \/ \E step \in Steps, mark \in BOOLEAN : SaveStepRead(w, s, step, mark)
        \/ CompleteRead(w, s)
    \/ SaveStepWrite(w) \/ CompleteWrite(w)

OnboardingNext ==
    \/ \E s \in OnboardingSession : CreateSession(s)
    \/ \E w \in Worker : OnboardingStep(w) \/ Abort(w)

OnboardingSpec == OnboardingInit /\ [][OnboardingNext]_vars

----------------------------------------------------------------------------
SessionRow == [step : 0..TotalSteps, data : SUBSET Steps, complete : BOOLEAN]

OnboardingTypeOK ==
    /\ db \in [session : [OnboardingSession -> SessionRow]]
    /\ handler \in [Worker -> [pc : {"idle"}, on : {None}]
           \union [pc : {"complete"}, on : OnboardingSession]
           \union [pc : {"saveStep"}, on : OnboardingSession, step : Steps, mark : BOOLEAN,
                   read : SessionRow]]

\* What a new hire entered is not lost: a step once saved stays in the
\* document, whatever order the steps are saved in and also when the session
\* is completed or reopened, unless two calls about the session overlapped.
StepsAreKept ==
    [][office = "onboarding" => \A s \in OnboardingSession \ overlapped' :
        db.session[s].data \subseteq db'.session[s].data]_vars
=============================================================================
