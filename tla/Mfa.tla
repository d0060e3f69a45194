-------------------------------- MODULE Mfa ---------------------------------
(***************************************************************************)
(* The second factor in AuthService: the secret of a user, whether it is   *)
(* asked for, and the user's authenticator app.  Each handler reads the    *)
(* user and updates by id.                                                 *)
(***************************************************************************)
EXTENDS Services

CONSTANT Secret  \* TOTP secrets

ASSUME MfaAssumption == None \notin Secret

\* The users are those of Employee.  `app` are the secrets that were scanned.
\* Auxiliary: `drawn` are the secrets generated, `late` those of a user whose
\* factor was asked for already.
MfaInit ==
    /\ office = "mfa"
    /\ db = [user |-> [e \in Employee |-> [enabled |-> FALSE, secret |-> None]],
             drawn |-> {}, late |-> {}, app |-> {}]
    /\ InitHandlers

SetupRead(w, e) ==
    /\ office = "mfa"
    /\ Start(w, [pc |-> "setup", on |-> e])

\* The new secret replaces the old one, asked for or not; the QR code of it is
\* the answer.
SetupWrite(w, s) ==
    /\ At(w, "setup")
    /\ s \notin db.drawn
    /\ db' = [db EXCEPT !.user[handler[w].on].secret = s, !.drawn = @ \union {s},
                        !.late = IF db.user[handler[w].on].enabled THEN @ \union {s} ELSE @]
    /\ page' = [page EXCEPT ![w] = s]
    /\ handler' = [handler EXCEPT ![w] = Idle]
    /\ UNCHANGED <<office, calls, aborts, overlapped>>

\* The user scans the QR code, or leaves the page.
Look(w, scanned) ==
    /\ office = "mfa"
    /\ page[w] # None
    /\ db' = IF scanned THEN [db EXCEPT !.app = @ \union {page[w]}] ELSE db
    /\ page' = [page EXCEPT ![w] = None]
    /\ UNCHANGED <<office, handler, calls, aborts, overlapped>>

\* The code the user types is one for the secret of the user.
Verified(e) == db.user[e].secret \in db.app

\* Fault: no code is asked for.
ConfirmReadUnverified(w, e) ==
    /\ office = "mfa"
    /\ db.user[e].secret # None
    /\ Start(w, [pc |-> "confirm", on |-> e])

ConfirmRead(w, e) ==
    /\ office = "mfa"
    /\ Verified(e)
    /\ Start(w, [pc |-> "confirm", on |-> e])

ConfirmWrite(w) ==
    /\ At(w, "confirm")
    /\ db' = [db EXCEPT !.user[handler[w].on].enabled = TRUE]
    /\ Finish(w)

DisableRead(w, e) ==
    /\ office = "mfa"
    /\ Verified(e)
    /\ Start(w, [pc |-> "disable", on |-> e])

DisableWrite(w) ==
    /\ At(w, "disable")
    /\ db' = [db EXCEPT !.user[handler[w].on] = [enabled |-> FALSE, secret |-> None]]
    /\ Finish(w)

MfaStep(w) ==
    \/ \E e \in Employee : SetupRead(w, e) \/ ConfirmRead(w, e) \/ DisableRead(w, e)
    \/ \E s \in Secret : SetupWrite(w, s)
    \/ \E scanned \in BOOLEAN : Look(w, scanned)
    \/ ConfirmWrite(w) \/ DisableWrite(w)

MfaNext == \E w \in Worker : MfaStep(w) \/ Abort(w)
MfaSpec == MfaInit /\ [][MfaNext]_vars

----------------------------------------------------------------------------
MfaTypeOK ==
    /\ db \in [user : [Employee -> [enabled : BOOLEAN, secret : Secret \union {None}]],
               drawn : SUBSET Secret, late : SUBSET Secret, app : SUBSET Secret]
    /\ page \in [Worker -> Secret \union {None}]
    /\ handler \in [Worker -> [pc : {"idle"}, on : {None}]
                               \union [pc : {"setup", "confirm", "disable"}, on : Employee]]

\* Nobody is locked out of the account by the second factor: the factor that
\* login asks for is one the user's app has.  Only two ways lead there: two
\* calls about the user that overlap, or a setup while the factor is asked
\* for, which takes the old secret away before the new one is confirmed.
FactorIsHeld ==
    office = "mfa" => \A e \in Employee \ overlapped :
        db.user[e].enabled => db.user[e].secret \in db.app \union db.late
=============================================================================
