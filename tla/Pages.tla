------------------------------- MODULE Pages --------------------------------
(***************************************************************************)
(* The pages of the web: the queries a page loads, the calls its buttons   *)
(* make, and what becomes of them on their way through the API.  What the  *)
(* services do with a call that gets to them is the other modules'.        *)
(***************************************************************************)
EXTENDS Services, Routes

\* A query of the page.
Load(route, sends) == [route |-> route, sends |-> sends, in |-> "page"]

\* A button that is always there.
Button(route, sends) == Load(route, sends)

\* A button on a row, or on an option, of what the query `list` loaded.
RowButton(list, route, sends) == [route |-> route, sends |-> sends, in |-> list]

LoginPage ==
    [login |-> Button("login", {"email", "password", "tenantSlug"}),
     code |-> RowButton("login", "login", {"email", "password", "tenantSlug", "totpCode"})]

\* Fault: the widget says where the call comes from, as the page does.
ClockWidgetSource ==
    [today |-> Load("getMyMonthly", {"year", "month"}),
     widgetIn |-> RowButton("today", "clockIn", {"source"}),
     widgetOut |-> RowButton("today", "clockOut", {})]

ClockWidget ==
    [today |-> Load("getMyMonthly", {"year", "month"}),
     widgetIn |-> RowButton("today", "clockIn", {}),
     widgetOut |-> RowButton("today", "clockOut", {})]

DashboardPage ==
    ClockWidget @@
    [summary |-> Load("getLiveSummary", {}),
     balance |-> Load("getMyBalance", {"year"})]

AttendancePage ==
    [summary |-> Load("getLiveSummary", {}),
     sheet |-> Load("getMyMonthly", {"year", "month"}),
     shifts |-> Load("getShifts", {}),
     clockIn |-> Button("clockIn", {"source"}),
     clockOut |-> Button("clockOut", {}),
     regularize |-> Button("regularize", {"date", "reason"})]

\* The table of the requests has it on each pending one.
CancelButton == RowButton("requests", "cancelRequest", {})

LeavePage ==
    [requests |-> Load("getRequests", {}),
     balances |-> Load("getMyBalance", {"year"}),
     cancel |-> CancelButton]

ApplyLeaveDialog ==
    [types |-> Load("getTypes", {}),
     apply |-> RowButton("types", "createRequest",
                         {"leaveTypeId", "fromDate", "toDate", "reason", "isHalfDay"})]

ManagerPage ==
    [pending |-> Load("getRequests", {"status"}),
     decide |-> RowButton("pending", "decideRequest", {"decision"})]

AssetsPage ==
    [inventory |-> Load("listAssets", {"limit"}),
     assignments |-> Load("listAssignments", {"limit"}),
     addAsset |-> Button("createAsset", {"assetTag", "type", "brand", "model", "serialNumber"}),
     return |-> RowButton("assignments", "returnAsset", {})]

ExpensesPage ==
    [claims |-> Load("listClaims", {"limit"}),
     summary |-> Load("expenseSummary", {}),
     newClaim |-> Button("createClaim", {"title", "category", "claimDate", "currency", "items"}),
     submit |-> RowButton("claims", "submitClaim", {}),
     decide |-> RowButton("claims", "decideClaim", {"decision", "comment"})]

OnboardingPage ==
    [sessions |-> Load("listSessions", {"limit"}),
     mine |-> Load("mySession", {}),
     startSession |-> Button("createSession", {"totalSteps"}),
     advance |-> RowButton("sessions", "saveStep", {"completed", "completedAt"}),
     complete |-> RowButton("sessions", "completeSession", {})]

LearningPage ==
    [courses |-> Load("getCourses", {"limit"}),
     enrollments |-> Load("getMyEnrollments", {}),
     enroll |-> RowButton("courses", "enroll", {}),
     progress |-> RowButton("enrollments", "updateProgress", {"progressPercent"})]

RecruitmentPage ==
    [requisitions |-> Load("getRequisitions", {"limit"}),
     applications |-> Load("getApplications", {"limit"}),
     analytics |-> Load("getAnalytics", {}),
     moveNext |-> RowButton("applications", "moveStage", {"stage"})]

PerformancePage ==
    [cycles |-> Load("getCycles", {}),
     goals |-> Load("getMyGoals", {}),
     reviewCycles |-> Load("getReviewCycles", {}),
     calibration |-> RowButton("reviewCycles", "getCalibration", {}),
     saveCheckIn |-> RowButton("goals", "checkIn", {"actualValue", "progressNote"})]

ReportsPage ==
    [headcount |-> Load("getHeadcount", {}),
     salary |-> Load("getSalaryRegister", {"month", "year"}),
     liability |-> Load("getLeaveLiability", {"year"}),
     export |-> Button("queueExport", {"type", "format", "filters"})]

EmployeesPage == [employees |-> Load("findAll", {"search"})]
PayrollPage == [payslips |-> Load("getMyPayslips", {})]

Pages == {LoginPage, DashboardPage, AttendancePage, LeavePage, ApplyLeaveDialog, ManagerPage,
          AssetsPage, ExpensesPage, OnboardingPage, LearningPage, RecruitmentPage,
          PerformancePage, ReportsPage, EmployeesPage, PayrollPage}

----------------------------------------------------------------------------
(* A browser tab shows one page to a user of one role.  `done` are the     *)
(* calls that were served, `refused` and `forbidden` those that were not.  *)

NoPage == [role |-> "", calls |-> <<>>, done |-> {}, refused |-> {}, forbidden |-> {}]

PagesInit ==
    /\ office = "pages"
    /\ db = None
    /\ handler = [w \in Worker |-> Idle]
    /\ page = [w \in Worker |-> NoPage]
    /\ calls = 0 /\ aborts = 0 /\ overlapped = {}

\* Tabs do not meet here, so that one at a time is open.
Visit(w, role, p) ==
    /\ office = "pages"
    /\ \A v \in Worker : page[v] = NoPage
    /\ page' = [page EXCEPT ![w] = [NoPage EXCEPT !.role = role, !.calls = p]]
    /\ UNCHANGED <<office, db, handler, calls, aborts, overlapped>>

CallNames == UNION {DOMAIN p : p \in Pages}

Request(w, name) ==
    LET call == page[w].calls[name] IN
    /\ office = "pages"
    /\ name \in DOMAIN page[w].calls \ page[w].done
    /\ call.in = "page" \/ call.in \in page[w].done
    /\ Start(w, [pc |-> "sent", on |-> w, name |-> name])

\* The answer of the API arrives.
Answered(w, as) ==
    /\ page' = [page EXCEPT ![w][as] = @ \union {handler[w].name}]
    /\ handler' = [handler EXCEPT ![w] = Idle]
    /\ UNCHANGED <<office, db, calls, aborts, overlapped>>

RouteOf(w) == Routes[page[w].calls[handler[w].name].route]
SentBy(w) == page[w].calls[handler[w].name].sends

Guard(w) ==
    /\ At(w, "sent")
    /\ Admits(RouteOf(w), page[w].role)
    /\ UNCHANGED db
    /\ Goto(w, [handler[w] EXCEPT !.pc = "admitted"])

Forbid(w) ==
    /\ At(w, "sent")
    /\ ~Admits(RouteOf(w), page[w].role)
    /\ Answered(w, "forbidden")

Refuse(w) ==
    /\ At(w, "admitted")
    /\ Refuses(RouteOf(w), SentBy(w))
    /\ Answered(w, "refused")

Serve(w) ==
    /\ At(w, "admitted")
    /\ ~Refuses(RouteOf(w), SentBy(w))
    /\ Answered(w, "done")

PagesStep(w) ==
    \/ \E role \in Everyone, p \in Pages : Visit(w, role, p)
    \/ \E name \in CallNames : Request(w, name)
    \/ Guard(w) \/ Forbid(w) \/ Refuse(w) \/ Serve(w)

PagesNext == \E w \in Worker : PagesStep(w) \/ Abort(w)
PagesSpec == PagesInit /\ [][PagesNext]_vars

----------------------------------------------------------------------------
PagesTypeOK ==
    \A w \in Worker :
        /\ page[w].role \in Everyone \union {""}
        /\ page[w].done \union page[w].refused \union page[w].forbidden \subseteq DOMAIN page[w].calls
        /\ handler[w].pc \in {"idle", "sent", "admitted"}

\* Calls whose body or query the API does not understand.
Misunderstood(p) ==
    CASE p = AttendancePage -> {"clockIn"}
      [] p = ManagerPage -> {"pending"}
      [] p = AssetsPage -> {"addAsset"}
      [] p = ExpensesPage -> {"newClaim", "decide"}
      [] p = OnboardingPage -> {"advance"}
      [] OTHER -> {}

\* The web and the API agree on every call a page makes but those: nothing
\* else is refused by the pipes, whoever presses what in whatever order, and
\* nothing is served without a field its handler reads, but the exports of
\* the reports.  What hangs on a list that is refused is never called.
PagesAreUnderstood ==
    office = "pages" => \A w \in Worker :
        LET p == page[w].calls IN
        /\ page[w].refused \subseteq Misunderstood(p)
        /\ \A name \in page[w].done :
            \/ Routes[p[name].route].needs \subseteq p[name].sends
            \/ p = ReportsPage /\ name = "export"
        /\ p = ManagerPage => "decide" \notin page[w].done
=============================================================================
