------------------------------- MODULE Routes -------------------------------
(***************************************************************************)
(* The routes of the API's controllers as a client sees them: who may call *)
(* a route, and which fields of the query or the body it wants.  Types and *)
(* ranges of the fields are left out.                                      *)
(***************************************************************************)
EXTENDS TLC

Admins == {"super_admin", "hr_admin"}
HR == Admins \union {"hr_manager"}
Leads == HR \union {"manager"}
Everyone == Leads \union {"employee"}

\* A body or query with a DTO class: the pipe refuses what lacks a field it
\* needs, and what has one it does not know.
Dto(roles, needs, options) ==
    [roles |-> roles, needs |-> needs, takes |-> needs \union options, checks |-> "all"]

\* Parameters with a pipe of their own: what lacks one is refused.
Params(roles, needs) == [roles |-> roles, needs |-> needs, takes |-> needs, checks |-> "needs"]

\* A type that is no class: nothing is checked, and the handler reads `needs`.
Untyped(roles, needs) == [roles |-> roles, needs |-> needs, takes |-> needs, checks |-> "none"]

Plain(roles) == Untyped(roles, {})

Pagination == {"page", "limit", "cursor", "sortBy", "sortOrder", "search"}
Paged(roles) == Dto(roles, {}, Pagination)

AssetRoutes ==
    [listAssets |-> Paged(HR),
     listAssignments |-> Paged(Leads),
     createAsset |-> Dto(Admins, {"name", "assetCode", "type"},
                         {"serialNumber", "purchaseDate", "purchaseCost"}),
     assignAsset |-> Dto(HR, {"employeeId"}, {"condition", "notes"}),
     returnAsset |-> Plain(HR)]

ExpenseRoutes ==
    [listClaims |-> Paged(Everyone),
     expenseSummary |-> Plain(Everyone),
     createClaim |-> Dto(Everyone, {"title", "items"}, {"employeeId", "currency"}),
     submitClaim |-> Plain(Everyone),
     decideClaim |-> Dto(Leads, {"decision"}, {})]

\* `data` has no decorator of class-validator: it is a field nobody knows.
OnboardingRoutes ==
    [listSessions |-> Paged(Leads),
     mySession |-> Plain(Everyone),
     createSession |-> Dto(HR, {}, {"employeeId", "totalSteps"}),
     saveStep |-> Dto(Everyone, {}, {"markComplete"}),
     completeSession |-> Plain(Everyone)]

LearningRoutes ==
    [getCourses |-> Paged(Everyone),
     enroll |-> Plain(Everyone),
     updateProgress |-> Dto(Everyone, {"progressPercent"}, {}),
     getMyEnrollments |-> Plain(Everyone)]

\* Beside the DTO of findRequests there are parameters, status and year, that
\* the DTO does not know.
LeaveRoutes ==
    [getTypes |-> Plain(Everyone),
     getMyBalance |-> Params(Everyone, {"year"}),
     getEmployeeBalance |-> Params(Leads, {"year"}),
     getRequests |-> Paged(Everyone),
     createRequest |-> Dto(Everyone, {"leaveTypeId", "fromDate", "toDate", "reason"},
                           {"isHalfDay", "halfDayType", "attachmentUrl"}),
     decideRequest |-> Dto(Leads, {"decision"}, {"comment"}),
     cancelRequest |-> Plain(Everyone)]

AttendanceRoutes ==
    [clockIn |-> Dto(Everyone, {}, {"note", "latitude", "longitude"}),
     clockOut |-> Plain(Everyone),
     getMyMonthly |-> Params(Everyone, {"year", "month"}),
     getEmployeeMonthly |-> Params(Leads, {"year", "month"}),
     getLiveSummary |-> Plain(Leads),
     regularize |-> Dto(Everyone, {"date", "reason"},
                        {"requestedClockIn", "requestedClockOut", "attachmentUrl"}),
     approveRegularization |-> Dto(Leads, {"decision"}, {"comment"}),
     getShifts |-> Plain(Everyone),
     assignShift |-> Dto(HR, {"shiftId", "effectiveFrom"}, {"effectiveTo"})]

RecruitmentRoutes ==
    [getRequisitions |-> Paged(Everyone),
     createRequisition |-> Untyped(HR, {"title", "departmentId", "gradeId", "locationId", "vacancies",
                                       "employmentType", "jdContent", "skills",
                                       "minExperienceYears"}),
     getApplications |-> Paged(HR),
     moveStage |-> Untyped(HR, {"stage"}),
     scheduleInterview |-> Untyped(HR, {"roundNumber", "type", "interviewerIds", "scheduledAt"}),
     createOffer |-> Untyped(HR, {"ctcBreakup", "totalCtc", "joiningDate", "expiryDate"}),
     getAnalytics |-> Plain(HR)]

PerformanceRoutes ==
    [getCycles |-> Plain(Everyone),
     getMyGoals |-> Plain(Everyone),
     getEmployeeGoals |-> Plain(Leads),
     createGoal |-> Dto(Everyone, {"cycleId", "title", "weight"},
                        {"description", "targetValue", "unit", "parentGoalId"}),
     checkIn |-> Dto(Everyone, {}, {"actualValue", "progressNote"}),
     getReviewCycles |-> Plain(Everyone),
     submitReview |-> Dto(Everyone, {"cycleId", "revieweeId", "reviewerType", "responses"},
                          {"overallRating", "summaryComment"}),
     getCalibration |-> Plain(HR),
     overrideRating |-> Dto(Admins, {"newRating", "justification"}, {})]

\* update takes a Partial of the class, which is no class.
EmployeeRoutes ==
    [findAll |-> Paged(Leads),
     getOrgChart |-> Plain(Everyone),
     findOne |-> Plain(Everyone),
     createEmployee |-> Dto(HR, {"firstName", "lastName", "workEmail", "joiningDate"},
         {"middleName", "phone", "dateOfBirth", "probationEndDate", "employmentType",
          "departmentId", "designationId", "gradeId", "locationId", "costCenterId",
          "reportingManagerId", "personalEmail"}),
     updateEmployee |-> Plain(HR),
     softDelete |-> Plain(Admins),
     validateImport |-> Untyped(HR, {"rows"}),
     queueImport |-> Untyped(Admins, {"fileKey"})]

PayrollRoutes ==
    [getRuns |-> Plain(HR),
     triggerRun |-> Dto(Admins, {"month", "year"}, {}),
     getRun |-> Plain(HR),
     approveRun |-> Plain(Admins),
     getMyPayslips |-> Plain(Everyone),
     getEmployeePayslips |-> Plain(HR)]

ReportRoutes ==
    [getHeadcount |-> Plain(Leads),
     getSalaryRegister |-> Params(Admins, {"month", "year"}),
     getLeaveLiability |-> Params(HR, {"year"}),
     queueExport |-> Untyped(HR, {"reportType", "format", "recipientEmail"})]

\* Nobody is signed in yet.
AuthRoutes ==
    [login |-> Dto(Everyone, {"email", "password", "tenantSlug"}, {"totpCode"}),
     forgotPassword |-> Dto(Everyone, {"email", "tenantSlug"}, {}),
     resetPassword |-> Dto(Everyone, {"token", "password"}, {})]

Routes == AuthRoutes @@ AssetRoutes @@ ExpenseRoutes @@ OnboardingRoutes @@ LearningRoutes @@ LeaveRoutes
              @@ AttendanceRoutes @@ RecruitmentRoutes @@ PerformanceRoutes @@ EmployeeRoutes
              @@ PayrollRoutes @@ ReportRoutes

\* RolesGuard, which runs before the pipes.
Admits(route, role) == role \in route.roles

\* The pipes of the route, of which ValidationPipe forbids unknown fields.
Refuses(route, sent) ==
    \/ route.checks \in {"all", "needs"} /\ ~(route.needs \subseteq sent)
    \/ route.checks = "all" /\ ~(sent \subseteq route.takes)
=============================================================================
