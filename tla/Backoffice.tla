----------------------------- MODULE Backoffice -----------------------------
(***************************************************************************)
(* The smaller services and the pages of the web, one specification for    *)
(* all of them: a behaviour is about the office its first state names.     *)
(***************************************************************************)
EXTENDS Assets, Expenses, Onboarding, Shifts, Recruitment, Performance, Learning, Employees,
        Mfa, Pages

Init ==
    \/ AssetsInit \/ ExpensesInit \/ OnboardingInit \/ ShiftsInit \/ RecruitmentInit
    \/ PerformanceInit \/ LearningInit \/ EmployeesInit \/ MfaInit \/ PagesInit

Next ==
    \/ AssetsNext \/ ExpensesNext \/ OnboardingNext \/ ShiftsNext \/ RecruitmentNext
    \/ PerformanceNext \/ LearningNext \/ EmployeesNext \/ MfaNext \/ PagesNext

Spec == Init /\ [][Next]_vars

----------------------------------------------------------------------------
\* The rows, the handlers in flight and the pages of the office at work have
\* their types: no interleaving writes a status, a step, a date or a weight
\* the columns do not take.
TypeOK ==
    CASE office = "assets"      -> AssetsTypeOK
      [] office = "expenses"    -> ExpensesTypeOK
      [] office = "onboarding"  -> OnboardingTypeOK
      [] office = "shifts"      -> ShiftsTypeOK
      [] office = "recruitment" -> RecruitmentTypeOK
      [] office = "performance" -> PerformanceTypeOK
      [] office = "learning"    -> LearningTypeOK
      [] office = "employees"   -> EmployeesTypeOK
      [] office = "mfa"         -> MfaTypeOK
      [] office = "pages"       -> PagesTypeOK
=============================================================================
