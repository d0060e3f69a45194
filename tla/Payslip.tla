------------------------------ MODULE Payslip -------------------------------
(***************************************************************************)
(* computeEmployeePayroll: from the days of loss of pay to the net pay,    *)
(* through the components of the salary and the statutory plugin of the    *)
(* country.  Amounts are in hundredths, as the code rounds them; floating  *)
(* point is not modelled.                                                  *)
(***************************************************************************)
EXTENDS LossOfPay

CONSTANTS
    Weekend,  \* the Saturdays and Sundays of the month
    Basics    \* basic salaries

ASSUME PayslipAssumption == Weekend \subseteq Month /\ Basics \subseteq Nat /\ Basics # {}

\* A month has at most 31 days, and at most a third of them are Saturdays and
\* Sundays: 8 of 28, 9 of 29, and 10 of 30 or 31.
ASSUME CalendarAssumption == LastDay =< 31 /\ 3 * Cardinality(Weekend) =< LastDay

\* percent is that of a component whose calculationType is "percentage".
Contracts == [basic : Basics, percent : {0, 25}, country : {"IN", "US", "GB", "AE"}]

WorkingDays == Cardinality(Month \ Weekend)

\* parseFloat((a / b).toFixed(2)), half away from zero.
Rounded(a, b) == IF a >= 0 THEN (2 * a + b) \div (2 * b) ELSE -((b - 2 * a) \div (2 * b))

\* Fault: the share of the days of the calendar.
AfterLopOfMonth(value, lop) == Rounded(value * (LastDay - lop), LastDay)

\* A value times lopFactor, which is 1 when there is no working day.  Nothing
\* keeps the factor from being negative.
AfterLop(value, lop) ==
    IF WorkingDays = 0 THEN value ELSE Rounded(value * (WorkingDays - lop), WorkingDays)

\* FormulaEngineService.evaluate of a share of another component.
Formula(value, percent) == Max({0, Rounded(value * percent, 100)})

\* The earnings the seed configures besides BASIC: two fixed amounts, and the
\* percents of BASIC in the formula of HRA.
Seed == [CONVEYANCE |-> 160000, MEDICAL |-> 125000, HRA |-> 40]

\* The loop over the components: HRA is a formula over what is left of BASIC,
\* and is reduced once more.  So is a percentage.
Earnings(c, lop) ==
    LET basic == AfterLop(c.basic, lop) IN
    [BASIC      |-> basic,
     HRA        |-> AfterLop(Formula(basic, Seed.HRA), lop),
     CONVEYANCE |-> AfterLop(Seed.CONVEYANCE, lop),
     MEDICAL    |-> AfterLop(Seed.MEDICAL, lop),
     SHARE      |-> AfterLop((basic * c.percent) \div 100, lop)]

Gross(c, lop) ==
    LET e == Earnings(c, lop) IN e.BASIC + e.HRA + e.CONVEYANCE + e.MEDICAL + e.SHARE

\* IndiaPayrollPlugin: PF, ESI and professional tax.
IndiaDeductions(basic, gross) ==
    Rounded(Min({basic, 1500000}) * 12, 100)
        + (IF gross =< 2100000 THEN Rounded(gross * 75, 10000) ELSE 0)
        + (IF gross > 1500000 THEN 20000 ELSE IF gross > 1000000 THEN 15000 ELSE 0)

\* UsPayrollPlugin: social security and medicare.
UsDeductions(gross) == Rounded(gross * 62, 1000) + Rounded(gross * 145, 10000)

\* UkPayrollPlugin: national insurance between its two limits.
UkDeductions(gross) == Rounded(Max({0, Min({gross, 418900}) - 104750}) * 8, 100)

\* UaePayrollPlugin has none.  Other countries are paid like India.
Deductions(c, lop) ==
    CASE c.country = "US" -> UsDeductions(Gross(c, lop))
      [] c.country = "GB" -> UkDeductions(Gross(c, lop))
      [] c.country = "AE" -> 0
      [] OTHER -> IndiaDeductions(Earnings(c, lop).BASIC, Gross(c, lop))

NetPay(c, lop) == Gross(c, lop) - Deductions(c, lop)

----------------------------------------------------------------------------
\* What the gross may exceed its share by: the rounding of each component.
Slack == Cardinality({"BASIC", "HRA", "CONVEYANCE", "MEDICAL", "SHARE"})

\* The days of loss of pay up to the working days that leave a gross of at
\* most the share of the days worked, and a net that is not negative.
Proportionate ==
    {lop \in 0..WorkingDays : \A c \in Contracts :
        /\ (Gross(c, lop) - Slack) * WorkingDays =< Gross(c, 0) * (WorkingDays - lop)
        /\ NetPay(c, lop) >= 0}

\* The days of loss of pay that leave nobody more than fewer of them would,
\* across the steps of the tables of each country.
Ordered ==
    {lop \in 0..LastDay : \A c \in Contracts : \A fewer \in 0..lop :
        NetPay(c, fewer) >= NetPay(c, lop)}

\* The days that leave everybody a negative net.
Negative == {lop \in 0..LastDay : \A c \in Contracts : NetPay(c, lop) < 0}

\* As long as the days of loss of pay are working days, nobody is paid more
\* than the share of the days worked, or owes money; what is derived from
\* BASIC is reduced twice.  Absences of the weekend count too: beyond the
\* working days, and only there, the payslip is negative.  More days never
\* leave more.
PayIsProportionate ==
    /\ LopDays =< WorkingDays => LopDays \in Proportionate
    /\ LopDays > WorkingDays <=> LopDays \in Negative
    /\ LopDays \in Ordered
=============================================================================
