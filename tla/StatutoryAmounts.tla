--------------------------- MODULE StatutoryAmounts ---------------------------
(***************************************************************************)
(* Amounts of money that the program computes itself: by the rules of the  *)
(* domain, calculate_legal_formula of domain/legal_rules.py, and by the    *)
(* document routes, tools/legal_calculators.py, which has formulas of its  *)
(* own for some of the same questions.  The first is called by a function  *)
(* for agents (calculate_statutory_amounts) that is not among the tools    *)
(* they are offered; it is modelled as a function.                         *)
(*                                                                         *)
(* Money is counted in 100,000 VND and an amount is a fraction, so that    *)
(* the rounding to a dong is left out.  Numbers in a question are not      *)
(* negative; NotGiven stands for a number that is left out.  The words of  *)
(* a question are replaced by what the code finds in them.                 *)
(***************************************************************************)
EXTENDS Integers, Ranks

CONSTANT Problems  \* questions, each a record with the parameters of its kind

NotGiven == -1

(* What is asked of each kind of question. *)
Questions ==
         [kind : {"overtime"}, hourly : Nat, salary : Nat, days : Nat \ {0}, hours : Nat,
        day : {"weekday", "weekend", "holiday"}, night : BOOLEAN]
    \cup [kind : {"termination"}, salary : Nat, unworked : Nat \cup {NotGiven}, notice : Nat,
        worked : Nat, insured : BOOLEAN]
    \cup [kind : {"severance"}, salary : Nat, worked : Nat]
    \cup [kind : {"probation"}, official : Nat]
    \cup [kind : {"traffic"}, vehicle : STRING, alcohol : BOOLEAN, tier : 1 .. 3]
    \cup [kind : {"household"}, monthly : Nat, annual : Nat, sector : {"food", "retail", "other"}]
    \cup [kind : {"income"}, income : Nat, dependents : Nat, insurance : Nat]
    \cup [kind : {"interest"}, principal : Nat, overdue : Nat, rate : Nat \cup {NotGiven}, commercial : BOOLEAN]
    \cup [kind : {"damages"}, medical : Nat, property : Nat, caretaker : Nat, lost : Nat, months : Nat, salary : Nat]
    \cup [kind : {"court"}, claim : Nat, commercial : BOOLEAN, monetary : BOOLEAN]
    \cup [kind : {"land"}, value : Nat, family : BOOLEAN, onlyHome : BOOLEAN]
    \cup [kind : {"unreadable", "unknown"}]

ASSUME CalculationsAssumption == Problems \subseteq Questions

VARIABLES
    problem,    \* the question at hand
    ruleReply,  \* what the rules of the domain answer
    formReply   \* what the document route answers

amountVars == <<problem, ruleReply, formReply>>

NoReply     == [status |-> "none", amount |-> <<0, 1>>]
Reply(n, d) == [status |-> "ok", amount |-> <<n, d>>]
Same(a, b)  == a[1] * b[2] = b[1] * a[2]
OrZero(x)   == IF x = NotGiven THEN 0 ELSE x

-------------------------------------------------------------------------------
(* Formulas of both modules *)

(* Fault: the sixth month already counts as a whole year. *)
WholeYearFromSixMonths(months) ==
    LET odd == months % 12 IN
    IF months < 12 THEN 0
    ELSE 2 * (months \div 12) + (IF odd = 0 THEN 0 ELSE IF odd < 6 THEN 1 ELSE 2)

(* Half years of service that count: none in the first year; a part of a  *)
(* year up to six months is a half, a longer one a whole year.             *)
HalfYears(months) ==
    LET odd == months % 12 IN
    IF months < 12 THEN 0
    ELSE 2 * (months \div 12) + (IF odd = 0 THEN 0 ELSE IF odd <= 6 THEN 1 ELSE 2)

(* The years of the document routes: the same rule, written again. *)
CalculateQualifyingWorkingYears(months) ==
    LET odd == months % 12 IN
    IF months < 12 THEN 0
    ELSE 2 * (months \div 12) + (IF odd = 0 THEN 0 ELSE IF odd <= 6 THEN 1 ELSE 2)

-------------------------------------------------------------------------------
(* calculate_legal_formula *)

(* The hour's wage is the given one, or the month's over its hours. *)
OvertimePay(q) ==
    LET tenths == (CASE q.day = "weekday" -> 15 [] q.day = "weekend" -> 20 [] q.day = "holiday" -> 30)
                  + (IF q.night THEN 3 ELSE 0)
    IN  IF q.hourly > 0 THEN Reply(q.hourly * q.hours * tenths, 10)
        ELSE Reply(q.salary * q.hours * tenths, q.days * 80)

(* Two months, the months without work and the days without notice. *)
Termination(q) == Reply(q.salary * (26 * (2 + OrZero(q.unworked)) + q.notice), 26)

(* Half a month for each year that counts. *)
Severance(q) == Reply(q.salary * HalfYears(q.worked), 4)

ProbationFloor(q) == Reply(q.official * 85, 100)

(* Lowest and highest fine of each tier of a violation. *)
Tariff(car, alcohol) ==
    CASE car /\ alcohol   -> <<<<60, 80>>, <<160, 180>>, <<300, 400>>>>
      [] ~car /\ alcohol  -> <<<<20, 30>>, <<40, 50>>, <<60, 80>>>>
      [] car /\ ~alcohol  -> <<<<40, 60>>>>
      [] ~car /\ ~alcohol -> <<<<8, 10>>>>

(* "oto" is found in "motorbike" and "o to" in "xe mo to". *)
LooksLikeCar == {"car", "o to", "motorbike", "xe mo to"}

(* Halfway between the two. *)
TrafficFine(q) ==
    LET tiers == Tariff(q.vehicle \in LooksLikeCar, q.alcohol)
        fine  == tiers[IF q.alcohol THEN q.tier ELSE 1]
    IN  Reply(fine[1] + fine[2], 2)

(* A month's tax; revenue of a year up to the threshold is exempt. *)
SectorRate(sector) == CASE sector = "food" -> 45 [] sector = "retail" -> 15 [] sector = "other" -> 70

HouseholdTax(q) ==
    LET annual == IF q.monthly > 0 THEN 12 * q.monthly ELSE q.annual
    IN  IF annual > 0 /\ annual <= 1000 THEN Reply(0, 1)
        ELSE Reply(q.monthly * SectorRate(q.sector), 1000)

(* The layers of a taxable income: where each begins, its width (0: no    *)
(* end) and its rate.                                                      *)
Brackets == <<[from |-> 0,   width |-> 50,  rate |-> 50],  [from |-> 50,  width |-> 50,  rate |-> 100],
              [from |-> 100, width |-> 80,  rate |-> 150], [from |-> 180, width |-> 140, rate |-> 200],
              [from |-> 320, width |-> 200, rate |-> 250], [from |-> 520, width |-> 280, rate |-> 300],
              [from |-> 800, width |-> 0,   rate |-> 350]>>

Layer(b, income) ==
    IF income <= b.from THEN 0
    ELSE b.rate * (IF b.width > 0 /\ income > b.from + b.width THEN b.width ELSE income - b.from)

TaxOn(income) ==
    Layer(Brackets[1], income) + Layer(Brackets[2], income) + Layer(Brackets[3], income)
      + Layer(Brackets[4], income) + Layer(Brackets[5], income) + Layer(Brackets[6], income)
      + Layer(Brackets[7], income)

Assessable(q) == LET deducted == 110 + 44 * q.dependents + q.insurance
                 IN  IF q.income > deducted THEN q.income - deducted ELSE 0

IncomeTax(q) == Reply(TaxOn(Assessable(q)), 1000)

(* Ten per cent a year when none is agreed; twenty at most, unless the    *)
(* contract is commercial.                                                 *)
LegalRate(rate, commercial) ==
    LET agreed == IF rate > 0 THEN rate ELSE 10
    IN  IF agreed > 20 /\ ~commercial THEN 20 ELSE agreed

Interest(q) == Reply(q.principal * LegalRate(OrZero(q.rate), q.commercial) * q.overdue, 36500)

(* Lost income is the given one, or months times a month's income. *)
Damages(q) == Reply(q.medical + q.property + q.caretaker +
                    (IF q.lost > 0 THEN q.lost ELSE q.months * q.salary), 1)

CalculateLegalFormula(q) ==
    CASE q.kind = "overtime"    -> OvertimePay(q)
      [] q.kind = "termination" -> Termination(q)
      [] q.kind = "severance"   -> Severance(q)
      [] q.kind = "probation"   -> ProbationFloor(q)
      [] q.kind = "traffic"     -> TrafficFine(q)
      [] q.kind = "household"   -> HouseholdTax(q)
      [] q.kind = "income"      -> IncomeTax(q)
      [] q.kind = "interest"    -> Interest(q)
      [] q.kind = "damages"     -> Damages(q)
      [] q.kind = "unreadable"  -> [NoReply EXCEPT !.status = "error"]
      [] OTHER                  -> [NoReply EXCEPT !.status = "unsupported"]

-------------------------------------------------------------------------------
(* tools/legal_calculators.py *)

(* Rows of the fee tables: up to which claim, and the fee as a fixed part *)
(* and per mille of what exceeds a limit.                                  *)
Row(upTo, fixed, over, rate) == [upTo |-> upTo, fixed |-> fixed, over |-> over, rate |-> rate]
CivilFees      == <<Row(60, 3, 0, 0), Row(4000, 0, 0, 50), Row(8000, 200, 4000, 40),
                    Row(20000, 360, 8000, 30), Row(40000, 720, 20000, 20), Row(0, 1120, 40000, 1)>>
CommercialFees == <<Row(600, 30, 0, 0), Row(4000, 0, 0, 50), Row(20000, 200, 4000, 40),
                    Row(40000, 840, 20000, 30), Row(0, 1440, 40000, 1)>>

CourtFee(q) ==
    LET table == IF q.commercial THEN CommercialFees ELSE CivilFees
        row   == table[Min({i \in DOMAIN table : q.claim <= table[i].upTo \/ table[i].upTo = 0})]
    IN  IF ~q.monetary \/ q.claim = 0 THEN Reply(table[1].fixed, 1)
        ELSE Reply(1000 * row.fixed + (q.claim - row.over) * row.rate, 1000)

(* The same, and severance for those without unemployment insurance; two  *)
(* months without work when no number is given.                            *)
IllegalTermination(q) ==
    LET unworked == IF q.unworked = NotGiven THEN 2 ELSE q.unworked
        halves   == IF q.insured THEN 0 ELSE CalculateQualifyingWorkingYears(q.worked)
    IN  Reply(q.salary * (2 * q.notice + 52 * (2 + unworked) + 13 * halves), 52)

SeveranceAllowance(q) == Reply(q.salary * CalculateQualifyingWorkingYears(q.worked), 4)

(* The agreed rate, ten when none is given. *)
OverdueInterest(q) ==
    LET agreed == IF q.rate = NotGiven THEN 10 ELSE q.rate
        rate   == IF agreed > 20 /\ ~q.commercial THEN 20 ELSE agreed
    IN  Reply(q.principal * rate * q.overdue, 36500)

(* Income tax of 2 % and registration fee of 0.5 %, and the notary. *)
LandTransfer(q) ==
    LET rate == IF q.family THEN 0 ELSE IF q.onlyHome THEN 5 ELSE 25
    IN  Reply(q.value * rate + 1000 * (IF q.value <= 10000 THEN 20 ELSE 50), 1000)

FormKinds == {"court", "termination", "severance", "interest", "land"}

Form(q) ==
    CASE q.kind = "court"       -> CourtFee(q)
      [] q.kind = "termination" -> IllegalTermination(q)
      [] q.kind = "severance"   -> SeveranceAllowance(q)
      [] q.kind = "interest"    -> OverdueInterest(q)
      [] q.kind = "land"        -> LandTransfer(q)

-------------------------------------------------------------------------------
AmountsInit ==
    /\ problem \in Problems
    /\ ruleReply = NoReply /\ formReply = NoReply

ApplyRules ==
    /\ ruleReply = NoReply
    /\ ruleReply' = CalculateLegalFormula(problem)
    /\ UNCHANGED <<problem, formReply>>

UseForm ==
    /\ formReply = NoReply /\ problem.kind \in FormKinds
    /\ formReply' = Form(problem)
    /\ UNCHANGED <<problem, ruleReply>>

AmountsNext == ApplyRules \/ UseForm

AmountsSpec == AmountsInit /\ [][AmountsNext]_amountVars

-------------------------------------------------------------------------------
(* The fee by layers: each part of the claim at the rate of its layer, and *)
(* never less than the fixed fee of a small claim.                         *)
LayerFee(r, claim) ==
    IF claim <= r.over THEN 0
    ELSE r.rate * ((IF r.upTo = 0 \/ claim < r.upTo THEN claim ELSE r.upTo) - r.over)

FeeByLayers(q) ==
    LET table   == IF q.commercial THEN CommercialFees ELSE CivilFees
        layered == LayerFee(table[2], q.claim) + LayerFee(table[3], q.claim) + LayerFee(table[4], q.claim)
                     + LayerFee(table[5], q.claim) + (IF q.commercial THEN 0 ELSE LayerFee(table[6], q.claim))
        least   == 1000 * (IF q.commercial THEN 30 ELSE 3)
    IN  IF layered > least THEN layered ELSE least

(* The questions on which the two formulas are to agree: about severance,  *)
(* about a termination of the insured, who get no severance beside the     *)
(* compensation, when the months without work are given, and about         *)
(* interest unless the rate is given as zero.  On the others they differ:  *)
(* only the document routes add the severance of the uninsured and take    *)
(* two months when none are given, and only the rules of the domain take   *)
(* ten per cent for a rate of zero.                                        *)
Comparable(q) ==
    \/ q.kind = "severance"
    \/ q.kind = "termination" /\ q.insured /\ q.unworked # NotGiven
    \/ q.kind = "interest" /\ q.rate # 0

(* The rules of the domain and the document routes name the same amount    *)
(* for a comparable question, although their formulas are written twice;   *)
(* the court fee is the one by layers, at the joints of the fee table too; *)
(* and a higher salary never leaves less after tax.                        *)
AmountsAreConsistent ==
    /\ (ruleReply # NoReply /\ formReply # NoReply /\ Comparable(problem)) =>
        Same(ruleReply.amount, formReply.amount)
    /\ (problem.kind = "court" /\ formReply # NoReply /\ problem.monetary /\ problem.claim > 0) =>
        Same(formReply.amount, <<FeeByLayers(problem), 1000>>)
    /\ (problem.kind = "income" /\ ruleReply # NoReply) =>
        LET more == [problem EXCEPT !.income = @ + 1] IN
        TaxOn(Assessable(more)) - ruleReply.amount[1] \in 0 .. 350
===============================================================================
