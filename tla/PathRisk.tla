------------------------------ MODULE PathRisk ------------------------------
(***************************************************************************)
(* The score and the likelihood of an attack path.  Both are derived from  *)
(* one reading of the path's vertices, hop by hop, and from what the       *)
(* customer's threat intelligence says about it.  The weights are those of *)
(* the code in integers: contributions in hundredths of a point, factors   *)
(* in tenths, the exploitability in hundredths.                            *)
(*                                                                         *)
(* A state is a path, built by appending hops; the sums are exact where    *)
(* the code adds floating-point numbers.                                   *)
(***************************************************************************)
EXTENDS Integers, TLC, SequencesExt, FiniteSetsExt

CONSTANTS
    Hops,               \* the vertices a path may go through
    Epss,               \* the EPSS scores on the customer's lists, in hundredths
    MaxLength           \* bound of the model: hops of a path

VARIABLES path
vars == <<path>>

NoScore == -1

-----------------------------------------------------------------------------
(* riskInputFromPath(): a fold over the vertices, from the entry on.       *)

Unread == [exposure |-> "internal", class |-> "public", env |-> "dev", crown |-> FALSE,
           identity |-> "none", cvss |-> NoScore, exploit |-> FALSE,
           restricted |-> FALSE, observed |-> FALSE]

\* Mutant: the last vertex that names an environment decides.
LastEnvironment(v, input) == IF v.env \in {"prod", "staging"} THEN v.env ELSE input.env

EnvironmentAfter(v, input) ==
    IF v.env = "prod" \/ (v.env = "staging" /\ input.env # "prod") THEN v.env ELSE input.env

\* Admin dominates and is not downgraded by a later cross-account vertex.
IdentityAfter(v, input) ==
    IF v.admin THEN "admin"
    ELSE IF v.cross /\ input.identity # "admin" THEN "cross-account" ELSE input.identity

\* The higher score, where NoScore is below every score.
HigherOf(a, b) == IF a > b THEN a ELSE b

ReadVertex(v, input) ==
    [exposure   |-> IF v.exposed THEN "internet" ELSE input.exposure,
     class      |-> IF v.class \in {"restricted", "secret"} THEN v.class ELSE input.class,
     env        |-> EnvironmentAfter(v, input),
     crown      |-> input.crown \/ v.crown,
     identity   |-> IdentityAfter(v, input),
     cvss       |-> HigherOf(input.cvss, v.cvss),
     exploit    |-> input.exploit \/ v.exploit,
     restricted |-> input.restricted \/ v.restricted,
     observed   |-> input.observed \/ v.observed]

\* A vulnerability on the path is what makes `exploitability` present.
RiskInputFromPath(p) ==
    LET read == FoldLeft(LAMBDA input, v : ReadVertex(v, input), Unread, p)
    IN [input |-> read, length |-> Len(p), indicators |-> FALSE,
        exploitability |-> [present |-> read.cvss # NoScore \/ read.exploit,
                            cvss |-> read.cvss, exploit |-> read.exploit, epss |-> 0]]

\* riskInputWithThreatIntel(): known exploitation and the highest EPSS score of the matches.
WithThreatIntel(risk, known, epss) ==
    [risk EXCEPT !.indicators = TRUE,
                 !.exploitability.present = @ \/ known \/ epss > 0,
                 !.exploitability.exploit = @ \/ known,
                 !.exploitability.epss = epss]

-----------------------------------------------------------------------------
(* exploitabilityValue(), shared by the score and the likelihood.          *)

UNKNOWN == 50       \* hundredths

CvssValue(cvss) == IF cvss = NoScore THEN UNKNOWN ELSE 10 * cvss

ExploitabilityValue(e) ==
    Min({100, Max({CvssValue(e.cvss), e.epss}) + IF e.exploit THEN 20 ELSE 0})

-----------------------------------------------------------------------------
(* computeRiskScore(), in hundredths of a point up to 100.                 *)

ExposureWeight == [internet |-> 3000, internal |-> 900]
IdentityWeight == [admin |-> 2500, none |-> 0] @@ ("cross-account" :> 1750)
ClassWeight == [secret |-> 2500, restricted |-> 2000, internal |-> 1250, public |-> 250]
EnvironmentWeight == [prod |-> 2000, staging |-> 1200, dev |-> 600]

TotalScore(risk) ==
    Min({10000,
         ExposureWeight[risk.input.exposure]
         + IdentityWeight[risk.input.identity]
         + ClassWeight[risk.input.class] + EnvironmentWeight[risk.input.env]
         + (IF risk.input.crown THEN 5000 ELSE 0) + Max({0, (6 - risk.length) * 1000})
         + (IF risk.exploitability.present THEN 15 * ExploitabilityValue(risk.exploitability) ELSE 0)
         + (IF risk.indicators THEN 1000 ELSE 0)})

SeverityOf(score) ==
    IF score >= 8000 THEN "critical" ELSE IF score >= 6000 THEN "high"
    ELSE IF score >= 4000 THEN "medium" ELSE "low"

ComputeRiskScore(risk) ==
    [score |-> (TotalScore(risk) + 5) \div 10, severity |-> SeverityOf(TotalScore(risk))]

-----------------------------------------------------------------------------
(* pathLikelihood(): a product of factors, rounded to four decimals; and   *)
(* how much the age of the graph tempers it (coverageLevelForAge).         *)

CoverageLevelForAge(hours) ==
    IF hours <= 8 THEN "fresh" ELSE IF hours <= 72 THEN "aging" ELSE "stale"
CoverageFactor == [fresh |-> 10, aging |-> 8, stale |-> 5, unknown |-> 10]

ExposureFactor == [internet |-> 10, internal |-> 3]
PrivilegeFactor == [admin |-> 10, none |-> 5] @@ ("cross-account" :> 7)

\* Observed traffic proves what a restricted read left unknown.
Reachability(input) == IF input.restricted /\ ~input.observed THEN 5 ELSE 10

PathLikelihood(risk, level) ==
    (ExposureFactor[risk.input.exposure]
     * PrivilegeFactor[risk.input.identity]
     * (IF risk.exploitability.present THEN ExploitabilityValue(risk.exploitability) ELSE UNKNOWN)
     * Reachability(risk.input) * CoverageFactor[level] + 50) \div 100

-----------------------------------------------------------------------------
Init == path = << >>
Hop == Len(path) < MaxLength /\ \E v \in Hops : path' = Append(path, v)
Next == Hop
Spec == Init /\ [][Next]_vars

-----------------------------------------------------------------------------
Matches == {[known |-> k, epss |-> e] : k \in BOOLEAN, e \in Epss \cup {0}}
With(m) == WithThreatIntel(RiskInputFromPath(path), m.known, m.epss)
Levels == {CoverageLevelForAge(h) : h \in {8, 72, 73}} \cup {"unknown"}

(* Type correctness: scores and likelihoods stay on their scales, with     *)
(* every match and every age of the graph.                                 *)
TypeOK ==
    \A m \in Matches : /\ ComputeRiskScore(With(m)).score \in 0..1000
                       /\ \A l \in Levels : PathLikelihood(With(m), l) \in 0..10000

(* The same hops met in the opposite order make the same judgement, the    *)
(* data classification apart: nothing a vertex establishes is taken back   *)
(* by a later one (riskInputFromPath).                                     *)
HopOrderDoesNotMatter ==
    LET ahead == RiskInputFromPath(path)
        back == RiskInputFromPath(Reverse(path))
    IN [back EXCEPT !.input.class = ahead.input.class] = ahead

(* A match of the customer's intelligence never makes a path look better:  *)
(* neither its score nor its likelihood goes down, whatever the path       *)
(* already says of its vulnerabilities (riskInputWithThreatIntel).         *)
MatchesNeverReassure ==
    LET plain == RiskInputFromPath(path)
    IN \A m \in Matches : /\ TotalScore(With(m)) >= TotalScore(plain)
                          /\ \A l \in Levels :
                                PathLikelihood(With(m), l) >= PathLikelihood(plain, l)
=============================================================================
