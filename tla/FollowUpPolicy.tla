--------------------------- MODULE FollowUpPolicy ---------------------------
(***************************************************************************)
(* Which follow-ups of a research cycle the console offers and which it    *)
(* launches by itself: SsaReplFollowUpPolicy.plan() without its awaits.    *)
(*                                                                         *)
(* A candidate is a kind of follow-up and the entity it is about, so two   *)
(* sources that name the same entity make one candidate.  Scores are in    *)
(* ten-thousandths, the parts of a score in hundredths.  A temporal        *)
(* pattern changes the wording and the references of a candidate that is   *)
(* already scored, and is left out.                                        *)
(***************************************************************************)
EXTENDS Integers, FiniteSets

CONSTANT NoEntity   \* the id of a hint that names none

Deep == "deep_research_30d"
Pc == "sim_pc_verification"
Telemetry == "sim_telemetry_verification"
Audit == "sweep_targeted_audit"
Kinds == {Deep, Pc, Telemetry, Audit}

\* A signal is what the cycle answered about its verification and where its
\* findings point: the reason codes, the confidence, whether the query asks for
\* 30 days itself, and the first conjunction, satellite and country among the
\* hints and among the edges.
EntityOf == [k \in Kinds \ {Deep} |->
               CASE k = Pc -> "conjunction_event"
                 [] k = Telemetry -> "satellite"
                 [] k = Audit -> "operator_country"]

\* extractCandidatesFromVerification() and extractCandidatesFromEdges(), one
\* candidate per kind and entity.
Candidates(v) ==
  LET deep == /\ ~v.asks30
              /\ v.codes \cap {"horizon_insufficient", "needs_monitoring",
                               "budget_exhausted", "iteration_limit_reached"} # {}
      aimed == {[kind |-> kp[1], id |-> kp[2][2]] :
                  kp \in {x \in (Kinds \ {Deep}) \X (v.hints \cup v.edges) :
                           /\ x[2][1] = EntityOf[x[1]]
                           /\ x[1] # Pc => "data_gap" \in v.codes}}
  IN IF ~v.needed THEN {}
     ELSE aimed \cup IF deep THEN {[kind |-> Deep, id |-> NoEntity]} ELSE {}

Least(S) == CHOOSE x \in S : \A y \in S : x <= y

Actionability(c, v) ==
  CASE c.kind = Deep -> IF v.codes \cap {"horizon_insufficient", "needs_monitoring"} # {}
                        THEN 85 ELSE 60
    [] c.kind = Pc -> 90
    [] c.kind = Telemetry -> IF "data_gap" \in v.codes THEN 82 ELSE 55
    [] c.kind = Audit -> IF "data_gap" \in v.codes THEN 78 ELSE 45

Targetability(c) ==
  CASE c.kind = Deep -> 85
    [] c.kind \in {Pc, Telemetry} -> IF c.id = NoEntity THEN 0 ELSE 100
    [] c.kind = Audit -> 100

ExpectedYield(c, v) ==
  CASE c.kind = Deep -> IF "budget_exhausted" \in v.codes THEN 80 ELSE 70
    [] c.kind = Pc -> IF "needs_monitoring" \in v.codes THEN 82 ELSE 70
    [] c.kind = Telemetry -> IF "low_confidence_round" \in v.codes THEN 76 ELSE 68
    [] c.kind = Audit -> 70

Confidence(c, v) ==
  LET floor == IF c.kind = Deep THEN 60 ELSE 65
  IN IF v.confidence < floor THEN floor ELSE v.confidence

CostPenalty == [k \in Kinds |-> CASE k = Deep -> 12
                                  [] k \in {Pc, Telemetry} -> 14
                                  [] k = Audit -> 6]

\* scoreCandidate().
Score(c, v) ==
  30 * Actionability(c, v) + 25 * Targetability(c) + 25 * ExpectedYield(c, v)
    + 20 * Confidence(c, v) - 100 * CostPenalty[c.kind]

Gate(c, v) == Least({Actionability(c, v), Targetability(c), Confidence(c, v)})

AutoEligible(c, v) == Score(c, v) >= 6500 /\ Gate(c, v) >= 55

\* roundScore().
Rounded(score) == (score + 5) \div 10

\* The candidates of S none of S is ranked before.  Two entities of one kind
\* have one score and the order of their sources, which is not kept.
Best(S, v) == {c \in S : \A d \in S : Rounded(Score(d, v)) <= Rounded(Score(c, v))}

\* The loop over the ranked candidates: the best research and the best proof
\* that may be launched are, a proof only when its target can be (canAutoLaunch).
MayLaunch(v, canStart, used) ==
  {c \in Candidates(v) : /\ AutoEligible(c, v)
                         /\ IF c.kind = Deep THEN ~used ELSE c.kind \in canStart}

\* The candidates of S, a better one before a worse one.
Ordered(S, v) ==
  {q \in [1..Cardinality(S) -> S] :
     /\ {q[i] : i \in DOMAIN q} = S
     /\ \A i, j \in DOMAIN q : i < j => Rounded(Score(q[j], v)) <= Rounded(Score(q[i], v))}

\* Mutant of AutoLaunched: a kind may be launched for several entities.
AutoLaunchedAll(v, canStart, used) == Ordered(MayLaunch(v, canStart, used), v)

\* The lists of follow-ups plan() may launch by itself, in the order it launches
\* them; used tells that the query had its 30 days already.
AutoLaunched(v, canStart, used) ==
  LET may == MayLaunch(v, canStart, used)
      research == {c \in may : c.kind = Deep}
      proofs == Best(may \ research, v)
  IN UNION {Ordered(S, v) : S \in IF proofs = {} THEN {research}
                                  ELSE {research \cup {c} : c \in proofs}}
=============================================================================
