------------------------ MODULE DecisionPolicyProofs ------------------------
(***************************************************************************)
(* Proofs about the decision functions: the quiet hours for every length   *)
(* of the day and every hour, the safety policy for every context and      *)
(* setting, and the engine's choice for every score.                       *)
(***************************************************************************)
EXTENDS DecisionPolicy, TLAPS

-----------------------------------------------------------------------------
(* Hours of a day *)

LEMMA DivMod ==
    ASSUME NEW d \in Nat \ {0}, NEW a \in Int
    PROVE  /\ a % d \in 0..(d - 1)
           /\ a \div d \in Int
           /\ a = d * (a \div d) + (a % d)
OBVIOUS

LEMMA AtLeastOnce ==
    ASSUME NEW d \in Nat \ {0}, NEW n \in Int, n >= 1
    PROVE  n * d >= d
OBVIOUS

LEMMA RemainderUnique ==
    ASSUME NEW d \in Nat \ {0}, NEW q \in Int, NEW p \in Int,
           NEW r \in 0..(d - 1), NEW s \in 0..(d - 1), d * q + r = d * p + s
    PROVE  r = s
<1>1. d * (q - p) = s - r /\ d * (p - q) = r - s
  OBVIOUS
<1>2. CASE q - p >= 1
  BY <1>1, <1>2, AtLeastOnce
<1>3. CASE p - q >= 1
  BY <1>1, <1>3, AtLeastOnce
<1>4. CASE p = q
  BY <1>4
<1> QED BY <1>2, <1>3, <1>4

\* The hour of a day that is q days and r hours away.
LEMMA HourOf ==
    ASSUME NEW d \in Nat \ {0}, NEW q \in Int, NEW r \in 0..(d - 1)
    PROVE  (d * q + r) % d = r
BY DivMod, RemainderUnique

LEMMA Hour ==
    ASSUME NEW t \in Int
    PROVE  t % DayLength \in 0..(DayLength - 1)
BY DayAssumption, DivMod

\* The hours shifted by `start' that the reference compares.
LEMMA Shifted ==
    ASSUME NEW t \in Int, NEW start \in 0..(DayLength - 1)
    PROVE  (t + DayLength - start) % DayLength =
               IF t % DayLength >= start THEN (t % DayLength) - start
               ELSE (t % DayLength) + DayLength - start
<1> DEFINE m == t % DayLength
           q == t \div DayLength
<1>1. /\ DayLength \in Nat \ {0} /\ q \in Int /\ m \in 0..(DayLength - 1)
      /\ t = DayLength * q + m
  BY DayAssumption, DivMod
<1> HIDE DEF m, q
<1>2. CASE m >= start
  <2>1. t + DayLength - start = DayLength * (q + 1) + (m - start)
    BY <1>1
  <2>2. m - start \in 0..(DayLength - 1) /\ q + 1 \in Int
    BY <1>1, <1>2
  <2>3. (t + DayLength - start) % DayLength = m - start
    BY <1>1, <2>1, <2>2, HourOf
  <2> QED BY <1>2, <2>3 DEF m
<1>3. CASE ~(m >= start)
  <2>1. t + DayLength - start = DayLength * q + (m + DayLength - start)
    BY <1>1
  <2>2. m + DayLength - start \in 0..(DayLength - 1)
    BY <1>1, <1>3
  <2>3. (t + DayLength - start) % DayLength = m + DayLength - start
    BY <1>1, <2>1, <2>2, HourOf
  <2> QED BY <1>3, <2>3 DEF m
<1> QED BY <1>2, <1>3

\* The reference, in hours of the day.
LEMMA QuietByHour ==
    ASSUME NEW t \in Int, NEW quiet \in QuietHours
    PROVE  Quiet(t, quiet) <=>
               IF quiet[1] < quiet[2]
               THEN quiet[1] <= t % DayLength /\ t % DayLength < quiet[2]
               ELSE quiet[1] <= t % DayLength \/ t % DayLength < quiet[2]
<1> DEFINE start == quiet[1]
           end == quiet[2]
           m == t % DayLength
<1>1. /\ start \in 0..(DayLength - 1) /\ end \in 0..(DayLength - 1) /\ start # end
      /\ DayLength \in Nat \ {0} /\ m \in 0..(DayLength - 1)
  BY DayAssumption, Hour DEF QuietHours
<1>2. end % DayLength = end
  <2>1. DayLength * 0 + end = end
    BY <1>1
  <2>2. (DayLength * 0 + end) % DayLength = end
    BY <1>1, HourOf
  <2> QED BY <2>1, <2>2
<1>3. (t + DayLength - start) % DayLength =
          IF m >= start THEN m - start ELSE m + DayLength - start
  BY <1>1, Shifted
<1>4. (end + DayLength - start) % DayLength =
          IF end >= start THEN end - start ELSE end + DayLength - start
  <2>1. end \in Int
    BY <1>1
  <2> HIDE DEF start, end
  <2> QED BY <1>1, <1>2, <2>1, Shifted
<1>5. Quiet(t, quiet) <=>
          (t + DayLength - start) % DayLength < (end + DayLength - start) % DayLength
  BY DEF Quiet
<1> HIDE DEF start, end, m
<1>6. Quiet(t, quiet) <=> IF start < end THEN start <= m /\ m < end
                          ELSE start <= m \/ m < end
  BY <1>1, <1>3, <1>4, <1>5
<1> QED BY <1>6 DEF start, end, m

\* quiet_hours_delay_until is right: inside the quiet interval, around midnight
\* or not, it is the first instant after it, and outside it there is no delay.
THEOREM QuietHoursAreExact ==
    ASSUME NEW now \in Nat, NEW quiet \in QuietHours
    PROVE  /\ QuietEndIsExact(now, quiet)
           /\ QuietEnd(now, quiet) \in IF Quiet(now, quiet) THEN Nat ELSE {None}
<1> DEFINE start == quiet[1]
           end == quiet[2]
           local == now % DayLength
           q == now \div DayLength
           midnight == now - local
           until == QuietEnd(now, quiet)
<1>1. /\ start \in 0..(DayLength - 1) /\ end \in 0..(DayLength - 1) /\ start # end
      /\ DayLength \in Nat \ {0} /\ local \in 0..(DayLength - 1)
      /\ q \in Int /\ now = DayLength * q + local /\ midnight = DayLength * q
      /\ now = midnight + local
  BY DayAssumption, DivMod DEF QuietHours
<1>2. midnight >= 0
  <2>1. CASE q >= 0
    BY <1>1, <2>1
  <2>2. CASE q < 0
    <3>1. (0 - q) * DayLength >= DayLength
      BY <1>1, <2>2, AtLeastOnce
    <3> QED BY <1>1, <3>1
  <2> QED BY <1>1, <2>1, <2>2
<1>3. ASSUME NEW t \in Int
      PROVE  /\ t - midnight \in 0..(DayLength - 1) => t % DayLength = t - midnight
             /\ t - midnight - DayLength \in 0..(DayLength - 1)
                    => t % DayLength = t - midnight - DayLength
  <2>1. t = DayLength * q + (t - midnight)
    BY <1>1
  <2>2. t = DayLength * (q + 1) + (t - midnight - DayLength)
    BY <1>1
  <2> HIDE DEF midnight, q, local
  <2>3. ASSUME t - midnight \in 0..(DayLength - 1) PROVE t % DayLength = t - midnight
    BY <1>1, <2>1, <2>3, HourOf
  <2>4. ASSUME t - midnight - DayLength \in 0..(DayLength - 1)
        PROVE  t % DayLength = t - midnight - DayLength
    <3>1. q + 1 \in Int
      BY <1>1
    <3> QED BY <1>1, <2>2, <2>4, <3>1, HourOf
  <2> QED BY <2>3, <2>4
<1>4. ASSUME NEW t \in Int
      PROVE  Quiet(t, quiet) <=>
                 IF start < end THEN start <= t % DayLength /\ t % DayLength < end
                 ELSE start <= t % DayLength \/ t % DayLength < end
  BY QuietByHour
<1>5. until = IF start < end
              THEN IF start <= local /\ local < end THEN midnight + end ELSE None
              ELSE IF local >= start THEN midnight + DayLength + end
              ELSE IF local < end THEN midnight + end
              ELSE None
  BY DEF QuietEnd
<1>6. Quiet(now, quiet) <=> IF start < end THEN start <= local /\ local < end
                            ELSE start <= local \/ local < end
  BY <1>4
<1>7. QuietEndIsExact(now, quiet) <=>
          IF Quiet(now, quiet)
          THEN until > now /\ ~Quiet(until, quiet) /\ \A t \in now..(until - 1) : Quiet(t, quiet)
          ELSE until = None
  BY DEF QuietEndIsExact
<1> HIDE DEF start, end, local, q, midnight, until
<1>8. CASE ~Quiet(now, quiet)
  <2>1. until = None
    BY <1>1, <1>5, <1>6, <1>8
  <2> QED BY <1>7, <1>8, <2>1 DEF until
<1>9. CASE Quiet(now, quiet) /\ (start < end \/ local < start)
  <2>1. local < end /\ (start < end => start <= local)
    BY <1>1, <1>6, <1>9
  <2>2. until = midnight + end
    <3>1. CASE start < end
      BY <1>5, <2>1, <3>1
    <3>2. CASE ~(start < end) /\ local < start
      <4>1. ~(local >= start)
        BY <1>1, <3>2
      <4> QED BY <1>5, <2>1, <3>2, <4>1
    <3> QED BY <1>9, <3>1, <3>2
  <2>3. until \in Nat /\ until > now
    BY <1>1, <1>2, <2>1, <2>2
  <2>4. until % DayLength = end
    BY <1>1, <1>3, <2>1, <2>2, <2>3
  <2>5. ~Quiet(until, quiet)
    BY <1>1, <1>4, <1>9, <2>3, <2>4
  <2>6. ASSUME NEW t \in now..(until - 1) PROVE Quiet(t, quiet)
    <3>1. t \in Int /\ t - midnight \in local..(end - 1)
      BY <1>1, <2>1, <2>2, <2>3
    <3>2. t % DayLength = t - midnight
      BY <1>1, <1>3, <3>1
    <3> QED BY <1>1, <1>4, <1>6, <1>9, <3>1, <3>2
  <2> QED BY <1>7, <1>9, <2>3, <2>5, <2>6 DEF until
<1>10. CASE Quiet(now, quiet) /\ ~(start < end) /\ local >= start
  <2>1. until = midnight + DayLength + end /\ end < start
    BY <1>1, <1>5, <1>10
  <2>2. until \in Nat /\ until > now
    BY <1>1, <1>2, <2>1
  <2>3. until % DayLength = end
    BY <1>1, <1>3, <2>1, <2>2
  <2>4. ~Quiet(until, quiet)
    BY <1>1, <1>4, <1>10, <2>1, <2>2, <2>3
  <2>5. ASSUME NEW t \in now..(until - 1) PROVE Quiet(t, quiet)
    <3>1. t \in Int /\ t - midnight >= local /\ t - midnight < DayLength + end
      BY <1>1, <2>1, <2>2
    <3>2. CASE t - midnight < DayLength
      <4>1. t % DayLength = t - midnight
        BY <1>1, <1>3, <3>1, <3>2
      <4> QED BY <1>1, <1>4, <1>10, <3>1, <4>1
    <3>3. CASE t - midnight >= DayLength
      <4>1. t % DayLength = t - midnight - DayLength
        BY <1>1, <1>3, <3>1, <3>3
      <4> QED BY <1>1, <1>4, <1>10, <3>1, <4>1
    <3> QED BY <1>1, <3>1, <3>2, <3>3
  <2> QED BY <1>7, <1>10, <2>2, <2>4, <2>5 DEF until
<1> QED BY <1>1, <1>8, <1>9, <1>10

-----------------------------------------------------------------------------
(* The safety policy *)

\* The three contact groups, spelled out.
LEMMA CandidateNames ==
    /\ Contacts = {"CARD_UPDATE", "INVOICE_LINK", "STANDARD_LINK", "VOICE", "AGENT"}
    /\ Controls = {"STOP", "ESCALATE"}
    /\ Candidates = Contacts \cup Controls \cup {"WAIT"}
    /\ Outreach \subseteq Contacts
BY DEF Contacts, Controls, Candidates, Surfaces, Outreach

\* The cases evaluate_safety_policy distinguishes.
LEMMA PolicyCases ==
    ASSUME NEW context, NEW config, NEW c
    PROVE  LET p == EvaluateSafetyPolicy(context, config, c)
               end == IF c \in Outreach /\ config.quiet # None
                      THEN QuietEnd(context.now, config.quiet) ELSE None
               retry == c = "WAIT" /\ context.pending /\ RetryAt(context) > context.now
           IN  \/ /\ Blocked(context, config, c)
                  /\ p.disposition = "BLOCK" /\ p.until = None
               \/ /\ ~Blocked(context, config, c) /\ retry
                  /\ p.disposition = "DELAY" /\ p.until = RetryAt(context)
               \/ /\ ~Blocked(context, config, c) /\ ~retry /\ end # None
                  /\ end < context.deadline
                  /\ p.disposition = "DELAY" /\ p.until = end
               \/ /\ ~Blocked(context, config, c) /\ ~retry /\ end # None
                  /\ p.disposition = "BLOCK" /\ p.until = None
               \/ /\ ~Blocked(context, config, c) /\ ~retry /\ end = None
                  /\ NeedsApproval(context, config, c)
                  /\ p.disposition = "REQUIRE_MANUAL_APPROVAL" /\ p.until = None
               \/ /\ ~Blocked(context, config, c) /\ ~retry /\ end = None
                  /\ ~NeedsApproval(context, config, c)
                  /\ p.disposition = "ALLOW" /\ p.until = None
BY DEF EvaluateSafetyPolicy, Decision, Block

\* The policy's answer has its type.
LEMMA PolicyType ==
    ASSUME NEW context, NEW config \in PolicySettings, NEW c,
           context.now \in Nat, context.deadline \in Nat
    PROVE  EvaluateSafetyPolicy(context, config, c) \in
               [disposition : Policies, until : Nat \cup {None}]
<1> DEFINE end == IF c \in Outreach /\ config.quiet # None
                  THEN QuietEnd(context.now, config.quiet) ELSE None
<1>1. end \in Nat \cup {None}
  BY QuietHoursAreExact DEF PolicySettings
<1>2. RetryAt(context) \in Nat
  BY DayAssumption DEF RetryAt
<1> HIDE DEF end
<1>3. EvaluateSafetyPolicy(context, config, c) \in
          {Decision("BLOCK", None), Decision("DELAY", RetryAt(context)), Decision("DELAY", end),
           Decision("REQUIRE_MANUAL_APPROVAL", None), Decision("ALLOW", None)}
  BY DEF EvaluateSafetyPolicy, Block, end
<1> DEFINE typed == [disposition : Policies, until : Nat \cup {None}]
<1>4. /\ Decision("BLOCK", None) \in typed
      /\ Decision("REQUIRE_MANUAL_APPROVAL", None) \in typed
      /\ Decision("ALLOW", None) \in typed
  BY DEF Decision, Policies
<1>5. Decision("DELAY", RetryAt(context)) \in typed /\ Decision("DELAY", end) \in typed
  BY <1>1, <1>2 DEF Decision, Policies
<1> HIDE DEF typed
<1>6. EvaluateSafetyPolicy(context, config, c) \in typed
  BY <1>3, <1>4, <1>5
<1> QED BY <1>6 DEF typed

\* evaluate_safety_policy is safe in every context and under every setting the
\* configuration accepts: see PolicyIsSafe.
THEOREM PolicySafety ==
    ASSUME NEW context, NEW config \in PolicySettings, NEW c \in Candidates,
           context.now \in Nat, context.deadline \in Nat
    PROVE  PolicyIsSafe(context, config, c)
<1> DEFINE p == EvaluateSafetyPolicy(context, config, c)
           quietNow == config.quiet # None /\ Quiet(context.now, config.quiet)
           end == IF c \in Outreach /\ config.quiet # None
                  THEN QuietEnd(context.now, config.quiet) ELSE None
           retry == c = "WAIT" /\ context.pending /\ RetryAt(context) > context.now
<1>1. c \in Outreach /\ config.quiet # None =>
          IF Quiet(context.now, config.quiet)
          THEN end \in Nat /\ context.now < end /\ ~Quiet(end, config.quiet)
          ELSE end = None
  <2> SUFFICES ASSUME c \in Outreach, config.quiet # None
               PROVE  IF Quiet(context.now, config.quiet)
                      THEN end \in Nat /\ context.now < end /\ ~Quiet(end, config.quiet)
                      ELSE end = None
    OBVIOUS
  <2>1. config.quiet \in QuietHours
    BY DEF PolicySettings
  <2>2. /\ QuietEndIsExact(context.now, config.quiet)
        /\ QuietEnd(context.now, config.quiet) \in
               IF Quiet(context.now, config.quiet) THEN Nat ELSE {None}
    BY <2>1, QuietHoursAreExact
  <2> QED BY <2>2 DEF QuietEndIsExact
<1>2. ~(c \in Outreach /\ config.quiet # None) => end = None
  OBVIOUS
<1>3. RetryAt(context) \in Nat /\ RetryAt(context) <= context.deadline
  BY DayAssumption DEF RetryAt
<1>4. \/ /\ Blocked(context, config, c)
         /\ p.disposition = "BLOCK"
      \/ /\ ~Blocked(context, config, c) /\ retry
         /\ p.disposition = "DELAY" /\ p.until = RetryAt(context)
      \/ /\ ~Blocked(context, config, c) /\ end # None
         /\ \/ p.disposition = "DELAY" /\ p.until = end /\ end < context.deadline
            \/ p.disposition = "BLOCK"
      \/ /\ ~Blocked(context, config, c) /\ end = None /\ ~retry
         /\ NeedsApproval(context, config, c) /\ p.disposition = "REQUIRE_MANUAL_APPROVAL"
      \/ /\ ~Blocked(context, config, c) /\ end = None /\ ~retry
         /\ ~NeedsApproval(context, config, c) /\ p.disposition = "ALLOW"
  BY PolicyCases
<1> HIDE DEF p, end
<1>5. c \in Contacts /\ p.disposition # "BLOCK" =>
          /\ context.outcome = "OPEN" /\ ~context.captured
          /\ context.disposition = "NONE"
          /\ context.now < context.deadline
          /\ ~config.killed
  BY <1>4, CandidateNames DEF Blocked
<1>6. p.disposition = "DELAY" => context.now < p.until /\ p.until <= context.deadline
  BY <1>1, <1>2, <1>3, <1>4
<1>7. c \in Outreach /\ quietNow =>
          \/ p.disposition = "BLOCK"
          \/ p.disposition = "DELAY" /\ ~Quiet(p.until, config.quiet)
  <2>1. c \in Outreach => ~retry
    BY DEF Outreach
  <2>2. c \in Outreach /\ quietNow => end # None
    BY <1>1, NoneIsNoTime
  <2> QED BY <1>1, <1>4, <2>1, <2>2
<1>8. c \in Contacts /\ p.disposition = "ALLOW" => ~NeedsApproval(context, config, c)
  BY <1>4
<1>9. c \in Controls => p.disposition = "ALLOW"
  <2>1. c \in Controls => ~Blocked(context, config, c) /\ ~NeedsApproval(context, config, c)
    BY CandidateNames DEF Blocked, NeedsApproval
  <2>2. c \in Controls => ~retry /\ end = None
    BY <1>2, CandidateNames DEF Outreach
  <2> QED BY <1>4, <2>1, <2>2
<1> QED BY <1>5, <1>6, <1>7, <1>8, <1>9 DEF PolicyIsSafe, p

-----------------------------------------------------------------------------
(* The decision engine *)

LEMMA EligibleCandidates ==
    ASSUME NEW context
    PROVE  Eligible(context) \subseteq Candidates /\ Controls \subseteq Eligible(context)
BY DEF Eligible, SurfaceCandidates, Candidates, Contacts, Surfaces, Outreach, Controls

\* The ranking is a strict total order: no two candidates tie.
LEMMA TiesAreBroken ==
    ASSUME NEW diagnosis, NEW c \in Candidates, NEW d \in Candidates
    PROVE  /\ TiePriority(c, diagnosis) \in Nat
           /\ TiePriority(c, diagnosis) = TiePriority(d, diagnosis) => c = d
<1>1. Preferred(diagnosis) \in {"CARD_UPDATE", "INVOICE_LINK"}
  BY DEF Preferred
<1>2. Surfaces = {"CARD_UPDATE", "INVOICE_LINK", "STANDARD_LINK"}
  BY DEF Surfaces
<1>3. c \in {"CARD_UPDATE", "INVOICE_LINK", "STANDARD_LINK", "VOICE", "AGENT", "STOP",
             "ESCALATE", "WAIT"}
  BY CandidateNames
<1>4. d \in {"CARD_UPDATE", "INVOICE_LINK", "STANDARD_LINK", "VOICE", "AGENT", "STOP",
             "ESCALATE", "WAIT"}
  BY CandidateNames
<1> DEFINE tie(a) == TiePriority(a, diagnosis)
<1>5. /\ tie("WAIT") = 0 /\ tie("STANDARD_LINK") = 11 /\ tie("AGENT") = 20
      /\ tie("VOICE") = 30 /\ tie("ESCALATE") = 40 /\ tie("STOP") = 50
  BY <1>1, <1>2 DEF TiePriority
<1>6. \/ tie("CARD_UPDATE") = 10 /\ tie("INVOICE_LINK") = 12
      \/ tie("CARD_UPDATE") = 12 /\ tie("INVOICE_LINK") = 10
  BY <1>1, <1>2 DEF TiePriority
<1> HIDE DEF tie
<1>7. tie(c) \in Nat /\ (tie(c) = tie(d) => c = d)
  BY <1>3, <1>4, <1>5, <1>6
<1> QED BY <1>7 DEF tie

LEMMA RankingIsTotal ==
    ASSUME NEW score \in [Candidates -> Nat], NEW diagnosis,
           NEW c \in Candidates, NEW d \in Candidates, c # d
    PROVE  Better(c, d, score, diagnosis) \/ Better(d, c, score, diagnosis)
<1>1. score[c] \in Nat /\ score[d] \in Nat
  OBVIOUS
<1>2. /\ TiePriority(c, diagnosis) \in Nat /\ TiePriority(d, diagnosis) \in Nat
      /\ TiePriority(c, diagnosis) # TiePriority(d, diagnosis)
  BY TiesAreBroken
<1> QED BY <1>1, <1>2 DEF Better

LEMMA RankingIsTransitive ==
    ASSUME NEW score \in [Candidates -> Nat], NEW diagnosis,
           NEW c \in Candidates, NEW d \in Candidates, NEW e \in Candidates,
           Better(c, d, score, diagnosis), Better(d, e, score, diagnosis)
    PROVE  Better(c, e, score, diagnosis)
<1>1. score[c] \in Nat /\ score[d] \in Nat /\ score[e] \in Nat
  OBVIOUS
<1>2. /\ TiePriority(c, diagnosis) \in Nat /\ TiePriority(d, diagnosis) \in Nat
      /\ TiePriority(e, diagnosis) \in Nat
  BY TiesAreBroken
<1> QED BY <1>1, <1>2 DEF Better

\* c is the best of a set.
BestOf(c, set, score, diagnosis) ==
    c \in set /\ \A d \in set \ {c} : Better(c, d, score, diagnosis)

LEMMA AddCandidate ==
    ASSUME NEW score \in [Candidates -> Nat], NEW diagnosis,
           NEW set \in SUBSET Candidates, NEW new \in Candidates,
           set = {} \/ \E c \in set : BestOf(c, set, score, diagnosis)
    PROVE  \E c \in set \cup {new} : BestOf(c, set \cup {new}, score, diagnosis)
<1>1. CASE set = {}
  BY <1>1 DEF BestOf
<1>2. CASE new \in set
  <2>1. set \cup {new} = set
    BY <1>2
  <2> QED BY <1>2, <2>1
<1>3. CASE set # {} /\ new \notin set
  <2>1. PICK c \in set : BestOf(c, set, score, diagnosis)
    BY <1>3
  <2>2. c \in Candidates /\ c # new
    BY <1>3
  <2>3. CASE Better(c, new, score, diagnosis)
    <3>1. BestOf(c, set \cup {new}, score, diagnosis)
      BY <2>1, <2>3 DEF BestOf
    <3> QED BY <3>1
  <2>4. CASE Better(new, c, score, diagnosis)
    <3>1. ASSUME NEW d \in (set \cup {new}) \ {new} PROVE Better(new, d, score, diagnosis)
      <4>1. d \in set /\ d \in Candidates
        OBVIOUS
      <4>2. CASE d = c
        BY <2>4, <4>2
      <4>3. CASE d # c
        <5>1. Better(c, d, score, diagnosis)
          BY <2>1, <4>1, <4>3 DEF BestOf
        <5> QED BY <2>2, <2>4, <4>1, <5>1, RankingIsTransitive
      <4> QED BY <4>2, <4>3
    <3>2. BestOf(new, set \cup {new}, score, diagnosis)
      BY <3>1 DEF BestOf
    <3> QED BY <3>2
  <2> QED BY <2>2, <2>3, <2>4, RankingIsTotal
<1> QED BY <1>1, <1>2, <1>3

\* Every non-empty set of candidates has a best one: the set is built up by one
\* candidate after the other.
LEMMA BestExists ==
    ASSUME NEW score \in [Candidates -> Nat], NEW diagnosis,
           NEW set \in SUBSET Candidates, set # {}
    PROVE  \E c \in set : BestOf(c, set, score, diagnosis)
<1> DEFINE HasBest(s) == s = {} \/ \E c \in s : BestOf(c, s, score, diagnosis)
<1>1. ASSUME NEW s \in SUBSET Candidates, HasBest(set \cap s), NEW new \in Candidates
      PROVE  HasBest(set \cap (s \cup {new}))
  <2>1. CASE new \in set
    <3>1. set \cap (s \cup {new}) = (set \cap s) \cup {new}
      BY <2>1
    <3>2. set \cap s \in SUBSET Candidates
      OBVIOUS
    <3>3. \E c \in (set \cap s) \cup {new} : BestOf(c, (set \cap s) \cup {new}, score, diagnosis)
      BY <1>1, <3>2, AddCandidate
    <3> QED BY <3>1, <3>3
  <2>2. CASE new \notin set
    <3>1. set \cap (s \cup {new}) = set \cap s
      BY <2>2
    <3> QED BY <1>1, <3>1
  <2> QED BY <2>1, <2>2
<1>2. HasBest(set \cap {})
  OBVIOUS
<1>3. {"CARD_UPDATE", "INVOICE_LINK", "STANDARD_LINK", "VOICE", "AGENT", "STOP", "ESCALATE",
       "WAIT"} = Candidates
  BY CandidateNames
<1> HIDE DEF HasBest
<1>4. HasBest(set \cap ({} \cup {"CARD_UPDATE"} \cup {"INVOICE_LINK"} \cup {"STANDARD_LINK"}
                         \cup {"VOICE"}))
  BY <1>1, <1>2, <1>3
<1>5. HasBest(set \cap ({} \cup {"CARD_UPDATE"} \cup {"INVOICE_LINK"} \cup {"STANDARD_LINK"}
                         \cup {"VOICE"} \cup {"AGENT"} \cup {"STOP"} \cup {"ESCALATE"}
                         \cup {"WAIT"}))
  BY <1>1, <1>3, <1>4
<1>6. HasBest(set)
  <2>1. set = set \cap ({} \cup {"CARD_UPDATE"} \cup {"INVOICE_LINK"} \cup {"STANDARD_LINK"}
                         \cup {"VOICE"} \cup {"AGENT"} \cup {"STOP"} \cup {"ESCALATE"}
                         \cup {"WAIT"})
    BY <1>3
  <2> QED BY <1>5, <2>1
<1> QED BY <1>6 DEF HasBest

\* What `decide' returns: an eligible candidate that policy does not block and
\* that is better than every other one.
LEMMA DecideBest ==
    ASSUME NEW context, NEW config \in PolicySettings, NEW score \in [Candidates -> Nat],
           context.now \in Nat, context.deadline \in Nat
    PROVE  LET choice == Decide(context, config, score)
           IN  /\ choice.action \in Eligible(context)
               /\ choice.policy = EvaluateSafetyPolicy(context, config, choice.action)
               /\ choice.policy.disposition # "BLOCK"
               /\ \A c \in Eligible(context) \ {choice.action} :
                      \/ EvaluateSafetyPolicy(context, config, c).disposition = "BLOCK"
                      \/ Better(choice.action, c, score, context.diagnosis)
<1> DEFINE open == {c \in Eligible(context) :
                       EvaluateSafetyPolicy(context, config, c).disposition # "BLOCK"}
           best == CHOOSE c \in open : \A d \in open \ {c} : Better(c, d, score, context.diagnosis)
<1>1. open \in SUBSET Candidates
  BY EligibleCandidates
<1>2. "STOP" \in open
  <2>1. "STOP" \in Candidates /\ "STOP" \in Controls /\ "STOP" \in Eligible(context)
    BY EligibleCandidates DEF Controls
  <2>2. PolicyIsSafe(context, config, "STOP")
    BY <2>1, PolicySafety
  <2> QED BY <2>1, <2>2 DEF PolicyIsSafe
<1>3. \E c \in open : \A d \in open \ {c} : Better(c, d, score, context.diagnosis)
  <2> HIDE DEF open
  <2>1. \E c \in open : BestOf(c, open, score, context.diagnosis)
    BY <1>1, <1>2, BestExists
  <2> QED BY <2>1 DEF BestOf
<1>4. best \in open /\ \A d \in open \ {best} : Better(best, d, score, context.diagnosis)
  BY <1>3
<1>5. Decide(context, config, score)
          = [action |-> best, policy |-> EvaluateSafetyPolicy(context, config, best)]
  BY DEF Decide
<1> HIDE DEF best
<1>6. /\ Decide(context, config, score).action = best
      /\ Decide(context, config, score).policy = EvaluateSafetyPolicy(context, config, best)
  BY <1>5
<1>7. \A c \in Eligible(context) \ {best} :
          \/ EvaluateSafetyPolicy(context, config, c).disposition = "BLOCK"
          \/ Better(best, c, score, context.diagnosis)
  BY <1>4
<1> QED BY <1>4, <1>6, <1>7

\* A risk block or a merchant error among the tokens is what is diagnosed.
LEMMA NotRemediableDiagnosed ==
    ASSUME NEW evidence, evidence.failed, evidence.correlated,
           evidence.tokens \cap NotRemediable # {}
    PROVE  DiagnoseFailure(evidence) \in NotRemediable
<1> DEFINE found == {i \in 1..6 : Precedence[i] \in evidence.tokens}
           first == CHOOSE i \in found : \A j \in found : i <= j
<1>1. Precedence[1] = "RISK" /\ Precedence[2] = "MERCHANT"
  BY DEF Precedence
<1>2. 1 \in found \/ 2 \in found
  BY <1>1 DEF NotRemediable
<1>3. \E i \in found : i \in {1, 2} /\ \A j \in found : i <= j
  <2>1. CASE 1 \in found
    BY <2>1
  <2>2. CASE 1 \notin found /\ 2 \in found
    BY <2>2
  <2> QED BY <1>2, <2>1, <2>2
<1>4. first \in {1, 2}
  <2>1. first \in found /\ \A j \in found : first <= j
    BY <1>3
  <2> QED BY <1>3, <2>1
<1>5. DiagnoseFailure(evidence) = Precedence[first]
  BY <1>2 DEF DiagnoseFailure
<1> HIDE DEF first
<1> QED BY <1>1, <1>4, <1>5 DEF NotRemediable

\* The engine's choice is sound for every evidence, context, setting and score:
\* see ChoiceIsSound.
THEOREM ChoiceSoundness ==
    ASSUME NEW evidence, NEW context \in Contexts, NEW config \in PolicySettings,
           NEW score \in [Candidates -> Nat]
    PROVE  ChoiceIsSound(evidence, context, config, score)
<1> DEFINE known == [context EXCEPT !.diagnosis = DiagnoseFailure(evidence)]
           choice == Decide(known, config, score)
<1>1. known.now \in Nat /\ known.deadline \in Nat
  BY DEF Contexts
<1>2. known.diagnosis = DiagnoseFailure(evidence)
  BY DEF Contexts
<1>3. ChoiceIsSound(evidence, context, config, score) <=>
        /\ choice.action \in Eligible(known)
        /\ choice.policy.disposition # "BLOCK"
        /\ \A c \in Eligible(known) :
               \/ score[c] <= score[choice.action]
               \/ EvaluateSafetyPolicy(known, config, c).disposition = "BLOCK"
        /\ evidence.failed /\ evidence.correlated /\ evidence.tokens \cap NotRemediable # {}
               => choice.action \notin Contacts
  BY DEF ChoiceIsSound
<1> HIDE DEF known
<1>4. /\ choice.action \in Eligible(known)
      /\ choice.policy.disposition # "BLOCK"
      /\ \A c \in Eligible(known) \ {choice.action} :
             \/ EvaluateSafetyPolicy(known, config, c).disposition = "BLOCK"
             \/ Better(choice.action, c, score, known.diagnosis)
  BY <1>1, DecideBest
<1> HIDE DEF choice
<1>5. ASSUME NEW c \in Eligible(known)
      PROVE  \/ score[c] <= score[choice.action]
             \/ EvaluateSafetyPolicy(known, config, c).disposition = "BLOCK"
  <2>1. score[c] \in Nat /\ score[choice.action] \in Nat
    BY <1>4, EligibleCandidates
  <2> QED BY <1>4, <2>1 DEF Better
<1>6. ASSUME evidence.failed, evidence.correlated, evidence.tokens \cap NotRemediable # {}
      PROVE  choice.action \notin Contacts
  <2>1. known.diagnosis \in NotRemediable
    BY <1>2, <1>6, NotRemediableDiagnosed
  <2>2. Eligible(known) \subseteq {"WAIT"} \cup Controls
    BY <2>1 DEF Eligible, SurfaceCandidates
  <2> QED BY <1>4, <2>2, CandidateNames
<1> QED BY <1>3, <1>4, <1>5, <1>6
=============================================================================
