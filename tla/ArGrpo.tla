------------------------------- MODULE ArGrpo -------------------------------
(***************************************************************************)
(* The reward of a group of rollouts of one prompt: search/rl/reward.py    *)
(* counts the tags of each response, alar/rl/ar_grpo.py shapes the group.  *)
(*                                                                         *)
(* A response is its tags in their order, "char" standing for a unit of    *)
(* text; numbers are fractions <<num, den>> with den > 0.                  *)
(***************************************************************************)
EXTENDS Integers, Sequences, FiniteSets

CONSTANTS
  Texts,      \* responses a rollout may be
  G,          \* rollouts of a group
  Alpha,      \* AR_GRPO_ALPHA in tenths
  L,          \* AR_GRPO_L in units of text
  Horizon     \* AR_GRPO_TOTAL; d_t falls linearly here, as the cosine does at the
              \* start, in the middle and at the end

Tags == {"think", "/think", "latent", "char"}

ASSUME ArGrpoAssumption ==
  /\ \A s \in Texts : s \in Seq(Tags)
  /\ Alpha \in Nat /\ {G, L, Horizon} \subseteq Nat \ {0}

VARIABLES
  text, right,  \* of each rollout: the response; whether its last answer is a gold one
  global_steps,
  shaped        \* <<>>, then the shaped score of each rollout

groupVars == <<text, right, global_steps, shaped>>
Group == 1..G

-----------------------------------------------------------------------------
(* compute_score *)

\* Every <think> has its </think>: the stack never holds anything else, so its
\* height will do; -1 stands for the early return.
Moves(t) == CASE t = "think" -> 1 [] t = "/think" -> -1 [] OTHER -> 0
Height(s) ==
  LET after[n \in 0..Len(s)] ==
        IF n = 0 THEN 0
        ELSE IF after[n - 1] = -1 THEN -1 ELSE after[n - 1] + Moves(s[n])
  IN  after[Len(s)]
FormatOkUnclosed(s) == Height(s) # -1
FormatOk(s) == Height(s) = 0

\* The matches of <think>(.*?)</think>: an open tag and the next close tag behind it;
\* an open tag in between belongs to the match of an earlier one.
Closed(s, i, j) == \E c \in (i + 1)..(j - 1) : s[c] = "/think"
Thinks(s) ==
  {m \in (1..Len(s)) \X (1..Len(s)) :
     /\ m[1] < m[2] /\ s[m[1]] = "think" /\ s[m[2]] = "/think"
     /\ ~Closed(s, m[1], m[2])
     /\ \A i \in 1..(m[1] - 1) : s[i] = "think" => Closed(s, i, m[1])}

NThink(s) == Cardinality(Thinks(s))
NLatent(s) == Cardinality({i \in DOMAIN s : s[i] = "latent"})
ThinkChars(s) == Cardinality({k \in DOMAIN s : \E m \in Thinks(s) : m[1] < k /\ k < m[2]})
Em(i) == right[i] /\ FormatOk(text[i])

-----------------------------------------------------------------------------
(* _ar_grpo_extract_reward *)

Abs(n) == IF n < 0 THEN -n ELSE n
Turns(i) == NThink(text[i]) + NLatent(text[i])

\* Over the rollouts of the group.
Product(f) == LET upTo[n \in 0..G] == IF n = 0 THEN 1 ELSE upTo[n - 1] * f[n] IN upTo[G]
Sum(f) == LET upTo[n \in 0..G] == IF n = 0 THEN 0 ELSE upTo[n - 1] + f[n] IN upTo[G]

\* The latent fraction, over the common denominator Den of the group.
Den == Product([i \in Group |-> IF Turns(i) = 0 THEN 1 ELSE Turns(i)])
F(i) == IF Turns(i) = 0 THEN 0 ELSE NLatent(text[i]) * (Den \div Turns(i))
SumF == Sum([i \in Group |-> F(i)])

\* r_format and r_div, both over 10 * G * Horizon * Den.
RFormatAlways(i) == G * Horizon * (10 * Den + Alpha * F(i))
RFormat(i) ==
  G * Horizon * (IF Em(i) THEN 10 * Den + Alpha * F(i) ELSE -(Alpha * F(i)))
Decay == IF global_steps < Horizon THEN Horizon - global_steps ELSE 0
RDiv(i) == 10 * Decay * Abs(G * F(i) - SumF)

\* The length scale, min(1, L / think_chars).
ScaleAny(i) == IF ThinkChars(text[i]) > 0 THEN <<L, ThinkChars(text[i])>> ELSE <<1, 1>>
Scale(i) == IF ThinkChars(text[i]) > L THEN <<L, ThinkChars(text[i])>> ELSE <<1, 1>>

ShapedScore(i) ==
  IF ~FormatOk(text[i]) THEN <<-1, 1>>
  ELSE <<Scale(i)[1] * (RFormat(i) + RDiv(i)), Scale(i)[2] * 10 * G * Horizon * Den>>

GroupInit ==
  /\ text \in [Group -> Texts] /\ right \in [Group -> BOOLEAN]
  /\ global_steps \in 0..Horizon
  /\ shaped = <<>>

Shape ==
  /\ shaped = <<>>
  /\ shaped' = [i \in Group |-> ShapedScore(i)]
  /\ UNCHANGED <<text, right, global_steps>>

Shaped == shaped # <<>> /\ UNCHANGED groupVars
GroupNext == Shape \/ Shaped
GroupSpec == GroupInit /\ [][GroupNext]_groupVars

-----------------------------------------------------------------------------
(* Properties *)

Less(p, q) == p[1] * q[2] < q[1] * p[2]

\* The gate "closes the reward hack": a response that opens a <think> anywhere has
\* a turn that counts as explicit, or the hard penalty, whatever else it emits.
NoEvasion ==
  shaped # <<>> => \A i \in Group :
    (\E k \in DOMAIN text[i] : text[i][k] = "think") =>
      shaped[i] = <<-1, 1>> \/ F(i) < Den

\* Malformed is worst, whoever else is in the group; and once the diversity bonus
\* has decayed any success is above any failure, however long its thinking.
SuccessAboveFailure ==
  shaped # <<>> => \A i, j \in Group :
    /\ (~FormatOk(text[i]) /\ FormatOk(text[j])) => Less(shaped[i], shaped[j])
    /\ (global_steps = Horizon /\ Em(j) /\ ~Em(i)) => Less(shaped[i], shaped[j])

\* Among the successes at the end, more latent turns and no more thinking text are
\* never worth less.
LatentNotWorse ==
  (shaped # <<>> /\ global_steps = Horizon) => \A i, j \in Group :
    (Em(i) /\ Em(j) /\ F(i) <= F(j) /\ ThinkChars(text[j]) <= ThinkChars(text[i])) =>
      ~Less(shaped[j], shaped[i])
=============================================================================
