--------------------------- MODULE DeliveryProofs ---------------------------
(***************************************************************************)
(* The limiter first: every operation of DeliveryLimiter keeps its         *)
(* ceilings. What a window forgets is a prefix, an attempt starts only     *)
(* when nothing asks it to wait, and so no window and no campaign sees     *)
(* attempts closer than allowed.                                           *)
(*                                                                         *)
(* Then the deliveries: no step of SmtpDelivery loses or doubles what a    *)
(* call holds. Every token of a gate, every attempt in progress and every  *)
(* reserved place of a daily quota has one holder, every pool finds its    *)
(* gates, and a call finds its pool open until it ends, while              *)
(* configurations are replaced and the manager closes.                     *)
(***************************************************************************)
EXTENDS SmtpDelivery, FiniteSetTheorems, WellFoundedInduction, TLAPS

-----------------------------------------------------------------------------
(* Sets of integers. *)

\* A finite set of integers that has a member has a greatest one.
LEMMA GreatestExists ==
    ASSUME NEW S \in SUBSET Int, IsFiniteSet(S), S # {}
    PROVE  \E m \in S : \A x \in S : m >= x
<1> DEFINE Has(T) == \E m \in T : \A x \in T : m >= x
           Bad == {T \in SUBSET S : T # {} /\ ~Has(T)}
<1>1. Bad = {}
  <2> SUFFICES ASSUME Bad # {} PROVE FALSE
    OBVIOUS
  <2>1. IsWellFoundedOn(StrictSubsetOrdering(S), SUBSET S)
    BY FS_StrictSubsetOrderingWellFounded, FS_FiniteSubsetsOfFinite
  <2>2. Bad \subseteq SUBSET S
    OBVIOUS
  <2> HIDE DEF Bad
  <2>3. PICK T \in Bad : \A U \in Bad : ~(<<U, T>> \in StrictSubsetOrdering(S))
    BY <2>1, <2>2, WFMin
  <2>4. T \in SUBSET S /\ T # {} /\ ~Has(T)
    BY <2>3 DEF Bad
  <2>5. PICK t \in T : TRUE
    BY <2>4
  <2>6. T \ {t} \notin Bad
    BY <2>3, <2>4, <2>5 DEF StrictSubsetOrdering
  <2>7. T \ {t} = {} \/ Has(T \ {t})
    BY <2>4, <2>6 DEF Bad
  <2>8. CASE T \ {t} = {}
    BY <2>4, <2>5, <2>8
  <2>9. CASE Has(T \ {t})
    <3>1. PICK m \in T \ {t} : \A x \in T \ {t} : m >= x
      BY <2>9
    <3>2. CASE m >= t
      BY <2>4, <3>1, <3>2
    <3>3. CASE ~(m >= t)
      <4>1. \A x \in T : t >= x
        BY <2>4, <2>5, <3>1, <3>3
      <4> QED
        BY <2>4, <2>5, <4>1
    <3> QED
      BY <3>2, <3>3
  <2> QED
    BY <2>7, <2>8, <2>9
<1> HIDE DEF Has
<1>2. S \notin Bad
  BY <1>1
<1>3. Has(S)
  BY <1>2 DEF Bad
<1> QED
  BY <1>3 DEF Has

\* Max finds it.
LEMMA MaxFacts ==
    ASSUME NEW S \in SUBSET Int, IsFiniteSet(S), S # {}
    PROVE  /\ Max(S) \in S
           /\ \A x \in S : Max(S) >= x
BY GreatestExists DEF Max

\* A part of 1..n that has every number below its members is an interval.
LEMMA PrefixFacts ==
    ASSUME NEW n \in Nat, NEW E \in SUBSET (1..n),
           \A i \in E : 1..i \subseteq E
    PROVE  /\ Cardinality(E) \in 0..n
           /\ E = 1..Cardinality(E)
<1> DEFINE m == Cardinality(E)
<1>1. IsFiniteSet(E)
  <2>1. 1 \in Int /\ n \in Int
    OBVIOUS
  <2>2. IsFiniteSet(1..n)
    BY <2>1, FS_Interval
  <2> QED
    BY <2>2, FS_Subset
<1>2. m \in Nat
  BY <1>1, FS_CardinalityType
<1>3. CASE E = {}
  BY <1>3, FS_EmptySet
<1>4. CASE E # {}
  <2>0. E \in SUBSET Int
    OBVIOUS
  <2>1. PICK g \in E : \A x \in E : g >= x
    BY <1>1, <1>4, <2>0, GreatestExists
  <2>2. E = 1..g
    <3>1. 1..g \subseteq E
      BY <2>1
    <3>2. \A x \in E : x \in 1..g
      BY <2>1
    <3> QED
      BY <3>1, <3>2
  <2>3. Cardinality(1..g) = g
    BY <2>1, FS_Interval
  <2> QED
    BY <2>1, <2>2, <2>3
<1> QED
  BY <1>3, <1>4

-----------------------------------------------------------------------------
(* What a window keeps. *)

\* Trimming forgets the starts that left the window, oldest first, and no other.
LEMMA TrimFacts ==
    ASSUME LimiterTypeOK, NEW c \in Ceilings
    PROVE  \E n \in 0..Len(starts[c]) :
            /\ TrimStarts(c) \in Seq(Nat)
            /\ Len(TrimStarts(c)) = Len(starts[c]) - n
            /\ \A i \in 1..Len(starts[c]) - n : TrimStarts(c)[i] = starts[c][n + i]
            /\ \A i \in 1..n : starts[c][i] <= clock - CeilingLength[c]
            /\ n < Len(starts[c]) => starts[c][n + 1] > clock - CeilingLength[c]
<1> DEFINE s == starts[c]
           cutoff == clock - CeilingLength[c]
           E == {i \in 1..Len(s) : \A j \in 1..i : s[j] <= cutoff}
           n == Cardinality(E)
<1>1. s \in Seq(Nat) /\ Len(s) \in Nat /\ cutoff \in Int
  BY LimiterAssumption DEF LimiterTypeOK
<1>2. n \in 0..Len(s) /\ E = 1..n
  <2>1. \A i \in E : 1..i \subseteq E
    BY <1>1
  <2> HIDE DEF E
  <2>2. E \in SUBSET (1..Len(s))
    BY DEF E
  <2> QED
    BY <1>1, <2>1, <2>2, PrefixFacts
<1>3. TrimStarts(c) = SubSeq(s, n + 1, Len(s))
  BY DEF TrimStarts, After, Expired
<1>n. n \in Nat
  BY <1>1, <1>2
<1> HIDE DEF n
<1>4. \A i \in 1..n : s[i] <= cutoff
  <2> SUFFICES ASSUME NEW i \in 1..n PROVE s[i] <= cutoff
    OBVIOUS
  <2>1. i \in E
    BY <1>2
  <2> QED
    BY <1>1, <2>1
<1>5. n < Len(s) => s[n + 1] > cutoff
  <2> SUFFICES ASSUME n < Len(s), ~(s[n + 1] > cutoff) PROVE FALSE
    OBVIOUS
  <2>1. n + 1 \in 1..Len(s) /\ s[n + 1] \in Nat
    BY <1>1, <1>2, <1>n
  <2>2. \A j \in 1..n + 1 : s[j] <= cutoff
    <3> SUFFICES ASSUME NEW j \in 1..n + 1 PROVE s[j] <= cutoff
      OBVIOUS
    <3>1. j \in 1..n \/ j = n + 1
      BY <1>n
    <3> QED
      BY <1>1, <1>4, <2>1, <3>1
  <2>3. n + 1 \in E
    BY <2>1, <2>2
  <2> HIDE DEF E
  <2> QED
    BY <1>2, <2>3
<1> HIDE DEF E
<1>6. TrimStarts(c) \in Seq(Nat) /\ Len(TrimStarts(c)) = Len(s) - n
      /\ \A i \in 1..Len(s) - n : TrimStarts(c)[i] = s[n + i]
  <2>1. PICK l \in Nat : l = Len(s)
    BY <1>1
  <2>2. n <= l /\ n + 1 \in Nat /\ l - n \in Nat
    BY <1>2, <1>n, <2>1
  <2> HIDE DEF s
  <2>3. \A i \in n + 1..l : s[i] \in Nat
    BY <1>1, <1>n, <2>1
  <2>4. SubSeq(s, n + 1, l) = [i \in 1..l - n |-> s[n + i]]
    BY <1>1, <1>n, <2>1, <2>2
  <2>5. \A i \in 1..l - n : n + i \in n + 1..l
    BY <1>n, <2>1, <2>2
  <2> DEFINE o == [i \in 1..l - n |-> s[n + i]]
  <2>6. o \in [1..l - n -> Nat]
    BY <2>3, <2>5
  <2>7. o \in Seq(Nat) /\ Len(o) = l - n /\ \A i \in 1..l - n : o[i] = s[n + i]
    BY <2>2, <2>6
  <2> HIDE DEF o
  <2> QED
    BY <1>3, <2>1, <2>4, <2>7 DEF o
<1> QED
  BY <1>2, <1>4, <1>5, <1>6

\* What recording a start at the end of a window does.
LEMMA AppendFacts ==
    ASSUME NEW S, NEW t \in Seq(S), NEW x \in S
    PROVE  LET u == Append(t, x)
           IN  /\ u \in Seq(S)
               /\ Len(u) = Len(t) + 1
               /\ u[Len(t) + 1] = x
               /\ \A i \in 1..Len(t) : u[i] = t[i]
OBVIOUS

-----------------------------------------------------------------------------
(* What a message has to wait. *)

\* There are finitely many reasons to wait.
LEMMA WaitsFinite ==
    ASSUME LimiterTypeOK, NEW k
    PROVE  /\ Waits(k) \in SUBSET Int
           /\ IsFiniteSet({0} \cup Waits(k))
<1> DEFINE Full == {w \in Ceilings : Len(TrimStarts(w)) >= CeilingLimit[w]}
           F == [c \in Full |-> TrimStarts(c)[1] + CeilingLength[c] - clock]
           A == IF MaxConcurrent > 0 /\ active >= MaxConcurrent THEN {Hour} ELSE {}
           B == IF k \in Campaigns THEN {campaignNext[k] - clock} ELSE {}
           C == {TrimStarts(c)[1] + CeilingLength[c] - clock : c \in Full}
<1>1. IsFiniteSet(Full)
  BY LimiterAssumption, FS_Subset
<1>2. F \in Surjection(Full, C)
  BY DEF Surjection
<1>3. IsFiniteSet(C)
  BY <1>1, <1>2, FS_Surjection
<1>4. C \in SUBSET Int
  <2> SUFFICES ASSUME NEW c \in Full
               PROVE  TrimStarts(c)[1] + CeilingLength[c] - clock \in Int
    OBVIOUS
  <2>1. PICK n \in 0..Len(starts[c]) : TrimStarts(c) \in Seq(Nat)
    BY TrimFacts
  <2>2. Len(TrimStarts(c)) >= 1
    BY <2>1, LimiterAssumption
  <2>3. TrimStarts(c)[1] \in Nat
    BY <2>1, <2>2
  <2> QED
    BY <2>3, LimiterAssumption DEF LimiterTypeOK
<1>5. IsFiniteSet(A) /\ A \in SUBSET Int
  <2>1. IsFiniteSet({Hour}) /\ {Hour} \in SUBSET Int
    <3>1. Hour \in Int
      BY LimiterAssumption
    <3>2. IsFiniteSet({Hour})
      BY FS_Singleton
    <3> QED
      BY <3>1, <3>2
  <2> QED
    BY <2>1, FS_EmptySet
<1>6. IsFiniteSet(B) /\ B \in SUBSET Int
  <2>1. CASE k \in Campaigns
    <3>1. campaignNext[k] - clock \in Int
      BY <2>1 DEF LimiterTypeOK
    <3> QED
      BY <2>1, <3>1, FS_Singleton
  <2> QED
    BY <2>1, FS_EmptySet
<1>7. Waits(k) = A \cup B \cup C
  BY DEF Waits
<1> HIDE DEF A, B, C
<1>8. IsFiniteSet(Waits(k))
  BY <1>3, <1>5, <1>6, <1>7, FS_Union
<1> QED
  BY <1>4, <1>5, <1>6, <1>7, <1>8, FS_Union, FS_Singleton

\* A message with nothing to wait for finds every limit open.
LEMMA WaitFacts ==
    ASSUME LimiterTypeOK, NEW k
    PROVE  /\ Wait(k) \in Nat
           /\ Wait(k) = 0 =>
                /\ MaxConcurrent > 0 => active < MaxConcurrent
                /\ k \in Campaigns => campaignNext[k] <= clock
                /\ \A c \in Ceilings : Len(TrimStarts(c)) < CeilingLimit[c]
<1> DEFINE S == {0} \cup Waits(k)
<1>1. S \in SUBSET Int /\ IsFiniteSet(S) /\ S # {}
  BY WaitsFinite
<1>2. Max(S) \in S /\ \A x \in S : Max(S) >= x
  BY <1>1, MaxFacts
<1>3. Wait(k) = Max(S)
  BY DEF Wait
<1>4. Wait(k) \in Nat
  BY <1>1, <1>2, <1>3
<1> SUFFICES ASSUME Wait(k) = 0
             PROVE  /\ MaxConcurrent > 0 => active < MaxConcurrent
                    /\ k \in Campaigns => campaignNext[k] <= clock
                    /\ \A c \in Ceilings : Len(TrimStarts(c)) < CeilingLimit[c]
  BY <1>4
<1>5. \A x \in Waits(k) : x <= 0
  BY <1>1, <1>2, <1>3
<1>6. MaxConcurrent > 0 => active < MaxConcurrent
  <2> SUFFICES ASSUME MaxConcurrent > 0, ~(active < MaxConcurrent) PROVE FALSE
    OBVIOUS
  <2>1. Hour \in Waits(k)
    BY LimiterAssumption DEF LimiterTypeOK, Waits
  <2> QED
    BY <1>5, <2>1, LimiterAssumption
<1>7. k \in Campaigns => campaignNext[k] <= clock
  <2> SUFFICES ASSUME k \in Campaigns PROVE campaignNext[k] <= clock
    OBVIOUS
  <2>1. campaignNext[k] - clock \in Waits(k)
    BY DEF Waits
  <2>2. campaignNext[k] \in Nat /\ clock \in Nat
    BY DEF LimiterTypeOK
  <2> QED
    BY <1>5, <2>1, <2>2
<1>8. ASSUME NEW c \in Ceilings PROVE Len(TrimStarts(c)) < CeilingLimit[c]
  <2> SUFFICES ASSUME ~(Len(TrimStarts(c)) < CeilingLimit[c]) PROVE FALSE
    OBVIOUS
  <2>1. PICK n \in 0..Len(starts[c]) :
            /\ TrimStarts(c) \in Seq(Nat)
            /\ Len(TrimStarts(c)) = Len(starts[c]) - n
            /\ \A i \in 1..Len(starts[c]) - n : TrimStarts(c)[i] = starts[c][n + i]
            /\ n < Len(starts[c]) => starts[c][n + 1] > clock - CeilingLength[c]
    BY TrimFacts
  <2>2. Len(TrimStarts(c)) >= CeilingLimit[c] /\ Len(starts[c]) \in Nat
        /\ Len(starts[c]) - n >= 1
    <3>1. starts[c] \in Seq(Nat) /\ CeilingLimit[c] \in Nat \ {0}
      BY LimiterAssumption DEF LimiterTypeOK
    <3>a. Len(TrimStarts(c)) \in Nat /\ Len(starts[c]) \in Nat
      BY <2>1, <3>1
    <3>2. PICK t \in Nat, l \in Nat, x \in Nat \ {0} :
            t = Len(TrimStarts(c)) /\ l = Len(starts[c]) /\ x = CeilingLimit[c]
      BY <3>1, <3>a
    <3>3. t = l - n /\ ~(t < x)
      BY <2>1, <3>2
    <3>4. t >= x /\ l - n >= 1
      BY <3>2, <3>3
    <3> QED
      BY <3>2, <3>4
  <2>3. TrimStarts(c)[1] > clock - CeilingLength[c] /\ TrimStarts(c)[1] \in Nat
    BY <2>1, <2>2
  <2>4. TrimStarts(c)[1] + CeilingLength[c] - clock \in Waits(k)
    BY <2>2 DEF Waits
  <2>5. clock \in Nat /\ CeilingLength[c] \in Nat
    BY LimiterAssumption DEF LimiterTypeOK
  <2>6. TrimStarts(c)[1] + CeilingLength[c] - clock <= 0
    BY <1>5, <2>4
  <2> QED
    BY <2>3, <2>5, <2>6
<1> QED
  BY <1>6, <1>7, <1>8

-----------------------------------------------------------------------------
(* The ceilings. *)

\* What the history records.
LEMMA AttemptFacts ==
    ASSUME LimiterTypeOK
    PROVE  /\ Len(attempts) \in Nat
           /\ DOMAIN attempts = 1..Len(attempts)
           /\ \A i \in 1..Len(attempts) :
                /\ attempts[i].at \in Nat
                /\ attempts[i].campaign \in Campaigns \cup {NoCampaign}
<1> DEFINE Attempt == [at : Nat, campaign : Campaigns \cup {NoCampaign}]
<1>1. attempts \in Seq(Attempt)
  BY DEF LimiterTypeOK
<1> HIDE DEF Attempt
<1>2. Len(attempts) \in Nat /\ DOMAIN attempts = 1..Len(attempts)
      /\ \A i \in 1..Len(attempts) : attempts[i] \in Attempt
  BY <1>1
<1> QED
  BY <1>2 DEF Attempt

\* Starts in their order, spaced as the ceiling asks, never crowd a window: a
\* window that holds one start holds at most the next ones its ceiling admits.
LEMMA WindowFacts ==
    ASSUME LimiterTypeOK, Remembered, Spaced, NEW c \in Ceilings, NEW from \in Nat
    PROVE  Cardinality({i \in DOMAIN attempts :
                            attempts[i].at >= from /\ attempts[i].at < from + CeilingLength[c]})
            <= CeilingLimit[c]
<1> DEFINE W == {i \in DOMAIN attempts :
                    attempts[i].at >= from /\ attempts[i].at < from + CeilingLength[c]}
           n == Len(attempts)
           limit == CeilingLimit[c]
<1>1. n \in Nat /\ DOMAIN attempts = 1..n /\ limit \in Nat \ {0} /\ CeilingLength[c] \in Nat
  BY LimiterAssumption DEF LimiterTypeOK
<1>2. \A i \in 1..n : attempts[i].at \in Nat
  BY AttemptFacts
<1>3. W \in SUBSET (1..n)
  BY <1>1
<1>4. IsFiniteSet(W)
  <2>1. IsFiniteSet(1..n)
    BY <1>1, FS_Interval
  <2> QED
    BY <1>3, <2>1, FS_Subset
<1>5. CASE W = {}
  <2>1. Cardinality(W) = 0
    BY <1>5, FS_EmptySet
  <2> QED
    BY <1>1, <2>1
<1>6. CASE W # {}
  <2>0. W \in SUBSET Int
    BY <1>3
  <2>1. PICK g \in W : \A x \in W : g >= x
    <3> HIDE DEF W
    <3> QED
      BY <2>0, <1>4, <1>6, GreatestExists
  <2>2. g \in 1..n /\ g \in Int
    BY <1>1, <2>1
  <2>3. W \in SUBSET ((g - limit + 1)..g)
    <3> SUFFICES ASSUME NEW i \in W, ~(i >= g - limit + 1) PROVE FALSE
      BY <1>1, <2>1, <2>2
    <3>1. i \in 1..n /\ i + limit \in 1..n /\ i + limit <= g
      BY <1>1, <2>2
    <3>2. attempts[i + limit].at >= attempts[i].at + CeilingLength[c]
      BY <1>1, <3>1 DEF Spaced
    <3>3. attempts[i + limit].at <= attempts[g].at
      BY <1>1, <2>2, <3>1 DEF Remembered
    <3>4. attempts[i].at >= from /\ attempts[g].at < from + CeilingLength[c]
      BY <2>1
    <3>5. /\ attempts[i].at \in Nat /\ attempts[i + limit].at \in Nat /\ attempts[g].at \in Nat
          /\ CeilingLength[c] \in Nat
      BY <1>1, <1>2, <2>2, <3>1
    <3> HIDE DEF limit
    <3> QED
      BY <3>2, <3>3, <3>4, <3>5
  <2>4. g - limit + 1 \in Int /\ ~(g - limit + 1 > g) /\ g - (g - limit + 1) + 1 = limit
    BY <1>1, <2>2
  <2>5. IsFiniteSet((g - limit + 1)..g) /\ Cardinality((g - limit + 1)..g) = limit
    BY <2>2, <2>4, FS_Interval
  <2> HIDE DEF W
  <2>6. Cardinality(W) <= Cardinality((g - limit + 1)..g)
    BY <2>3, <2>5, FS_Subset
  <2> QED
    BY <2>5, <2>6 DEF W
<1> QED
  BY <1>5, <1>6

\* What CeilingsHold asks of the intervals of a campaign.
Apart ==
    \A i, j \in DOMAIN attempts :
        /\ i < j
        /\ attempts[i].campaign = attempts[j].campaign
        /\ attempts[i].campaign # NoCampaign
        => attempts[j].at >= attempts[i].at + Interval

LEMMA CeilingsFollow ==
    ASSUME LimiterTypeOK, Remembered, Paced, Spaced, Apart
    PROVE  CeilingsHold
<1>1. \A from \in 0..MaxClock : from \in Nat
  BY LimiterAssumption
<1> QED
  BY <1>1, WindowFacts DEF CeilingsHold, Apart

\* An attempt that starts is at the end of every window, and an interval after
\* the last one of its campaign.
LEMMA TakeKeeps ==
    ASSUME LimiterTypeOK, CeilingsHold, NEW k \in Campaigns \cup {NoCampaign}, Take(k)
    PROVE  /\ LimiterTypeOK'
           /\ CeilingsHold'
<1> DEFINE n == Len(attempts)
<1>1. /\ n \in Nat /\ DOMAIN attempts = 1..n
      /\ \A i \in 1..n : attempts[i].at \in Nat /\ attempts[i].campaign \in Campaigns \cup {NoCampaign}
      /\ clock \in Nat /\ clock \in 0..MaxClock
  BY AttemptFacts, LimiterAssumption DEF LimiterTypeOK
<1>2. /\ DOMAIN attempts' = 1..n + 1
      /\ \A i \in 1..n : attempts'[i] = attempts[i]
      /\ attempts'[n + 1] = [at |-> clock, campaign |-> k]
      /\ clock' = clock
      /\ attempts' \in Seq([at : Nat, campaign : Campaigns \cup {NoCampaign}])
      /\ Len(attempts') = n + 1
  <2> DEFINE Attempt == [at : Nat, campaign : Campaigns \cup {NoCampaign}]
             new == [at |-> clock, campaign |-> k]
  <2>1. new \in Attempt
    BY <1>1
  <2>2. attempts \in Seq(Attempt) /\ attempts' = Append(attempts, new)
    BY DEF Take, LimiterTypeOK
  <2> HIDE DEF Attempt, new
  <2>3. /\ DOMAIN attempts' = 1..n + 1
        /\ \A i \in 1..n : attempts'[i] = attempts[i]
        /\ attempts'[n + 1] = new
        /\ attempts' \in Seq(Attempt)
        /\ Len(attempts') = n + 1
    BY <1>1, <2>1, <2>2
  <2> QED
    BY <2>3 DEF Take, Attempt, new
<1>b. /\ \A i, j \in 1..n : i <= j => attempts[i].at <= attempts[j].at
      /\ \A i \in 1..n : attempts[i].at <= clock
  BY <1>1 DEF CeilingsHold, Remembered
<1>3. /\ \A c \in Ceilings : Len(TrimStarts(c)) < CeilingLimit[c]
      /\ k \in Campaigns => campaignNext[k] <= clock
  BY WaitFacts DEF Take
<1>4. ASSUME NEW c \in Ceilings
      PROVE  \E m \in 0..Len(starts[c]) :
                /\ starts'[c] \in Seq(Nat)
                /\ Len(starts'[c]) = Len(starts[c]) - m + 1
                /\ \A i \in 1..Len(starts[c]) - m : starts'[c][i] = starts[c][m + i]
                /\ starts'[c][Len(starts[c]) - m + 1] = clock
                /\ \A i \in 1..m : starts[c][i] <= clock - CeilingLength[c]
                /\ Len(starts[c]) - m < CeilingLimit[c]
  <2>1. PICK m \in 0..Len(starts[c]) :
            /\ TrimStarts(c) \in Seq(Nat)
            /\ Len(TrimStarts(c)) = Len(starts[c]) - m
            /\ \A i \in 1..Len(starts[c]) - m : TrimStarts(c)[i] = starts[c][m + i]
            /\ \A i \in 1..m : starts[c][i] <= clock - CeilingLength[c]
    BY TrimFacts
  <2>2. starts'[c] = Append(TrimStarts(c), clock)
    BY DEF Take
  <2>3. Len(starts[c]) \in Nat
    BY DEF LimiterTypeOK
  <2>4. /\ starts'[c] \in Seq(Nat)
        /\ Len(starts'[c]) = Len(starts[c]) - m + 1
        /\ starts'[c][Len(starts[c]) - m + 1] = clock
        /\ \A i \in 1..Len(starts[c]) - m : starts'[c][i] = TrimStarts(c)[i]
    <3> DEFINE t == TrimStarts(c)
    <3>1. t \in Seq(Nat) /\ Len(t) = Len(starts[c]) - m /\ clock \in Nat
      BY <1>1, <2>1
    <3>2. PICK o \in Seq(Nat), now \in Nat : o = t /\ now = clock
      BY <3>1
    <3> HIDE DEF t
    <3>3. LET u == Append(o, now)
          IN  /\ u \in Seq(Nat)
              /\ Len(u) = Len(o) + 1
              /\ u[Len(o) + 1] = now
              /\ \A i \in 1..Len(o) : u[i] = o[i]
      BY AppendFacts
    <3>4. starts'[c] = Append(o, now)
      BY <2>2, <3>2 DEF t
    <3> QED
      BY <3>1, <3>2, <3>3, <3>4 DEF t
  <2> QED
    BY <1>3, <2>1, <2>4
<1> HIDE DEF n
<1>5. LimiterTypeOK'
  <2>1. active' \in Nat
    BY DEF Take, LimiterTypeOK
  <2>2. starts' \in [Ceilings -> Seq(Nat)]
    <3>1. \A c \in Ceilings : starts'[c] \in Seq(Nat)
      BY <1>4
    <3> QED
      BY <3>1 DEF Take
  <2>3. campaignNext' \in [Campaigns -> Nat]
    BY <1>1, LimiterAssumption DEF Take, LimiterTypeOK
  <2> QED
    BY <1>1, <1>2, <2>1, <2>2, <2>3 DEF Take, LimiterTypeOK
<1>6. Remembered'
  <2>0. \A i \in 1..n + 1 : i \in 1..n \/ i = n + 1
    BY <1>1
  <2>2. \A i \in 1..n + 1 : attempts'[i].at <= clock
    BY <1>1, <1>2, <1>b, <2>0
  <2>1. \A i, j \in 1..n + 1 : i <= j => attempts'[i].at <= attempts'[j].at
    <3> SUFFICES ASSUME NEW i \in 1..n + 1, NEW j \in 1..n + 1, i <= j
                 PROVE  attempts'[i].at <= attempts'[j].at
      OBVIOUS
    <3>1. CASE j = n + 1
      BY <1>2, <2>2, <3>1
    <3>2. CASE j \in 1..n
      <4>1. i \in 1..n
        BY <1>1, <3>2
      <4> QED
        BY <1>2, <1>b, <3>2, <4>1
    <3> QED
      BY <2>0, <3>1, <3>2
  <2>3. ASSUME NEW c \in Ceilings
        PROVE  LET old == (n + 1) - Len(starts'[c])
               IN  /\ old >= 0
                   /\ \A i \in 1..Len(starts'[c]) : starts'[c][i] = attempts'[old + i].at
                   /\ \A i \in 1..old : attempts'[i].at <= clock - CeilingLength[c]
    <3>1. PICK m \in 0..Len(starts[c]) :
                /\ starts'[c] \in Seq(Nat)
                /\ Len(starts'[c]) = Len(starts[c]) - m + 1
                /\ \A i \in 1..Len(starts[c]) - m : starts'[c][i] = starts[c][m + i]
                /\ starts'[c][Len(starts[c]) - m + 1] = clock
                /\ \A i \in 1..m : starts[c][i] <= clock - CeilingLength[c]
      BY <1>4
    <3>2. PICK l \in Nat : l = Len(starts[c])
      BY DEF LimiterTypeOK
    <3>3. PICK N \in Nat : N = n
      BY <1>1
    <3>4. PICK w \in Int : w = N - l
      OBVIOUS
    <3>5. PICK old \in Int : old = w + m
      BY <3>2
    <3>6. m \in Nat /\ m <= l
      BY <3>2
    <3>7. w >= 0
      BY <3>2, <3>3, <3>4 DEF CeilingsHold, Remembered, n
    <3>8. (n + 1) - Len(starts'[c]) = old
      <4>1. Len(starts'[c]) = l - m + 1
        BY <3>1, <3>2
      <4>2. (N + 1) - (l - m + 1) = old
        BY <3>4, <3>5, <3>6
      <4> QED
        BY <3>3, <4>1, <4>2
    <3>9. \A i \in 1..l : starts[c][i] = attempts[w + i].at
      BY <3>2, <3>3, <3>4 DEF CeilingsHold, Remembered, n
    <3>10. \A i \in 1..w : attempts[i].at <= clock - CeilingLength[c]
      BY <3>2, <3>3, <3>4 DEF CeilingsHold, Remembered, n
    <3>11. /\ \A i \in 1..N : attempts'[i] = attempts[i]
           /\ attempts'[N + 1].at = clock
      BY <1>2, <3>3
    <3>12. ASSUME NEW i \in 1..Len(starts'[c]) PROVE starts'[c][i] = attempts'[old + i].at
      <4>1. i \in 1..l - m + 1
        BY <3>1, <3>2
      <4>2. CASE i = l - m + 1
        <5>1. old + i = N + 1
          BY <3>4, <3>5, <3>6, <4>2
        <5>2. starts'[c][i] = clock
          BY <3>1, <3>2, <4>2
        <5> QED
          BY <3>11, <5>1, <5>2
      <4>3. CASE i # l - m + 1
        <5>1. i \in 1..l - m /\ m + i \in 1..l /\ old + i \in 1..N /\ old + i = w + (m + i)
          BY <3>4, <3>5, <3>6, <3>7, <4>1, <4>3
        <5>2. starts'[c][i] = starts[c][m + i]
          BY <3>1, <3>2, <5>1
        <5>3. starts[c][m + i] = attempts[old + i].at
          BY <3>9, <5>1
        <5> QED
          BY <3>11, <5>1, <5>2, <5>3
      <4> QED
        BY <4>2, <4>3
    <3>13. ASSUME NEW i \in 1..old PROVE attempts'[i].at <= clock - CeilingLength[c]
      <4>1. i \in 1..N
        BY <3>4, <3>5, <3>6
      <4>2. attempts'[i] = attempts[i]
        BY <3>11, <4>1
      <4>3. CASE i \in 1..w
        BY <3>10, <4>2, <4>3
      <4>4. CASE i \notin 1..w
        <5>1. i - w \in 1..m /\ i - w \in 1..l /\ w + (i - w) = i
          BY <3>5, <3>6, <3>7, <4>4
        <5>2. starts[c][i - w] = attempts[i].at
          BY <3>9, <5>1
        <5>3. starts[c][i - w] <= clock - CeilingLength[c]
          BY <3>1, <5>1
        <5> QED
          BY <4>2, <5>2, <5>3
      <4> QED
        BY <4>3, <4>4
    <3>14. old >= 0
      BY <3>5, <3>6, <3>7
    <3> QED
      BY <3>8, <3>12, <3>13, <3>14
  <2>4. ASSUME NEW c \in Ceilings
        PROVE  LET old == Len(attempts') - Len(starts'[c])
               IN  /\ old >= 0
                   /\ \A i \in 1..Len(starts'[c]) : starts'[c][i] = attempts'[old + i].at
                   /\ \A i \in 1..old : attempts'[i].at <= clock' - CeilingLength[c]
    <3>1. Len(attempts') = n + 1
      BY <1>2
    <3>2. Len(attempts') - Len(starts'[c]) = (n + 1) - Len(starts'[c])
      BY <3>1
    <3>3. clock' = clock
      BY <1>2
    <3> QED
      BY <2>3, <3>2, <3>3
  <2>5. /\ \A i, j \in DOMAIN attempts' : i <= j => attempts'[i].at <= attempts'[j].at
        /\ \A i \in DOMAIN attempts' : attempts'[i].at <= clock'
    BY <1>2, <2>1, <2>2
  <2> QED
    BY <2>4, <2>5 DEF Remembered
<1>7. Spaced'
  <2> SUFFICES ASSUME NEW c \in Ceilings, NEW i \in 1..n + 1, i + CeilingLimit[c] \in 1..n + 1
               PROVE  attempts'[i + CeilingLimit[c]].at >= attempts'[i].at + CeilingLength[c]
    BY <1>2 DEF Spaced
  <2>1. CeilingLimit[c] \in Nat \ {0} /\ CeilingLength[c] \in Nat
    BY LimiterAssumption
  <2>2. i \in 1..n
    BY <1>1, <2>1
  <2>3. CASE i + CeilingLimit[c] \in 1..n
    BY <1>1, <1>2, <2>2, <2>3 DEF CeilingsHold, Spaced
  <2>4. CASE i + CeilingLimit[c] = n + 1
    <3>1. PICK m \in 0..Len(starts[c]) :
                /\ Len(starts'[c]) = Len(starts[c]) - m + 1
                /\ Len(starts[c]) - m < CeilingLimit[c]
      BY <1>4
    <3>a. Len(starts[c]) \in Nat
      BY DEF LimiterTypeOK
    <3>b. Len(starts'[c]) \in Int
      BY <3>1, <3>a
    <3>2. PICK l \in Nat, r \in Int : l = Len(starts[c]) /\ r = Len(starts'[c])
      BY <3>a, <3>b
    <3>3. PICK N \in Nat, x \in Nat : N = n /\ x = CeilingLimit[c]
      BY <1>1, <2>1
    <3>4. r = l - m + 1 /\ l - m < x /\ m \in Nat /\ m <= l
      BY <3>1, <3>2, <3>3
    <3>c. i + x = N + 1 /\ i >= 1
      BY <2>4, <3>3
    <3>d. i \in 1..(N + 1) - r
      BY <3>4, <3>c
    <3>e. i \in 1..Len(attempts') - Len(starts'[c])
      BY <1>2, <3>2, <3>3, <3>d
    <3>5. attempts'[i].at <= clock - CeilingLength[c]
      BY <1>2, <1>6, <3>e DEF Remembered
    <3>6. attempts'[i + CeilingLimit[c]].at = clock
      BY <1>2, <2>4
    <3>7. attempts'[i].at \in Nat
      BY <1>1, <1>2, <2>2
    <3> QED
      BY <1>1, <2>1, <3>5, <3>6, <3>7
  <2> QED
    BY <2>3, <2>4, <1>1
<1>8. Paced'
  <2> SUFFICES ASSUME NEW i \in 1..n + 1, attempts'[i].campaign \in Campaigns
               PROVE  LET over == attempts'[i].at + Interval
                      IN  over <= campaignNext'[attempts'[i].campaign] \/ over <= clock
    BY <1>2 DEF Paced
  <2>1. CASE i = n + 1
    <3>1. campaignNext'[k] = clock + Interval
      BY <1>2, <2>1 DEF Take
    <3> QED
      BY <1>1, <1>2, <2>1, <3>1, LimiterAssumption
  <2>2. CASE i \in 1..n
    <3> DEFINE j == attempts[i].campaign
               over == attempts[i].at + Interval
    <3>1. j \in Campaigns /\ over \in Nat /\ campaignNext[j] \in Nat
      <4>1. attempts[i].at \in Nat /\ attempts[i].campaign \in Campaigns
        BY <1>1, <1>2, <2>2
      <4>2. over \in Nat
        BY <4>1, LimiterAssumption
      <4>3. campaignNext[attempts[i].campaign] \in Nat
        BY <4>1 DEF LimiterTypeOK
      <4> QED
        BY <4>1, <4>2, <4>3
    <3>2. over <= campaignNext[j] \/ over <= clock
      BY <1>1, <2>2, <3>1 DEF CeilingsHold, Paced
    <3>a. attempts'[i] = attempts[i]
      BY <1>2, <2>2
    <3>b. attempts'[i].at + Interval = over /\ attempts'[i].campaign = j
      BY <3>a
    <3>3. CASE j = k
      <4>1. campaignNext[k] <= clock
        BY <1>3, <3>1, <3>3
      <4>2. over <= clock
        BY <1>1, <3>1, <3>2, <3>3, <4>1
      <4> QED
        BY <3>b, <4>2
    <3>4. CASE j # k
      <4>1. campaignNext'[j] = IF campaignNext[j] > clock THEN campaignNext[j] ELSE 0
        BY <3>1, <3>4 DEF Take
      <4> QED
        BY <1>1, <1>2, <2>2, <3>1, <3>2, <4>1
    <3> QED
      BY <3>3, <3>4
  <2> QED
    BY <1>1, <2>1, <2>2
<1>9. Apart'
  <2> SUFFICES ASSUME NEW i \in 1..n + 1, NEW j \in 1..n + 1, i < j,
                      attempts'[i].campaign = attempts'[j].campaign,
                      attempts'[i].campaign # NoCampaign
               PROVE  attempts'[j].at >= attempts'[i].at + Interval
    BY <1>2 DEF Apart
  <2>1. i \in 1..n
    BY <1>1
  <2>2. CASE j \in 1..n
    BY <1>1, <1>2, <2>1, <2>2 DEF CeilingsHold
  <2>3. CASE j = n + 1
    <3>1. attempts[i].campaign = k /\ k \in Campaigns
      BY <1>2, <2>1, <2>3
    <3>2. attempts[i].at + Interval <= campaignNext[k] \/ attempts[i].at + Interval <= clock
      BY <1>1, <2>1, <3>1 DEF CeilingsHold, Paced
    <3>3. campaignNext[k] \in Nat /\ campaignNext[k] <= clock /\ Interval \in Nat
      BY <1>3, <3>1, LimiterAssumption DEF LimiterTypeOK
    <3> QED
      BY <1>1, <1>2, <2>1, <2>3, <3>2, <3>3
  <2> QED
    BY <1>1, <2>2, <2>3
<1>10. CeilingsHold'
  <2>1. (LimiterTypeOK /\ Remembered /\ Paced /\ Spaced /\ Apart => CeilingsHold)'
    BY CeilingsFollow, PTL
  <2> QED
    BY <1>5, <1>6, <1>7, <1>8, <1>9, <2>1
<1> QED
  BY <1>5, <1>10

\* A release changes neither the windows nor the paces.
LEMMA ReleaseKeeps ==
    ASSUME LimiterTypeOK, CeilingsHold, Release, MaxConcurrent > 0 => active > 0
    PROVE  /\ LimiterTypeOK'
           /\ CeilingsHold'
<1>1. UNCHANGED <<clock, starts, campaignNext, attempts>>
  BY DEF Release
<1>2. active' \in Nat /\ wakeups' \in Nat
  BY LimiterAssumption DEF Release, LimiterTypeOK
<1>3. LimiterTypeOK'
  BY <1>1, <1>2 DEF LimiterTypeOK
<1>4. Remembered' /\ Paced' /\ Spaced'
  BY <1>1 DEF CeilingsHold, Remembered, Paced, Spaced
<1> QED
  BY <1>1, <1>3, <1>4 DEF CeilingsHold

\* Time only makes starts older.
LEMMA TickKeeps ==
    ASSUME LimiterTypeOK, CeilingsHold, Tick
    PROVE  /\ LimiterTypeOK'
           /\ CeilingsHold'
<1>1. /\ clock \in Nat /\ clock' = clock + 1 /\ clock' \in 0..MaxClock
      /\ UNCHANGED <<active, starts, campaignNext, wakeups, attempts>>
  BY LimiterAssumption DEF Tick, LimiterTypeOK
<1>2. LimiterTypeOK'
  BY <1>1 DEF LimiterTypeOK
<1>3. \A i \in DOMAIN attempts : attempts[i].at \in Nat
  BY AttemptFacts
<1>4. Remembered'
  <2>1. \A i \in DOMAIN attempts : attempts[i].at <= clock + 1
    BY <1>1, <1>3 DEF CeilingsHold, Remembered
  <2>2. ASSUME NEW c \in Ceilings,
               NEW i \in 1..Len(attempts) - Len(starts[c])
        PROVE  attempts[i].at <= (clock + 1) - CeilingLength[c]
    <3>1. attempts[i].at <= clock - CeilingLength[c] /\ i \in DOMAIN attempts
      BY AttemptFacts DEF CeilingsHold, Remembered, LimiterTypeOK
    <3>2. CeilingLength[c] \in Nat /\ attempts[i].at \in Nat
      BY <1>3, <3>1, LimiterAssumption
    <3> QED
      BY <1>1, <3>1, <3>2
  <2> QED
    <3>1. /\ DOMAIN attempts' = DOMAIN attempts /\ attempts' = attempts /\ starts' = starts
          /\ clock' = clock + 1
      BY <1>1
    <3>2. \A i, j \in DOMAIN attempts : i <= j => attempts[i].at <= attempts[j].at
      BY DEF CeilingsHold, Remembered
    <3>3. ASSUME NEW c \in Ceilings
          PROVE  /\ Len(attempts) - Len(starts[c]) >= 0
                 /\ \A i \in 1..Len(starts[c]) :
                        starts[c][i] = attempts[Len(attempts) - Len(starts[c]) + i].at
      BY DEF CeilingsHold, Remembered
    <3> QED
      BY <2>1, <2>2, <3>1, <3>2, <3>3 DEF Remembered
<1>5. Paced'
  <2> SUFFICES ASSUME NEW i \in DOMAIN attempts, attempts[i].campaign \in Campaigns
               PROVE  LET over == attempts[i].at + Interval
                      IN  over <= campaignNext[attempts[i].campaign] \/ over <= clock + 1
    BY <1>1 DEF Paced
  <2>1. LET over == attempts[i].at + Interval
        IN  over <= campaignNext[attempts[i].campaign] \/ over <= clock
    BY DEF CeilingsHold, Paced
  <2>2. attempts[i].at + Interval \in Nat
    BY <1>3, LimiterAssumption
  <2> QED
    BY <1>1, <2>1, <2>2
<1>6. Spaced'
  BY <1>1 DEF CeilingsHold, Spaced
<1> QED
  BY <1>1, <1>2, <1>4, <1>5, <1>6 DEF CeilingsHold

\* A step of somebody else changes nothing here.
LEMMA IdleKeeps ==
    ASSUME LimiterTypeOK, CeilingsHold, UNCHANGED limiterVars
    PROVE  /\ LimiterTypeOK'
           /\ CeilingsHold'
<1>1. LimiterTypeOK'
  BY DEF LimiterTypeOK, limiterVars
<1>2. Remembered' /\ Paced' /\ Spaced'
  BY DEF CeilingsHold, Remembered, Paced, Spaced, limiterVars
<1> QED
  BY <1>1, <1>2 DEF CeilingsHold, limiterVars

\* A limiter that just began has admitted nobody.
LEMMA LimiterInitHolds ==
    ASSUME LimiterInit
    PROVE  /\ LimiterTypeOK
           /\ CeilingsHold
<1>1. LimiterTypeOK
  BY LimiterAssumption DEF LimiterInit, LimiterTypeOK
<1>2. Remembered /\ Paced /\ Spaced /\ Apart
  BY LimiterAssumption DEF LimiterInit, Remembered, Paced, Spaced, Apart
<1> QED
  BY <1>1, <1>2, CeilingsFollow

-----------------------------------------------------------------------------
(* Sequences of servers. *)

\* The servers of a new pool are those its key resolves to.
LEMMA SetToSeqFacts ==
    ASSUME NEW S, IsFiniteSet(S)
    PROVE  /\ SetToSeq(S) \in Seq(S)
           /\ ToSet(SetToSeq(S)) = S
<1> DEFINE n == Cardinality(S)
           IsOrder(f) == f \in [1..n -> S] /\ IsInjective(f)
<1>1. n \in Nat /\ ExistsBijection(1..n, S)
  BY FS_CardinalityType
<1>2. \E f \in [1..n -> S] : IsInjective(f)
  BY <1>1 DEF ExistsBijection, Bijection, Injection, IsInjective
<1> DEFINE g == SetToSeq(S)
<1>3. g \in [1..n -> S] /\ IsInjective(g)
  BY <1>2 DEF SetToSeq
<1> HIDE DEF g, n
<1>4. g \in Injection(1..n, S)
  BY <1>3 DEF Injection, IsInjective
<1>5. Cardinality(1..n) = n /\ IsFiniteSet(1..n)
  <2>1. 1 \in Int /\ n \in Int
    BY <1>1
  <2> QED
    BY <1>1, <2>1, FS_Interval
<1>6. Cardinality(1..n) = Cardinality(S)
  BY <1>5 DEF n
<1>7. g \in Surjection(1..n, S)
  BY <1>4, <1>6, FS_Injection
<1>8. \A x \in S : \E i \in 1..n : g[i] = x
  BY <1>7 DEF Surjection
<1>9. g \in Seq(S) /\ DOMAIN g = 1..n
  BY <1>1, <1>3
<1> QED
  BY <1>3, <1>8, <1>9 DEF ToSet, g

\* The order in which Push tries the servers of its pool.
LEMMA RotationFacts ==
    ASSUME NEW S, NEW s \in Seq(S), NEW next \in Nat,
           NEW t, t = [i \in 1..Len(s) |-> s[((next + i - 1) % Len(s)) + 1]]
    PROVE  t \in Seq(S) /\ ToSet(t) \subseteq ToSet(s)
<1> DEFINE n == Len(s)
<1>1. n \in Nat /\ DOMAIN s = 1..n
  OBVIOUS
<1>2. ASSUME NEW i \in 1..n PROVE ((next + i - 1) % n) + 1 \in 1..n
  <2>1. n \in Nat \ {0} /\ next + i - 1 \in Nat
    BY <1>1
  <2> DEFINE a == next + i - 1
  <2> HIDE DEF a, n
  <2>2. a % n \in 0..n - 1
    BY <2>1 DEF a
  <2> QED
    BY <2>1, <2>2 DEF a
<1>3. t \in Seq(S)
  BY <1>1, <1>2
<1>4. DOMAIN t = 1..n
  OBVIOUS
<1>5. \A i \in 1..n : t[i] \in ToSet(s)
  BY <1>1, <1>2 DEF ToSet
<1> QED
  BY <1>3, <1>4, <1>5 DEF ToSet

-----------------------------------------------------------------------------
(* The invariant, in the parts its steps disturb. *)

Rows == Waiting \cup {"accepted"}

\* What CallsPlaced asks of call d when its record is q.
PlacedAs(d, q) ==
    /\ q.at \in Placed =>
        /\ q.pool \in PoolIds /\ pools[q.pool].key = Key[d]
        /\ \/ pools[q.pool].state = "open"
           \/ pools[q.pool].state = "detached" /\ update[pools[q.pool].update] # "drained"
    /\ q.at \notin Placed => q.pool = 0
    /\ q.at \in Rows => q.server \in ToSet(pools[q.pool].servers)
    /\ q.at = "picking" => ToSet(q.try) \subseteq ToSet(pools[q.pool].servers)
    /\ q.at # "picking" => ToSet(q.try) = {}
    /\ q.reserved => q.at \in Rows /\ Key[d] # System /\ DailyLimit[q.server] > 0
    /\ q.at \in Rows /\ Key[d] # System /\ DailyLimit[q.server] > 0 => q.reserved
    /\ q.at = "accepted" => q.reserved

EveryPlaced == \A d \in Deliveries : PlacedAs(d, call[d])

LEMMA CallsPlacedParts == CallsPlaced <=> EveryPlaced
<1>1. ASSUME CallsPlaced, NEW d \in Deliveries PROVE PlacedAs(d, call[d])
  BY <1>1 DEF CallsPlaced, PlacedAs, PoolOf, Rows
<1>2. ASSUME NEW d \in Deliveries, PlacedAs(d, call[d])
      PROVE  LET q == call[d]
             IN  /\ q.at \in Placed =>
                    /\ q.pool \in PoolIds /\ pools[q.pool].key = Key[d]
                    /\ \/ pools[q.pool].state = "open"
                       \/ pools[q.pool].state = "detached" /\ update[pools[q.pool].update] # "drained"
                 /\ q.at \notin Placed => q.pool = 0
                 /\ q.at \in Waiting \cup {"accepted"} => q.server \in ToSet(PoolOf(d).servers)
                 /\ ToSet(q.try) \subseteq IF q.at = "picking" THEN ToSet(PoolOf(d).servers) ELSE {}
                 /\ q.reserved <=> /\ q.at \in Waiting \cup {"accepted"}
                                   /\ Key[d] # System /\ DailyLimit[q.server] > 0
                 /\ q.at = "accepted" => q.reserved
  BY <1>2 DEF PlacedAs, PoolOf, Rows
<1> QED
  BY <1>1, <1>2 DEF CallsPlaced, EveryPlaced

Live == {"open", "detached"}

TokensExact ==
    \A s \in Servers, g \in PoolIds :
        /\ tokens[s][g].connections = Cardinality(Holding(s, g, "connections"))
        /\ tokens[s][g].delay = Cardinality(Holding(s, g, "delay"))
        /\ tokens[s][g].delay <= 1

Sharing(s) == {p \in PoolIds : pools[p].state \in Live /\ s \in ToSet(pools[p].servers)}
RefsExact == \A s \in Servers : gates[s].refs = Cardinality(Sharing(s))

ReservedOf(s) == {d \in Deliveries : call[d].server = s /\ call[d].reserved}
ReservedExact == \A s \in Servers : reserved[s] = Cardinality(ReservedOf(s))

Sending == {d \in Deliveries : call[d].at = "sending"}
ActiveExact ==
    IF MaxConcurrent > 0 THEN active = Cardinality(Sending) /\ active <= MaxConcurrent
    ELSE active = 0

Calls == TypeOK /\ CallsPlaced
Pools == PoolsPlaced /\ CachePlaced /\ GatesPlaced /\ RefsExact
Counts == TokensExact /\ ReservedExact /\ ActiveExact /\ QuotaHeld
DInv == Calls /\ Pools /\ Counts /\ CeilingsHold

-----------------------------------------------------------------------------
(* What it implies. *)

\* Sets of calls and of pools are finite.
LEMMA SetsFinite ==
    /\ \A D \in SUBSET Deliveries : IsFiniteSet(D) /\ Cardinality(D) \in Nat
    /\ \A P \in SUBSET PoolIds : IsFiniteSet(P) /\ Cardinality(P) \in Nat
<1>1. IsFiniteSet(Deliveries)
  BY DeliveryAssumption
<1>2. IsFiniteSet(PoolIds)
  <2>1. 1 \in Int /\ MaxPools \in Int
    BY DeliveryAssumption
  <2> QED
    BY <2>1, FS_Interval DEF PoolIds
<1> QED
  BY <1>1, <1>2, FS_Subset, FS_CardinalityType

\* A call that holds a token goes through a server of its pool, at the gate the
\* server has now.
LEMMA HolderFacts ==
    ASSUME Calls, GatesPlaced, NEW d \in Deliveries, call[d].at \in Waiting
    PROVE  /\ call[d].pool \in PoolIds /\ call[d].server \in Servers
           /\ pools[call[d].pool].state \in Live
           /\ call[d].server \in ToSet(pools[call[d].pool].servers)
           /\ GateOf(d) \in PoolIds
           /\ GateOf(d) = gates[call[d].server].gate
<1>1. PlacedAs(d, call[d]) /\ call[d] \in Call
  BY CallsPlacedParts DEF EveryPlaced, Calls, TypeOK
<1>2. /\ call[d].pool \in PoolIds /\ call[d].server \in Servers
      /\ pools[call[d].pool].state \in Live
      /\ call[d].server \in ToSet(pools[call[d].pool].servers)
  BY <1>1 DEF PlacedAs, Placed, Rows, Live, Call
<1>3. GateOf(d) \in PoolIds /\ GateOf(d) = gates[call[d].server].gate
  BY <1>2 DEF GatesPlaced, GateOf, PoolOf, Live
<1> QED
  BY <1>2, <1>3

\* One delayed attempt per server, since the gates of its pools are the same.
LEMMA OneDelayed ==
    ASSUME DInv, NEW s \in Servers
    PROVE  Cardinality({d \in Deliveries : call[d].server = s /\ Holds(d, "delay")}) <= 1
<1> DEFINE D == {d \in Deliveries : call[d].server = s /\ Holds(d, "delay")}
<1>1. CASE D = {}
  <2>1. Cardinality(D) = 0
    BY <1>1, FS_EmptySet
  <2> QED
    BY <2>1
<1>2. CASE D # {}
  <2>1. \A d \in D : GateOf(d) \in PoolIds /\ GateOf(d) = gates[s].gate
    BY HolderFacts DEF DInv, Pools, Holds, Waiting
  <2> DEFINE g == gates[s].gate
  <2>2. g \in PoolIds
    BY <1>2, <2>1
  <2>3. D = Holding(s, g, "delay")
    BY <2>1 DEF Holding
  <2>4. tokens[s][g].delay = Cardinality(D) /\ tokens[s][g].delay <= 1
    BY <2>2, <2>3 DEF DInv, Counts, TokensExact
  <2> QED
    BY <2>4
<1> QED
  BY <1>1, <1>2

\* What a server accepts is in its quota, or could not be written.
LEMMA AcceptedInQuota ==
    ASSUME DInv, NEW s \in rows, DailyLimit[s] > 0
    PROVE  accepted[s][day] <= DailyLimit[s] + unrecorded[s][day]
<1>1. s \in Servers /\ DailyLimit[s] \in Nat
  BY DeliveryAssumption DEF DInv, Calls, TypeOK, AccountServers
<1>2. /\ usage[s][day] \in Nat /\ accepted[s][day] \in Nat /\ unrecorded[s][day] \in Nat
      /\ reserved[s] \in Nat
  BY <1>1 DEF DInv, Calls, TypeOK
<1>3. AcceptedOf(s) \subseteq ReservedOf(s)
  BY CallsPlacedParts DEF EveryPlaced, DInv, Calls, AcceptedOf, ReservedOf, PlacedAs
<1>4. Cardinality(AcceptedOf(s)) <= Cardinality(ReservedOf(s)) /\ Cardinality(AcceptedOf(s)) \in Nat
  <2>1. ReservedOf(s) \in SUBSET Deliveries /\ AcceptedOf(s) \in SUBSET Deliveries
    BY DEF ReservedOf, AcceptedOf
  <2> QED
    BY <1>3, <2>1, SetsFinite, FS_Subset
<1>5. reserved[s] = Cardinality(ReservedOf(s))
  BY <1>1 DEF DInv, Counts, ReservedExact
<1>6. /\ usage[s][day] + reserved[s] <= DailyLimit[s]
      /\ accepted[s][day] <= usage[s][day] + Cardinality(AcceptedOf(s)) + unrecorded[s][day]
  BY DEF DInv, Counts, QuotaHeld
<1> QED
  BY <1>1, <1>2, <1>4, <1>5, <1>6

LEMMA InvImpliesHeld == ASSUME DInv PROVE HeldExact
<1>1. TypeOK /\ QuotaHeld
  BY DEF DInv, Calls, Counts
<1>2. ASSUME NEW s \in Servers
      PROVE  /\ \A g \in PoolIds :
                /\ tokens[s][g].connections = Cardinality(Holding(s, g, "connections"))
                /\ tokens[s][g].delay = Cardinality(Holding(s, g, "delay"))
                /\ tokens[s][g].delay <= 1
             /\ gates[s].refs = Cardinality({p \in PoolIds : /\ pools[p].state \in {"open", "detached"}
                                                             /\ s \in ToSet(pools[p].servers)})
             /\ Cardinality({d \in Deliveries : call[d].server = s /\ Holds(d, "delay")}) <= 1
             /\ reserved[s] = Cardinality({d \in Deliveries : call[d].server = s /\ call[d].reserved})
             /\ s \in rows /\ DailyLimit[s] > 0 =>
                    accepted[s][day] <= DailyLimit[s] + unrecorded[s][day]
  <2>1. \A g \in PoolIds :
            /\ tokens[s][g].connections = Cardinality(Holding(s, g, "connections"))
            /\ tokens[s][g].delay = Cardinality(Holding(s, g, "delay"))
            /\ tokens[s][g].delay <= 1
    BY DEF DInv, Counts, TokensExact
  <2>2. gates[s].refs = Cardinality(Sharing(s))
    BY DEF DInv, Pools, RefsExact
  <2>3. reserved[s] = Cardinality(ReservedOf(s))
    BY DEF DInv, Counts, ReservedExact
  <2> QED
    BY <2>1, <2>2, <2>3, OneDelayed, AcceptedInQuota DEF Sharing, Live, ReservedOf
<1>3. IF MaxConcurrent > 0
      THEN /\ active = Cardinality({d \in Deliveries : call[d].at = "sending"})
           /\ active <= MaxConcurrent
      ELSE active = 0
  BY DEF DInv, Counts, ActiveExact, Sending
<1> QED
  BY <1>1, <1>2, <1>3 DEF HeldExact

LEMMA InvImpliesCurrent == ASSUME DInv PROVE PoolsCurrent
<1>1. CallsPlaced /\ PoolsPlaced /\ CachePlaced /\ GatesPlaced
  BY DEF DInv, Calls, Pools
<1>2. ASSUME NEW d \in Deliveries, Reading(d), call[d].pool # 0 PROVE ~Closed(d)
  <2>1. PlacedAs(d, call[d])
    BY CallsPlacedParts DEF EveryPlaced, DInv, Calls
  <2> QED
    BY <1>2, <2>1 DEF PlacedAs, Closed, PoolOf
<1>3. mutex = 0 => \A k \in Keys : cache[k] # 0 => ToSet(pools[cache[k]].servers) \subseteq rows
  BY <1>1 DEF CachePlaced
<1> QED
  BY <1>1, <1>2, <1>3 DEF PoolsCurrent

-----------------------------------------------------------------------------
(* The beginning. *)

LEMMA ConstantFacts ==
    /\ SystemServer \in Servers /\ AccountServers \subseteq Servers
    /\ SystemServer \notin AccountServers
    /\ 1 \in PoolIds /\ PoolIds \subseteq Nat \ {0} /\ 1 \in Days /\ Days \subseteq Nat
    /\ System \notin Keys
    /\ \A p \in PoolIds : p \in 0..MaxPools
    /\ \A u \in Updates : u \in 0..MaxUpdates /\ u # 0
    /\ \A b \in Bounds : b.faults \in Nat /\ b.days \in Days /\ b.updates \in 0..MaxUpdates
BY DeliveryAssumption DEF PoolIds, AccountServers, Days, Updates

LEMMA NoCallFacts ==
    /\ NoCall \in Call
    /\ [NoCall EXCEPT !.at = "done"] \in Call
    /\ NoPool \in Pool
<1>1. << >> \in Seq(Servers) /\ 0 \in 0..MaxPools /\ 0 \in 0..MaxUpdates
  BY DeliveryAssumption
<1>2. NoCall \in Call
  BY <1>1, ConstantFacts DEF NoCall, Call, Stages
<1>3. [NoCall EXCEPT !.at = "done"] \in Call
  BY <1>1, ConstantFacts DEF NoCall, Call, Stages
<1>4. NoPool \in Pool
  BY <1>1 DEF NoPool, Pool, Keys
<1> QED
  BY <1>2, <1>3, <1>4

LEMMA InitHolds == ASSUME Init PROVE DInv
<1>1. LimiterTypeOK /\ CeilingsHold
  BY LimiterInitHolds DEF Init
<1>2. pools \in [PoolIds -> Pool]
  <2>1. [NoPool EXCEPT !.key = System, !.servers = <<SystemServer>>,
                       !.gate = [s \in Servers |-> 1], !.state = "open"] \in Pool
    <3>1. <<SystemServer>> \in Seq(Servers) /\ 0 \in 0..MaxUpdates
      BY ConstantFacts, DeliveryAssumption
    <3> QED
      BY <3>1, NoCallFacts DEF NoPool, Pool
  <2> QED
    BY <2>1, NoCallFacts DEF Init
<1>3. /\ call \in [Deliveries -> Call]
      /\ \A d \in Deliveries : call[d] = NoCall
  BY NoCallFacts DEF Init
<1>4. TypeOK
  <2>1. bound \in Bounds /\ faults \in 0..bound.faults
    BY ConstantFacts DEF Init
  <2>2. cache \in [Keys -> 0..MaxPools] /\ mutex \in 0..MaxUpdates
    BY DeliveryAssumption DEF Init
  <2>3. tokens \in [Servers -> [PoolIds -> [connections : Nat, delay : Nat]]]
    BY DEF Init, NoTokens
  <2>4. gates \in [Servers -> [refs : Nat, gate : Nat]]
    BY DEF Init
  <2> QED
    BY <1>1, <1>2, <1>3, <2>1, <2>2, <2>3, <2>4, ConstantFacts DEF Init, TypeOK
<1>5. CallsPlaced
  <2>1. ASSUME NEW d \in Deliveries PROVE PlacedAs(d, NoCall)
    BY DEF PlacedAs, NoCall, Placed, Rows, Waiting, ToSet
  <2> QED
    BY <1>3, <2>1, CallsPlacedParts DEF EveryPlaced
<1>6. /\ pools[1].state = "open" /\ pools[1].key = System /\ pools[1].servers = <<SystemServer>>
      /\ \A s \in Servers : pools[1].gate[s] = 1
      /\ \A p \in PoolIds : p # 1 => pools[p] = NoPool
  BY ConstantFacts DEF Init, NoPool
<1>7. PoolsPlaced
  <2>1. NoPool.state = "absent" /\ NoPool.key = Account /\ NoPool.servers = << >>
    BY DEF NoPool
  <2>2. Account # System
    BY ConstantFacts DEF Keys
  <2> QED
    BY <1>6, <2>1, <2>2, ConstantFacts DEF PoolsPlaced, ToSet
<1>8. CachePlaced
  BY ConstantFacts DEF Init, CachePlaced
<1>9. ToSet(<<SystemServer>>) = {SystemServer}
  BY DEF ToSet
<1>10. GatesPlaced
  <2>1. NoPool.state = "absent"
    BY DEF NoPool
  <2>2. \A p \in PoolIds : pools[p].state # "absent" => p = 1
    BY <1>6, <2>1
  <2>3. gates[SystemServer].gate = 1 /\ \A s \in Servers : s # SystemServer => gates[s].gate = 0
    BY ConstantFacts DEF Init
  <2>4. \A s \in Servers : s \in ToSet(pools[1].servers) => s = SystemServer
    BY <1>6, <1>9
  <2> QED
    BY <1>6, <2>2, <2>3, <2>4, ConstantFacts DEF GatesPlaced
<1>11. RefsExact
  <2>1. NoPool.state = "absent"
    BY DEF NoPool
  <2>2. ASSUME NEW s \in Servers PROVE Sharing(s) = IF s = SystemServer THEN {1} ELSE {}
    BY <1>6, <1>9, <2>1, ConstantFacts DEF Sharing, Live
  <2>3. \A s \in Servers : gates[s].refs = IF s = SystemServer THEN 1 ELSE 0
    BY DEF Init
  <2> QED
    BY <2>2, <2>3, FS_EmptySet, FS_Singleton DEF RefsExact
<1>12. /\ \A s \in Servers, g \in PoolIds :
            Holding(s, g, "connections") = {} /\ Holding(s, g, "delay") = {}
       /\ \A s \in Servers : ReservedOf(s) = {} /\ AcceptedOf(s) = {}
       /\ Sending = {}
  BY <1>3 DEF Holding, Holds, ReservedOf, AcceptedOf, Sending, NoCall
<1>13. Cardinality({}) = 0
  BY FS_EmptySet
<1>14. TokensExact
  <2>1. \A s \in Servers, g \in PoolIds : tokens[s][g].connections = 0 /\ tokens[s][g].delay = 0
    BY DEF Init, NoTokens
  <2>2. ASSUME NEW s \in Servers, NEW g \in PoolIds
        PROVE  /\ tokens[s][g].connections = Cardinality(Holding(s, g, "connections"))
               /\ tokens[s][g].delay = Cardinality(Holding(s, g, "delay"))
               /\ tokens[s][g].delay <= 1
    <3>1. Holding(s, g, "connections") = {} /\ Holding(s, g, "delay") = {}
      BY <1>12
    <3>2. tokens[s][g].connections = 0 /\ tokens[s][g].delay = 0
      BY <2>1
    <3> QED
      BY <1>13, <3>1, <3>2
  <2> QED
    BY <2>2 DEF TokensExact
<1>15. ReservedExact
  BY <1>12, <1>13 DEF ReservedExact, Init
<1>16. ActiveExact
  BY <1>12, <1>13, LimiterAssumption DEF ActiveExact, Init, LimiterInit
<1>17. QuotaHeld
  <2>1. \A s \in rows : s \in Servers /\ DailyLimit[s] \in Nat
    BY ConstantFacts, DeliveryAssumption DEF Init
  <2>2. \A s \in Servers : reserved[s] = 0
    BY DEF Init
  <2>3. \A s \in Servers, t \in Days : usage[s][t] = 0 /\ accepted[s][t] = 0 /\ unrecorded[s][t] = 0
    BY DEF Init
  <2>4. day = 1 /\ day \in Days
    BY ConstantFacts DEF Init
  <2>5. ASSUME NEW s \in rows, DailyLimit[s] > 0
        PROVE  /\ usage[s][day] + reserved[s] <= DailyLimit[s]
               /\ accepted[s][day] <= usage[s][day] + Cardinality(AcceptedOf(s)) + unrecorded[s][day]
               /\ \A t \in Days : t > day => usage[s][t] = 0 /\ accepted[s][t] = 0 /\ unrecorded[s][t] = 0
    <3>1. Cardinality(AcceptedOf(s)) = 0
      BY <1>12, <1>13, <2>1
    <3>2. s \in Servers /\ reserved[s] = 0 /\ DailyLimit[s] \in Nat
      BY <2>1, <2>2
    <3>3. \A t \in Days : usage[s][t] = 0 /\ accepted[s][t] = 0 /\ unrecorded[s][t] = 0
      BY <2>3, <3>2
    <3>4. usage[s][day] = 0 /\ accepted[s][day] = 0 /\ unrecorded[s][day] = 0
      BY <2>4, <3>3
    <3> QED
      BY <3>1, <3>2, <3>3, <3>4
  <2> QED
    BY <2>5 DEF QuotaHeld
<1> QED
  BY <1>1, <1>4, <1>5, <1>7, <1>8, <1>10, <1>11, <1>14, <1>15, <1>16, <1>17
     DEF DInv, Calls, Pools, Counts

-----------------------------------------------------------------------------
(* A step that moves one call, d, from its record to q. *)

Becomes(d, q) == d \in Deliveries /\ q \in Call /\ call' = [call EXCEPT ![d] = q]

LEMMA BecomesFacts ==
    ASSUME TypeOK, NEW d, NEW q, Becomes(d, q)
    PROVE  /\ call' \in [Deliveries -> Call]
           /\ call'[d] = q
           /\ \A e \in Deliveries : e # d => call'[e] = call[e]
BY DEF Becomes, TypeOK

\* Where nothing else moves it is enough that d is placed as q.
LEMMA MoveKeepsPlaced ==
    ASSUME TypeOK, CallsPlaced, Pools, NEW d, NEW q, Becomes(d, q), PlacedAs(d, q), UNCHANGED UpdateVars
    PROVE  CallsPlaced' /\ Pools'
<1>1. UNCHANGED <<rows, cache, pools, update, mutex, gates>>
  BY DEF UpdateVars
<1>2. ASSUME NEW e \in Deliveries PROVE PlacedAs(e, call[e])'
  <2>1. PlacedAs(e, call'[e])
    BY BecomesFacts, CallsPlacedParts DEF EveryPlaced
  <2> QED
    BY <1>1, <2>1 DEF PlacedAs
<1>3. CallsPlaced'
  <2>1. (CallsPlaced <=> EveryPlaced)'
    BY CallsPlacedParts, PTL
  <2> QED
    BY <1>2, <2>1 DEF EveryPlaced
<1>4. PoolsPlaced' /\ CachePlaced' /\ GatesPlaced'
  BY <1>1 DEF Pools, PoolsPlaced, CachePlaced, GatesPlaced
<1>5. RefsExact'
  BY <1>1 DEF Pools, RefsExact, Sharing
<1> QED
  BY <1>3, <1>4, <1>5 DEF Pools

\* The type of the state after it.
LEMMA MoveKeepsType ==
    ASSUME TypeOK, LimiterTypeOK', NEW d, NEW q, Becomes(d, q), UNCHANGED UpdateVars,
           UNCHANGED <<day, cancelled, closing, bound>>, faults' \in 0..bound.faults,
           tokens' \in [Servers -> [PoolIds -> [connections : Nat, delay : Nat]]],
           usage' \in [Servers -> [Days -> Nat]], reserved' \in [Servers -> Nat],
           accepted' \in [Servers -> [Days -> Nat]], unrecorded' \in [Servers -> [Days -> Nat]]
    PROVE  TypeOK'
<1>1. call' \in [Deliveries -> Call]
  BY BecomesFacts
<1> QED
  BY <1>1 DEF TypeOK, UpdateVars

-----------------------------------------------------------------------------
(* The tokens. *)

Tokened(q, kind) ==
    q.at \in (IF kind = "connections"
              THEN {"connected", "gate", "delayed", "limiter", "parked", "sending"}
              ELSE {"delayed", "limiter", "parked", "sending"})

LEMMA HoldingAfter ==
    ASSUME TypeOK, NEW d, NEW q, Becomes(d, q), pools' = pools, NEW s, NEW g, NEW kind
    PROVE  Holding(s, g, kind)' =
            IF q.server = s /\ Tokened(q, kind) /\ pools[q.pool].gate[q.server] = g
            THEN Holding(s, g, kind) \cup {d} ELSE Holding(s, g, kind) \ {d}
<1>1. \A e \in Deliveries :
        e \in Holding(s, g, kind) <=> /\ call[e].server = s /\ Tokened(call[e], kind)
                                      /\ pools[call[e].pool].gate[call[e].server] = g
  BY DEF Holding, Holds, Tokened, GateOf, PoolOf
<1>2. \A e \in Deliveries :
        e \in Holding(s, g, kind)' <=> /\ call'[e].server = s /\ Tokened(call'[e], kind)
                                       /\ pools[call'[e].pool].gate[call'[e].server] = g
  BY DEF Holding, Holds, Tokened, GateOf, PoolOf
<1>3. Holding(s, g, kind) \subseteq Deliveries /\ Holding(s, g, kind)' \subseteq Deliveries /\ d \in Deliveries
  BY DEF Holding, Becomes
<1> QED
  BY <1>1, <1>2, <1>3, BecomesFacts

\* A call that keeps its tokens.
LEMMA TokensStay ==
    ASSUME TypeOK, TokensExact, NEW d, NEW q, Becomes(d, q), pools' = pools, tokens' = tokens,
           Tokened(q, "connections") <=> Tokened(call[d], "connections"),
           Tokened(q, "delay") <=> Tokened(call[d], "delay"),
           Tokened(q, "connections") => q.server = call[d].server /\ q.pool = call[d].pool
    PROVE  TokensExact'
<1>1. Tokened(q, "delay") => Tokened(q, "connections")
  BY DEF Tokened
<1>2. ASSUME NEW s, NEW g, NEW kind \in {"connections", "delay"}
      PROVE  Holding(s, g, kind)' = Holding(s, g, kind)
  <2>1. d \in Holding(s, g, kind) <=>
            /\ call[d].server = s /\ Tokened(call[d], kind)
            /\ pools[call[d].pool].gate[call[d].server] = g
    BY DEF Holding, Holds, Tokened, GateOf, PoolOf, Becomes
  <2>2. (q.server = s /\ Tokened(q, kind) /\ pools[q.pool].gate[q.server] = g)
        <=> d \in Holding(s, g, kind)
    BY <1>1, <2>1
  <2> QED
    BY <2>2, HoldingAfter
<1> QED
  BY <1>2 DEF TokensExact

\* A call that has tokens is counted.
LEMMA HolderCounted ==
    ASSUME Calls, GatesPlaced, TokensExact, NEW d \in Deliveries, NEW kind \in {"connections", "delay"},
           Tokened(call[d], kind)
    PROVE  LET s == call[d].server
               g == GateOf(d)
           IN  /\ s \in Servers /\ g \in PoolIds
               /\ d \in Holding(s, g, kind)
               /\ Cardinality(Holding(s, g, kind)) > 0
<1> DEFINE s == call[d].server
           g == GateOf(d)
<1>1. s \in Servers /\ g \in PoolIds
  BY HolderFacts DEF Tokened, Waiting
<1>2. d \in Holding(s, g, kind)
  BY DEF Holding, Holds, Tokened
<1>3. Holding(s, g, kind) \in SUBSET Deliveries
  BY DEF Holding
<1>4. Cardinality(Holding(s, g, kind)) \in Nat /\ IsFiniteSet(Holding(s, g, kind))
  BY <1>3, SetsFinite
<1>5. Cardinality(Holding(s, g, kind)) # 0
  BY <1>2, <1>4, FS_EmptySet
<1> QED
  BY <1>1, <1>2, <1>4, <1>5

\* What a server's gates hold.
Gate == [connections : Nat, delay : Nat]

\* A call that gives back what it holds.
LEMMA TokensReturned ==
    ASSUME Calls, GatesPlaced, TokensExact, NEW d, NEW q, Becomes(d, q), pools' = pools,
           tokens' = Returned(d), ~Tokened(q, "connections")
    PROVE  /\ tokens' \in [Servers -> [PoolIds -> [connections : Nat, delay : Nat]]]
           /\ TokensExact'
<1>a. call[d].server \in Servers
  BY DEF Calls, TypeOK, Call, Becomes
<1>b. PICK s \in Servers : s = call[d].server
  BY <1>a
<1>c. PICK g : g = GateOf(d)
  OBVIOUS
<1>1. TypeOK /\ d \in Deliveries /\ s \in Servers
  BY DEF Calls, Becomes
<1>2. ~Tokened(q, "delay")
  BY DEF Tokened
<1>3. \A t \in Servers, h \in PoolIds, kind \in {"connections", "delay"} :
        Holding(t, h, kind)' = Holding(t, h, kind) \ {d}
  <2> SUFFICES ASSUME NEW t \in Servers, NEW h \in PoolIds, NEW kind \in {"connections", "delay"}
               PROVE  Holding(t, h, kind)' = Holding(t, h, kind) \ {d}
    OBVIOUS
  <2>1. ~Tokened(q, kind)
    BY <1>2
  <2> QED
    BY <1>1, <2>1, HoldingAfter
<1>4. \A t \in Servers, h \in PoolIds, kind \in {"connections", "delay"} :
        d \in Holding(t, h, kind) <=> t = s /\ h = g /\ Tokened(call[d], kind)
  BY <1>1, <1>b, <1>c DEF Holding, Holds, Tokened
<1>5. Tokened(call[d], "connections") <=> Holds(d, "connections")
  BY DEF Tokened, Holds
<1>6. Tokened(call[d], "delay") <=> Holds(d, "delay")
  BY DEF Tokened, Holds
<1>7. Tokened(call[d], "delay") => Tokened(call[d], "connections")
  BY DEF Tokened
<1>8. \A t \in Servers, h \in PoolIds :
        /\ tokens[t][h].connections \in Nat /\ tokens[t][h].delay \in Nat /\ tokens[t][h].delay <= 1
        /\ tokens[t][h].connections = Cardinality(Holding(t, h, "connections"))
        /\ tokens[t][h].delay = Cardinality(Holding(t, h, "delay"))
        /\ tokens[t][h] \in [connections : Nat, delay : Nat]
  BY <1>1 DEF TypeOK, TokensExact
<1>9. \A t \in Servers, h \in PoolIds, kind \in {"connections", "delay"} :
        Cardinality(Holding(t, h, kind) \ {d}) =
            IF d \in Holding(t, h, kind) THEN Cardinality(Holding(t, h, kind)) - 1
            ELSE Cardinality(Holding(t, h, kind))
  <2> SUFFICES ASSUME NEW t \in Servers, NEW h \in PoolIds, NEW kind \in {"connections", "delay"}
               PROVE  Cardinality(Holding(t, h, kind) \ {d}) =
                        IF d \in Holding(t, h, kind) THEN Cardinality(Holding(t, h, kind)) - 1
                        ELSE Cardinality(Holding(t, h, kind))
    OBVIOUS
  <2>1. Holding(t, h, kind) \in SUBSET Deliveries
    BY DEF Holding
  <2> QED
    BY <2>1, SetsFinite, FS_RemoveElement
<1>10. CASE ~Tokened(call[d], "connections")
  <2>1. tokens' = tokens
    BY <1>1, <1>5, <1>10 DEF Returned, TypeOK
  <2>2. \A t \in Servers, h \in PoolIds, kind \in {"connections", "delay"} :
            Holding(t, h, kind)' = Holding(t, h, kind)
    <3> SUFFICES ASSUME NEW t \in Servers, NEW h \in PoolIds, NEW kind \in {"connections", "delay"}
                 PROVE  Holding(t, h, kind)' = Holding(t, h, kind)
      OBVIOUS
    <3>1. ~Tokened(call[d], kind)
      BY <1>7, <1>10
    <3>2. d \notin Holding(t, h, kind)
      BY <1>4, <3>1
    <3>3. Holding(t, h, kind)' = Holding(t, h, kind) \ {d}
      BY <1>3
    <3> QED
      BY <3>2, <3>3
  <2> QED
    BY <1>1, <1>8, <2>1, <2>2 DEF TokensExact, TypeOK
<1>11. CASE Tokened(call[d], "connections")
  <2>1. g \in PoolIds /\ tokens[s][g].connections > 0
    BY <1>1, <1>b, <1>c, <1>8, <1>11, HolderCounted
  <2>2. Holds(d, "delay") => tokens[s][g].delay > 0
    BY <1>1, <1>b, <1>c, <1>6, <1>8, HolderCounted
  <2> DEFINE less == [connections |-> tokens[s][g].connections - 1,
                      delay |-> IF Holds(d, "delay") THEN tokens[s][g].delay - 1 ELSE tokens[s][g].delay]
  <2>3. tokens' = [tokens EXCEPT ![s] = [tokens[s] EXCEPT ![g] = less]]
    <3>1. Holds(d, "connections")
      BY <1>5, <1>11
    <3> QED
      BY <1>b, <1>c, <3>1 DEF Returned
  <2>4. less \in [connections : Nat, delay : Nat]
    BY <1>1, <1>8, <2>1, <2>2
  <2>5. /\ tokens' \in [Servers -> [PoolIds -> [connections : Nat, delay : Nat]]]
        /\ tokens'[s][g] = less
        /\ \A t \in Servers, h \in PoolIds : (t # s \/ h # g) => tokens'[t][h] = tokens[t][h]
    <3> HIDE DEF less
    <3> QED
      BY <1>1, <2>1, <2>3, <2>4 DEF TypeOK
  <2>6. ASSUME NEW t \in Servers, NEW h \in PoolIds
        PROVE  /\ tokens'[t][h].connections = Cardinality(Holding(t, h, "connections")')
               /\ tokens'[t][h].delay = Cardinality(Holding(t, h, "delay")')
               /\ tokens'[t][h].delay <= 1
    <3>1. CASE t = s /\ h = g
      <4>1. less.connections = tokens[s][g].connections - 1
            /\ less.delay = IF Holds(d, "delay") THEN tokens[s][g].delay - 1 ELSE tokens[s][g].delay
        OBVIOUS
      <4>2. d \in Holding(s, g, "connections")
            /\ (d \in Holding(s, g, "delay") <=> Holds(d, "delay"))
        BY <1>1, <1>4, <1>6, <1>11, <2>1
      <4>3. /\ tokens[s][g].connections \in Nat /\ tokens[s][g].delay \in Nat
            /\ tokens[s][g].delay <= 1
            /\ tokens[s][g].connections = Cardinality(Holding(s, g, "connections"))
            /\ tokens[s][g].delay = Cardinality(Holding(s, g, "delay"))
        BY <1>1, <1>8, <2>1
      <4> HIDE DEF less
      <4>4. /\ Cardinality(Holding(s, g, "connections")') = Cardinality(Holding(s, g, "connections")) - 1
            /\ Cardinality(Holding(s, g, "delay")') =
                IF Holds(d, "delay") THEN Cardinality(Holding(s, g, "delay")) - 1
                ELSE Cardinality(Holding(s, g, "delay"))
        <5>1. /\ Holding(s, g, "connections")' = Holding(s, g, "connections") \ {d}
              /\ Holding(s, g, "delay")' = Holding(s, g, "delay") \ {d}
          BY <1>1, <1>3, <2>1
        <5>2. Cardinality(Holding(s, g, "connections") \ {d}) = Cardinality(Holding(s, g, "connections")) - 1
          BY <1>1, <1>9, <2>1, <4>2
        <5>3. CASE Holds(d, "delay")
          <6>1. Cardinality(Holding(s, g, "delay") \ {d}) = Cardinality(Holding(s, g, "delay")) - 1
            BY <1>1, <1>9, <2>1, <4>2, <5>3
          <6> QED
            BY <5>1, <5>2, <5>3, <6>1
        <5>4. CASE ~Holds(d, "delay")
          <6>1. Cardinality(Holding(s, g, "delay") \ {d}) = Cardinality(Holding(s, g, "delay"))
            BY <1>1, <1>9, <2>1, <4>2, <5>4
          <6> QED
            BY <5>1, <5>2, <5>4, <6>1
        <5> QED
          BY <5>3, <5>4
      <4>5. tokens'[t][h] = less
        BY <2>5, <3>1
      <4>6. /\ less.connections = Cardinality(Holding(s, g, "connections")')
            /\ less.delay = Cardinality(Holding(s, g, "delay")')
            /\ less.delay <= 1
        <5>1. CASE Holds(d, "delay")
          BY <4>1, <4>3, <4>4, <5>1
        <5>2. CASE ~Holds(d, "delay")
          BY <4>1, <4>3, <4>4, <5>2
        <5> QED
          BY <5>1, <5>2
      <4> QED
        BY <3>1, <4>5, <4>6
    <3>2. CASE ~(t = s /\ h = g)
      <4>1. d \notin Holding(t, h, "connections") /\ d \notin Holding(t, h, "delay")
        BY <1>4, <3>2
      <4> HIDE DEF less
      <4>2. /\ Cardinality(Holding(t, h, "connections")') = Cardinality(Holding(t, h, "connections"))
            /\ Cardinality(Holding(t, h, "delay")') = Cardinality(Holding(t, h, "delay"))
        BY <1>3, <1>9, <4>1
      <4>3. tokens'[t][h] = tokens[t][h]
        BY <2>5, <3>2
      <4> QED
        BY <1>8, <4>2, <4>3
    <3> QED
      BY <3>1, <3>2
  <2> QED
    BY <2>5, <2>6 DEF TokensExact
<1> QED
  BY <1>10, <1>11

\* A call that is given a token: of its server, for its attempts in progress ...
LEMMA ConnectionTaken ==
    ASSUME Calls, GatesPlaced, TokensExact, NEW d, NEW q, Becomes(d, q), pools' = pools,
           call[d].at \in Waiting, q.server = call[d].server, q.pool = call[d].pool,
           ~Tokened(call[d], "connections"), Tokened(q, "connections"), ~Tokened(q, "delay"),
           tokens' = [tokens EXCEPT ![call[d].server][GateOf(d)].connections = @ + 1]
    PROVE  /\ tokens' \in [Servers -> [PoolIds -> [connections : Nat, delay : Nat]]]
           /\ TokensExact'
<1>1. d \in Deliveries /\ TypeOK
  BY DEF Becomes, Calls
<1>2. PICK s \in Servers, g \in PoolIds : s = call[d].server /\ g = GateOf(d)
  BY <1>1, HolderFacts
<1>3. ~Tokened(call[d], "delay")
  BY DEF Tokened
<1>4. \A t \in Servers, h \in PoolIds :
        /\ tokens[t][h].connections \in Nat /\ tokens[t][h].delay \in Nat /\ tokens[t][h].delay <= 1
        /\ tokens[t][h].connections = Cardinality(Holding(t, h, "connections"))
        /\ tokens[t][h].delay = Cardinality(Holding(t, h, "delay"))
  BY <1>1 DEF TypeOK, TokensExact
<1>5. /\ tokens' \in [Servers -> [PoolIds -> [connections : Nat, delay : Nat]]]
      /\ tokens'[s][g].connections = tokens[s][g].connections + 1
      /\ tokens'[s][g].delay = tokens[s][g].delay
      /\ \A t \in Servers, h \in PoolIds : (t # s \/ h # g) => tokens'[t][h] = tokens[t][h]
  <2>0. PICK new : new = [tokens[s][g] EXCEPT !.connections = @ + 1]
    OBVIOUS
  <2>1. tokens' = [tokens EXCEPT ![s] = [tokens[s] EXCEPT ![g] = new]]
    <3>1. tokens' = [tokens EXCEPT ![s][g].connections = @ + 1]
      BY <1>2
    <3> QED
      BY <2>0, <3>1
  <2>2. tokens[s][g] \in [connections : Nat, delay : Nat]
    BY <1>1, <1>2 DEF TypeOK
  <2>3. new \in Gate
    BY <2>0, <2>2 DEF Gate
  <2>4. new.connections = tokens[s][g].connections + 1 /\ new.delay = tokens[s][g].delay
    BY <2>0, <2>2
  <2>5. tokens \in [Servers -> [PoolIds -> Gate]]
    BY <1>1 DEF TypeOK, Gate
  <2>6. /\ tokens' \in [Servers -> [PoolIds -> Gate]]
        /\ tokens'[s][g] = new
        /\ \A t \in Servers, h \in PoolIds : (t # s \/ h # g) => tokens'[t][h] = tokens[t][h]
    BY <1>2, <2>1, <2>3, <2>5
  <2> QED
    BY <2>4, <2>6 DEF Gate
<1>6. ASSUME NEW t \in Servers, NEW h \in PoolIds
      PROVE  /\ tokens'[t][h].connections = Cardinality(Holding(t, h, "connections")')
             /\ tokens'[t][h].delay = Cardinality(Holding(t, h, "delay")')
             /\ tokens'[t][h].delay <= 1
  <2>1. d \notin Holding(t, h, "connections") /\ d \notin Holding(t, h, "delay")
    BY <1>3 DEF Holding, Holds, Tokened
  <2>2. Holding(t, h, "delay")' = Holding(t, h, "delay")
    <3>1. Holding(t, h, "delay")' = Holding(t, h, "delay") \ {d}
      BY <1>1, HoldingAfter
    <3> QED
      BY <2>1, <3>1
  <2>3. pools[q.pool].gate[q.server] = g
    BY <1>2 DEF GateOf, PoolOf
  <2>4. Holding(t, h, "connections")' =
            IF t = s /\ h = g THEN Holding(t, h, "connections") \cup {d} ELSE Holding(t, h, "connections")
    <3>1. Holding(t, h, "connections")' =
            IF q.server = t /\ Tokened(q, "connections") /\ pools[q.pool].gate[q.server] = h
            THEN Holding(t, h, "connections") \cup {d} ELSE Holding(t, h, "connections") \ {d}
      BY <1>1, HoldingAfter
    <3> QED
      BY <1>2, <2>1, <2>3, <3>1
  <2>5. Holding(t, h, "connections") \in SUBSET Deliveries
    BY DEF Holding
  <2>6. Cardinality(Holding(t, h, "connections") \cup {d}) = Cardinality(Holding(t, h, "connections")) + 1
    <3> QED
      BY <2>1, <2>5, SetsFinite, FS_AddElement
  <2>7. CASE t = s /\ h = g
    <3>1. Cardinality(Holding(t, h, "connections")') = Cardinality(Holding(t, h, "connections")) + 1
      BY <2>4, <2>6, <2>7
    <3>2. tokens'[t][h].connections = tokens[t][h].connections + 1 /\ tokens'[t][h].delay = tokens[t][h].delay
      BY <1>5, <2>7
    <3> QED
      BY <1>4, <2>2, <3>1, <3>2
  <2>8. CASE ~(t = s /\ h = g)
    <3>1. Holding(t, h, "connections")' = Holding(t, h, "connections")
      BY <2>4, <2>8
    <3>2. tokens'[t][h] = tokens[t][h]
      BY <1>5, <2>8
    <3> QED
      BY <1>4, <2>2, <3>1, <3>2
  <2> QED
    BY <2>7, <2>8
<1> QED
  BY <1>5, <1>6 DEF TokensExact

\* ... and for its pause.
LEMMA DelayTaken ==
    ASSUME Calls, GatesPlaced, TokensExact, NEW d, NEW q, Becomes(d, q), pools' = pools,
           call[d].at \in Waiting, q.server = call[d].server, q.pool = call[d].pool,
           Tokened(call[d], "connections"), Tokened(q, "connections"),
           ~Tokened(call[d], "delay"), Tokened(q, "delay"),
           tokens[call[d].server][GateOf(d)].delay < 1,
           tokens' = [tokens EXCEPT ![call[d].server][GateOf(d)].delay = @ + 1]
    PROVE  /\ tokens' \in [Servers -> [PoolIds -> [connections : Nat, delay : Nat]]]
           /\ TokensExact'
<1>1. d \in Deliveries /\ TypeOK
  BY DEF Becomes, Calls
<1>2. PICK s \in Servers, g \in PoolIds : s = call[d].server /\ g = GateOf(d)
  BY <1>1, HolderFacts
<1>4. \A t \in Servers, h \in PoolIds :
        /\ tokens[t][h].connections \in Nat /\ tokens[t][h].delay \in Nat /\ tokens[t][h].delay <= 1
        /\ tokens[t][h].connections = Cardinality(Holding(t, h, "connections"))
        /\ tokens[t][h].delay = Cardinality(Holding(t, h, "delay"))
  BY <1>1 DEF TypeOK, TokensExact
<1>5. /\ tokens' \in [Servers -> [PoolIds -> [connections : Nat, delay : Nat]]]
      /\ tokens'[s][g].connections = tokens[s][g].connections
      /\ tokens'[s][g].delay = tokens[s][g].delay + 1
      /\ \A t \in Servers, h \in PoolIds : (t # s \/ h # g) => tokens'[t][h] = tokens[t][h]
  <2>0. PICK new : new = [tokens[s][g] EXCEPT !.delay = @ + 1]
    OBVIOUS
  <2>1. tokens' = [tokens EXCEPT ![s] = [tokens[s] EXCEPT ![g] = new]]
    <3>1. tokens' = [tokens EXCEPT ![s][g].delay = @ + 1]
      BY <1>2
    <3> QED
      BY <2>0, <3>1
  <2>2. tokens[s][g] \in [connections : Nat, delay : Nat]
    BY <1>1, <1>2 DEF TypeOK
  <2>3. new \in Gate
    BY <2>0, <2>2 DEF Gate
  <2>4. new.connections = tokens[s][g].connections /\ new.delay = tokens[s][g].delay + 1
    BY <2>0, <2>2
  <2>5. tokens \in [Servers -> [PoolIds -> Gate]]
    BY <1>1 DEF TypeOK, Gate
  <2>6. /\ tokens' \in [Servers -> [PoolIds -> Gate]]
        /\ tokens'[s][g] = new
        /\ \A t \in Servers, h \in PoolIds : (t # s \/ h # g) => tokens'[t][h] = tokens[t][h]
    BY <1>2, <2>1, <2>3, <2>5
  <2> QED
    BY <2>4, <2>6 DEF Gate
<1>6. ASSUME NEW t \in Servers, NEW h \in PoolIds
      PROVE  /\ tokens'[t][h].connections = Cardinality(Holding(t, h, "connections")')
             /\ tokens'[t][h].delay = Cardinality(Holding(t, h, "delay")')
             /\ tokens'[t][h].delay <= 1
  <2>1. /\ d \notin Holding(t, h, "delay")
        /\ d \in Holding(t, h, "connections") <=> t = s /\ h = g
    BY <1>1, <1>2 DEF Holding, Holds, Tokened
  <2>3. pools[q.pool].gate[q.server] = g
    BY <1>2 DEF GateOf, PoolOf
  <2>2. Holding(t, h, "connections")' = Holding(t, h, "connections")
    <3>1. Holding(t, h, "connections")' =
            IF q.server = t /\ Tokened(q, "connections") /\ pools[q.pool].gate[q.server] = h
            THEN Holding(t, h, "connections") \cup {d} ELSE Holding(t, h, "connections") \ {d}
      BY <1>1, HoldingAfter
    <3> QED
      BY <1>2, <2>1, <2>3, <3>1
  <2>4. Holding(t, h, "delay")' =
            IF t = s /\ h = g THEN Holding(t, h, "delay") \cup {d} ELSE Holding(t, h, "delay")
    <3>1. Holding(t, h, "delay")' =
            IF q.server = t /\ Tokened(q, "delay") /\ pools[q.pool].gate[q.server] = h
            THEN Holding(t, h, "delay") \cup {d} ELSE Holding(t, h, "delay") \ {d}
      BY <1>1, HoldingAfter
    <3> QED
      BY <1>2, <2>1, <2>3, <3>1
  <2>5. Holding(t, h, "delay") \in SUBSET Deliveries
    BY DEF Holding
  <2>6. Cardinality(Holding(t, h, "delay") \cup {d}) = Cardinality(Holding(t, h, "delay")) + 1
    <3> QED
      BY <2>1, <2>5, SetsFinite, FS_AddElement
  <2>7. CASE t = s /\ h = g
    <3>1. Cardinality(Holding(t, h, "delay")') = Cardinality(Holding(t, h, "delay")) + 1
      BY <2>4, <2>6, <2>7
    <3>2. tokens'[t][h].delay = tokens[t][h].delay + 1
          /\ tokens'[t][h].connections = tokens[t][h].connections
      BY <1>5, <2>7
    <3>3. tokens[t][h].delay < 1
      BY <1>2, <2>7
    <3>4. tokens[t][h].delay \in Nat /\ tokens[t][h].delay = Cardinality(Holding(t, h, "delay"))
      BY <1>4
    <3>5. tokens'[t][h].connections = Cardinality(Holding(t, h, "connections")')
      BY <1>4, <2>2, <3>2
    <3>6. PICK was \in Nat : was = tokens[t][h].delay
      BY <3>4
    <3>7. was = 0
      BY <3>3, <3>6
    <3>8. tokens'[t][h].delay = 1
      BY <3>2, <3>6, <3>7
    <3>9. Cardinality(Holding(t, h, "delay")') = 1
      BY <3>1, <3>4, <3>6, <3>7
    <3>10. tokens'[t][h].delay <= 1
      BY <3>8
    <3>11. tokens'[t][h].delay = Cardinality(Holding(t, h, "delay")')
      BY <3>8, <3>9
    <3> QED
      BY <3>5, <3>10, <3>11
  <2>8. CASE ~(t = s /\ h = g)
    <3>1. Holding(t, h, "delay")' = Holding(t, h, "delay")
      BY <2>4, <2>8
    <3>2. tokens'[t][h] = tokens[t][h]
      BY <1>5, <2>8
    <3> QED
      BY <1>4, <2>2, <3>1, <3>2
  <2> QED
    BY <2>7, <2>8
<1> QED
  BY <1>5, <1>6 DEF TokensExact

-----------------------------------------------------------------------------
(* The reserved places, the attempts in progress and the quota. *)

LEMMA ReservedAfter ==
    ASSUME TypeOK, NEW d, NEW q, Becomes(d, q), NEW s
    PROVE  /\ q.server = s /\ q.reserved => ReservedOf(s)' = ReservedOf(s) \cup {d}
           /\ ~(q.server = s /\ q.reserved) => ReservedOf(s)' = ReservedOf(s) \ {d}
<1>1. \A e \in Deliveries :
        /\ e \in ReservedOf(s) <=> call[e].server = s /\ call[e].reserved
        /\ e \in ReservedOf(s)' <=> call'[e].server = s /\ call'[e].reserved
  BY DEF ReservedOf
<1>2. ReservedOf(s) \subseteq Deliveries /\ ReservedOf(s)' \subseteq Deliveries /\ d \in Deliveries
  BY DEF ReservedOf, Becomes
<1> QED
  BY <1>1, <1>2, BecomesFacts

\* How many places the calls have.
LEMMA ReservedCounts ==
    ASSUME NEW s, NEW d \in Deliveries
    PROVE  /\ Cardinality(ReservedOf(s)) \in Nat
           /\ d \in ReservedOf(s) => /\ Cardinality(ReservedOf(s)) > 0
                                     /\ Cardinality(ReservedOf(s) \ {d}) = Cardinality(ReservedOf(s)) - 1
           /\ d \notin ReservedOf(s) =>
                Cardinality(ReservedOf(s) \cup {d}) = Cardinality(ReservedOf(s)) + 1
<1>1. ReservedOf(s) \in SUBSET Deliveries
  BY DEF ReservedOf
<1>2. IsFiniteSet(ReservedOf(s)) /\ Cardinality(ReservedOf(s)) \in Nat
  BY <1>1, SetsFinite
<1>3. d \in ReservedOf(s) => Cardinality(ReservedOf(s)) > 0
  <2>1. Cardinality(ReservedOf(s)) = 0 => ReservedOf(s) = {}
    BY <1>2, FS_EmptySet
  <2> QED
    BY <1>2, <2>1
<1>4. d \in ReservedOf(s) => Cardinality(ReservedOf(s) \ {d}) = Cardinality(ReservedOf(s)) - 1
  BY <1>2, FS_RemoveElement
<1>5. d \notin ReservedOf(s) => Cardinality(ReservedOf(s) \cup {d}) = Cardinality(ReservedOf(s)) + 1
  BY <1>2, FS_AddElement
<1> QED
  BY <1>2, <1>3, <1>4, <1>5

\* A call that keeps its place, or has none before and after.
LEMMA ReservedStays ==
    ASSUME TypeOK, ReservedExact, NEW d, NEW q, Becomes(d, q), reserved' = reserved,
           q.reserved => call[d].reserved /\ q.server = call[d].server,
           call[d].reserved => q.reserved
    PROVE  ReservedExact'
<1>1. ASSUME NEW s \in Servers PROVE ReservedOf(s)' = ReservedOf(s)
  <2>1. d \in ReservedOf(s) <=> call[d].server = s /\ call[d].reserved
    BY DEF ReservedOf, Becomes
  <2> QED
    BY <2>1, ReservedAfter
<1> QED
  BY <1>1 DEF ReservedExact

\* A call that is given a place.
LEMMA ReservedTaken ==
    ASSUME TypeOK, ReservedExact, NEW d, NEW q, Becomes(d, q), ~call[d].reserved, q.reserved,
           reserved' = [reserved EXCEPT ![q.server] = @ + 1]
    PROVE  /\ reserved' \in [Servers -> Nat]
           /\ ReservedExact'
<1>1. q.server \in Servers /\ reserved \in [Servers -> Nat] /\ d \in Deliveries
  BY DEF Becomes, Call, TypeOK
<1>2. reserved' \in [Servers -> Nat]
  BY <1>1
<1>3. ASSUME NEW s \in Servers PROVE reserved'[s] = Cardinality(ReservedOf(s)')
  <2>1. d \notin ReservedOf(s) /\ reserved[s] = Cardinality(ReservedOf(s))
    BY DEF ReservedOf, ReservedExact
  <2>2. CASE s = q.server
    <3>1. ReservedOf(s)' = ReservedOf(s) \cup {d}
      BY <2>2, ReservedAfter
    <3> QED
      BY <1>1, <2>1, <2>2, <3>1, ReservedCounts
  <2>3. CASE s # q.server
    <3>1. ReservedOf(s)' = ReservedOf(s)
      BY <2>1, <2>3, ReservedAfter
    <3> QED
      BY <1>1, <2>1, <2>3, <3>1
  <2> QED
    BY <2>2, <2>3
<1> QED
  BY <1>2, <1>3 DEF ReservedExact

\* A call that gives its place back, when it has one.
LEMMA ReservedReturned ==
    ASSUME TypeOK, ReservedExact, NEW d, NEW q, Becomes(d, q), ~q.reserved, reserved' = Unreserved(d)
    PROVE  /\ reserved' \in [Servers -> Nat]
           /\ ReservedExact'
           /\ \A s \in Servers : reserved'[s] <= reserved[s]
           /\ call[d].reserved => reserved'[call[d].server] = reserved[call[d].server] - 1
<1>1. call[d].server \in Servers /\ reserved \in [Servers -> Nat] /\ d \in Deliveries
  BY DEF Becomes, Call, TypeOK
<1>2. ASSUME NEW s \in Servers
      PROVE  /\ d \in ReservedOf(s) <=> call[d].server = s /\ call[d].reserved
             /\ reserved[s] = Cardinality(ReservedOf(s))
             /\ ReservedOf(s)' = ReservedOf(s) \ {d}
  <2>1. /\ d \in ReservedOf(s) <=> call[d].server = s /\ call[d].reserved
        /\ reserved[s] = Cardinality(ReservedOf(s))
    BY <1>1 DEF ReservedOf, ReservedExact
  <2> QED
    BY <2>1, ReservedAfter
<1>3. CASE call[d].reserved
  <2>1. reserved[call[d].server] > 0
    <3>1. d \in ReservedOf(call[d].server)
      BY <1>1, <1>2, <1>3
    <3>2. Cardinality(ReservedOf(call[d].server)) > 0
      BY <1>1, <3>1, ReservedCounts
    <3> QED
      BY <1>1, <1>2, <3>2
  <2>2. reserved' = [reserved EXCEPT ![call[d].server] = @ - 1]
    BY <1>3, <2>1 DEF Unreserved
  <2>3. ASSUME NEW s \in Servers PROVE reserved'[s] = Cardinality(ReservedOf(s)')
    <3>1. CASE s = call[d].server
      <4>1. Cardinality(ReservedOf(s) \ {d}) = Cardinality(ReservedOf(s)) - 1
        BY <1>1, <1>2, <1>3, <3>1, ReservedCounts
      <4>2. ReservedOf(s)' = ReservedOf(s) \ {d} /\ reserved[s] = Cardinality(ReservedOf(s))
        BY <1>2
      <4>3. reserved'[s] = reserved[s] - 1
        BY <1>1, <2>2, <3>1
      <4> QED
        BY <4>1, <4>2, <4>3
    <3>2. CASE s # call[d].server
      <4>1. ReservedOf(s)' = ReservedOf(s)
        BY <1>2, <3>2
      <4>2. reserved'[s] = reserved[s]
        BY <1>1, <2>2, <3>2
      <4> QED
        BY <1>2, <4>1, <4>2
    <3> QED
      BY <3>1, <3>2
  <2> QED
    BY <1>1, <2>1, <2>2, <2>3 DEF ReservedExact
<1>4. CASE ~call[d].reserved
  <2>1. reserved' = reserved
    BY <1>4 DEF Unreserved
  <2>2. \A s \in Servers : ReservedOf(s)' = ReservedOf(s)
    BY <1>2, <1>4
  <2> QED
    BY <1>1, <1>2, <1>4, <2>1, <2>2 DEF ReservedExact
<1> QED
  BY <1>3, <1>4

LEMMA SendingAfter ==
    ASSUME TypeOK, NEW d, NEW q, Becomes(d, q)
    PROVE  /\ q.at = "sending" => Sending' = Sending \cup {d}
           /\ q.at # "sending" => Sending' = Sending \ {d}
           /\ d \in Sending <=> call[d].at = "sending"
           /\ IsFiniteSet(Sending) /\ Cardinality(Sending) \in Nat
<1>1. \A e \in Deliveries :
        /\ e \in Sending <=> call[e].at = "sending"
        /\ e \in Sending' <=> call'[e].at = "sending"
  BY DEF Sending
<1>2. Sending \subseteq Deliveries /\ Sending' \subseteq Deliveries /\ d \in Deliveries
  BY DEF Sending, Becomes
<1>3. IsFiniteSet(Sending) /\ Cardinality(Sending) \in Nat
  BY <1>2, SetsFinite
<1> QED
  BY <1>1, <1>2, <1>3, BecomesFacts

\* A call that neither begins nor ends an attempt.
LEMMA ActiveStays ==
    ASSUME TypeOK, ActiveExact, NEW d, NEW q, Becomes(d, q), active' = active,
           q.at = "sending" <=> call[d].at = "sending"
    PROVE  ActiveExact'
<1>1. Sending' = Sending
  BY SendingAfter
<1> QED
  BY <1>1 DEF ActiveExact

\* A call whose attempt begins: the limiter had room.
LEMMA ActiveBegins ==
    ASSUME TypeOK, ActiveExact, NEW d, NEW q, Becomes(d, q), NEW k, Take(k),
           call[d].at # "sending", q.at = "sending"
    PROVE  ActiveExact'
<1>1. LimiterTypeOK
  BY DEF TypeOK
<1>2. MaxConcurrent > 0 => active < MaxConcurrent
  BY <1>1, WaitFacts DEF Take
<1>3. Sending' = Sending \cup {d} /\ d \notin Sending /\ IsFiniteSet(Sending)
  BY SendingAfter
<1>4. Cardinality(Sending') = Cardinality(Sending) + 1
  BY <1>3, FS_AddElement
<1>5. active' = IF MaxConcurrent > 0 THEN active + 1 ELSE active
  BY DEF Take
<1>6. active \in Nat /\ MaxConcurrent \in Nat
  BY <1>1, LimiterAssumption DEF LimiterTypeOK
<1> QED
  BY <1>2, <1>4, <1>5, <1>6 DEF ActiveExact

\* A call whose attempt ends was counted.
LEMMA ActiveEnds ==
    ASSUME TypeOK, ActiveExact, NEW d, NEW q, Becomes(d, q), Release,
           call[d].at = "sending", q.at # "sending"
    PROVE  /\ MaxConcurrent > 0 => active > 0
           /\ ActiveExact'
<1>1. Sending' = Sending \ {d} /\ d \in Sending /\ IsFiniteSet(Sending) /\ Cardinality(Sending) \in Nat
  BY SendingAfter
<1>2. Cardinality(Sending') = Cardinality(Sending) - 1
  BY <1>1, FS_RemoveElement
<1>3. Cardinality(Sending) > 0
  <2>1. Cardinality(Sending) = 0 => Sending = {}
    BY <1>1, FS_EmptySet
  <2> QED
    BY <1>1, <2>1
<1>4. active' = IF MaxConcurrent > 0 THEN active - 1 ELSE active
  BY DEF Release
<1>5. active \in Nat /\ MaxConcurrent \in Nat
  BY LimiterAssumption DEF TypeOK, LimiterTypeOK
<1> QED
  BY <1>1, <1>2, <1>3, <1>4, <1>5 DEF ActiveExact

LEMMA AcceptedAfter ==
    ASSUME TypeOK, NEW d, NEW q, Becomes(d, q), NEW s
    PROVE  /\ q.server = s /\ q.at = "accepted" => AcceptedOf(s)' = AcceptedOf(s) \cup {d}
           /\ ~(q.server = s /\ q.at = "accepted") => AcceptedOf(s)' = AcceptedOf(s) \ {d}
           /\ d \in AcceptedOf(s) <=> call[d].server = s /\ call[d].at = "accepted"
           /\ IsFiniteSet(AcceptedOf(s)) /\ Cardinality(AcceptedOf(s)) \in Nat
<1>1. \A e \in Deliveries :
        /\ e \in AcceptedOf(s) <=> call[e].server = s /\ call[e].at = "accepted"
        /\ e \in AcceptedOf(s)' <=> call'[e].server = s /\ call'[e].at = "accepted"
  BY DEF AcceptedOf
<1>2. AcceptedOf(s) \subseteq Deliveries /\ AcceptedOf(s)' \subseteq Deliveries /\ d \in Deliveries
  BY DEF AcceptedOf, Becomes
<1>3. IsFiniteSet(AcceptedOf(s)) /\ Cardinality(AcceptedOf(s)) \in Nat
  BY <1>2, SetsFinite
<1> QED
  BY <1>1, <1>2, <1>3, BecomesFacts

\* What a server with a quota has of each number.
LEMMA QuotaTypes ==
    ASSUME TypeOK, NEW s \in rows
    PROVE  /\ s \in Servers /\ s # SystemServer /\ day \in Days /\ day \in Nat /\ DailyLimit[s] \in Nat
           /\ \A t \in Days : usage[s][t] \in Nat /\ accepted[s][t] \in Nat /\ unrecorded[s][t] \in Nat
           /\ reserved[s] \in Nat
BY ConstantFacts, DeliveryAssumption DEF TypeOK, AccountServers

\* No message is accepted or written, and no place is taken.
LEMMA QuotaStays ==
    ASSUME TypeOK, QuotaHeld, NEW d, NEW q, Becomes(d, q),
           call[d].at # "accepted", q.at # "accepted",
           reserved' \in [Servers -> Nat], \A s \in Servers : reserved'[s] <= reserved[s],
           UNCHANGED <<usage, accepted, unrecorded, day, rows>>
    PROVE  QuotaHeld'
<1>1. ASSUME NEW s \in rows, DailyLimit[s] > 0
      PROVE  /\ usage[s][day] + reserved'[s] <= DailyLimit[s]
             /\ AcceptedOf(s)' = AcceptedOf(s)
  <2>1. AcceptedOf(s)' = AcceptedOf(s)
    BY AcceptedAfter
  <2>2. usage[s][day] + reserved[s] <= DailyLimit[s]
    BY <1>1 DEF QuotaHeld
  <2>3. reserved'[s] <= reserved[s] /\ reserved'[s] \in Nat
    BY QuotaTypes
  <2>4. usage[s][day] \in Nat /\ reserved[s] \in Nat /\ DailyLimit[s] \in Nat
    BY QuotaTypes
  <2> QED
    BY <2>1, <2>2, <2>3, <2>4
<1> QED
  BY <1>1 DEF QuotaHeld

-----------------------------------------------------------------------------
(* The steps of a call. *)

\* A step that takes nothing and gives nothing back.
LEMMA PlainMove ==
    ASSUME DInv, NEW d, NEW q, Becomes(d, q), PlacedAs(d, q),
           UNCHANGED <<limiterVars, UpdateVars, day, cancelled, closing, bound, tokens, usage, reserved,
                       accepted, unrecorded>>,
           faults' \in 0..bound.faults,
           Tokened(q, "connections") <=> Tokened(call[d], "connections"),
           Tokened(q, "delay") <=> Tokened(call[d], "delay"),
           Tokened(q, "connections") => q.server = call[d].server /\ q.pool = call[d].pool,
           q.reserved => call[d].reserved /\ q.server = call[d].server,
           call[d].reserved => q.reserved,
           q.at = "sending" <=> call[d].at = "sending",
           call[d].at # "accepted", q.at # "accepted"
    PROVE  DInv'
<1>1. TypeOK /\ CallsPlaced /\ Pools /\ LimiterTypeOK
  BY DEF DInv, Calls, TypeOK
<1>2. LimiterTypeOK' /\ CeilingsHold'
  BY <1>1, IdleKeeps DEF DInv
<1>3. UNCHANGED <<rows, cache, pools, update, mutex, gates>>
  BY DEF UpdateVars
<1>4. TypeOK'
  BY <1>1, <1>2, MoveKeepsType DEF TypeOK
<1>5. CallsPlaced' /\ Pools'
  BY <1>1, MoveKeepsPlaced
<1>6. TokensExact'
  BY <1>1, <1>3, TokensStay DEF DInv, Counts
<1>7. ReservedExact'
  BY <1>1, ReservedStays DEF DInv, Counts
<1>8. ActiveExact'
  BY <1>1, ActiveStays DEF DInv, Counts, limiterVars
<1>9. QuotaHeld'
  <2>1. reserved' \in [Servers -> Nat] /\ \A s \in Servers : reserved'[s] <= reserved[s]
    BY <1>1 DEF TypeOK
  <2> QED
    BY <1>1, <1>3, <2>1, QuotaStays DEF DInv, Counts
<1> QED
  BY <1>2, <1>4, <1>5, <1>6, <1>7, <1>8, <1>9 DEF DInv, Calls, Counts

\* The call is over: it holds nothing and has no pool.
Done == [NoCall EXCEPT !.at = "done"]

LEMMA DoneFacts ==
    /\ Done \in Call
    /\ Done.at = "done" /\ ~Done.reserved
    /\ ~Tokened(Done, "connections") /\ ~Tokened(Done, "delay")
    /\ \A d \in Deliveries : PlacedAs(d, Done)
<1>1. Done.at = "done" /\ ~Done.reserved /\ Done.pool = 0 /\ Done.try = << >>
  BY DEF Done, NoCall
<1>2. ToSet(<< >>) = {}
  BY DEF ToSet
<1> QED
  BY <1>1, <1>2, NoCallFacts DEF Done, Tokened, PlacedAs, Placed, Rows, Waiting

\* The same call, one stage further.
LEMMA StageFacts ==
    ASSUME TypeOK, NEW d \in Deliveries, NEW stage \in Stages
    PROVE  LET q == [call[d] EXCEPT !.at = stage]
           IN  /\ q \in Call
               /\ q.at = stage /\ q.pool = call[d].pool /\ q.server = call[d].server
               /\ q.try = call[d].try
               /\ q.reserved => call[d].reserved
               /\ call[d].reserved => q.reserved
<1>1. call[d] \in Call
  BY DEF TypeOK
<1> QED
  BY <1>1 DEF Call

\* What the invariant says of one call.
LEMMA CallFacts ==
    ASSUME DInv, NEW d \in Deliveries
    PROVE  /\ call[d] \in Call
           /\ PlacedAs(d, call[d])
BY CallsPlacedParts DEF DInv, Calls, TypeOK, EveryPlaced

LEMMA FaultsStay == ASSUME DInv, faults' = faults PROVE faults' \in 0..bound.faults
BY DEF DInv, Calls, TypeOK

LEMMA EnterKeeps == ASSUME DInv, NEW d \in Deliveries, Enter(d) PROVE DInv'
<1>1. TypeOK /\ call[d].at = "idle" /\ call[d] \in Call /\ PlacedAs(d, call[d]) /\ faults' \in 0..bound.faults
  BY CallFacts, FaultsStay DEF Enter, DInv, Calls, EnvironmentVars
<1>2. ~Tokened(call[d], "connections") /\ ~Tokened(call[d], "delay") /\ ~call[d].reserved
  BY <1>1 DEF Tokened, PlacedAs, Rows, Waiting
<1>3. CASE closing = "open"
  <2> DEFINE q == [call[d] EXCEPT !.at = "entered"]
  <2>1. q \in Call /\ q.at = "entered" /\ q.pool = call[d].pool /\ q.try = call[d].try /\ ~q.reserved
    BY <1>1, <1>2, StageFacts, ZenonT(40) DEF Stages
  <2>2. call' = [call EXCEPT ![d] = q]
    BY <1>3 DEF Enter, Move
  <2> HIDE DEF q
  <2>3. PlacedAs(d, q)
    BY <1>1, <2>1 DEF PlacedAs, Placed, Rows, Waiting
  <2>4. ~Tokened(q, "connections") /\ ~Tokened(q, "delay")
    BY <2>1 DEF Tokened
  <2> QED
    BY <1>1, <1>2, <2>1, <2>2, <2>3, <2>4, PlainMove DEF Becomes, Enter, EnvironmentVars
<1>4. CASE closing # "open"
  <2>1. call' = [call EXCEPT ![d] = Done]
    BY <1>4 DEF Enter, Finish, Done
  <2> QED
    BY <1>1, <1>2, <2>1, DoneFacts, PlainMove DEF Becomes, Enter, EnvironmentVars
<1> QED
  BY <1>3, <1>4

LEMMA ResolveCachedKeeps == ASSUME DInv, NEW d \in Deliveries, ResolveCached(d) PROVE DInv'
<1>1. TypeOK /\ call[d].at = "entered" /\ call[d] \in Call /\ PlacedAs(d, call[d]) /\ faults' \in 0..bound.faults
  BY CallFacts, FaultsStay DEF ResolveCached, DInv, Calls, EnvironmentVars
<1>2. /\ ~Tokened(call[d], "connections") /\ ~Tokened(call[d], "delay") /\ ~call[d].reserved
      /\ ToSet(call[d].try) = {}
  BY <1>1 DEF Tokened, PlacedAs, Rows, Waiting
<1>3. PICK p \in PoolIds : /\ call' = [call EXCEPT ![d].at = "resolved", ![d].pool = p]
                           /\ pools[p].state = "open" /\ pools[p].key = Key[d]
  <2>1. PoolsPlaced /\ CachePlaced /\ cache \in [Keys -> 0..MaxPools] /\ Key[d] \in Keys \cup {System}
    BY <1>1, DeliveryAssumption DEF DInv, Pools, TypeOK
  <2>2. CASE Key[d] = System
    BY <2>1, <2>2, ConstantFacts DEF ResolveCached, PoolsPlaced
  <2>3. CASE Key[d] # System
    <3>1. cache[Key[d]] \in PoolIds
      BY <2>1, <2>3, DeliveryAssumption DEF ResolveCached, PoolIds
    <3>2. pools[cache[Key[d]]].state = "open" /\ pools[cache[Key[d]]].key = Key[d]
      BY <2>1, <2>3 DEF ResolveCached, CachePlaced
    <3> QED
      BY <2>3, <3>1, <3>2 DEF ResolveCached
  <2> QED
    BY <2>2, <2>3
<1> DEFINE q == [call[d] EXCEPT !.at = "resolved", !.pool = p]
<1>4. /\ q \in Call /\ q.at = "resolved" /\ q.pool = p /\ q.try = call[d].try
      /\ q.reserved => call[d].reserved
  BY <1>1, ConstantFacts DEF Call, Stages
<1>5. call' = [call EXCEPT ![d] = q]
  BY <1>3
<1> HIDE DEF q
<1>6. PlacedAs(d, q)
  BY <1>2, <1>3, <1>4 DEF PlacedAs, Placed, Rows, Waiting
<1>7. ~Tokened(q, "connections") /\ ~Tokened(q, "delay")
  BY <1>4 DEF Tokened
<1> QED
  BY <1>1, <1>2, <1>4, <1>5, <1>6, <1>7, PlainMove DEF Becomes, ResolveCached, EnvironmentVars

\* A call that never came to a server just ends.
LEMMA EndsEarly ==
    ASSUME DInv, NEW d \in Deliveries, call[d].at \in {"entered", "picking"}, Finish(d),
           UNCHANGED <<limiterVars, UpdateVars, day, cancelled, closing, bound, tokens, usage, reserved,
                       accepted, unrecorded>>,
           faults' \in 0..bound.faults
    PROVE  DInv'
<1>1. PlacedAs(d, call[d])
  BY CallFacts
<1>2. ~Tokened(call[d], "connections") /\ ~Tokened(call[d], "delay") /\ ~call[d].reserved
  BY <1>1 DEF Tokened, PlacedAs, Rows, Waiting
<1>3. call' = [call EXCEPT ![d] = Done]
  BY DEF Finish, Done
<1> QED
  BY <1>2, <1>3, DoneFacts, PlainMove DEF Becomes

LEMMA ResolveFailsKeeps == ASSUME DInv, NEW d \in Deliveries, ResolveFails(d) PROVE DInv'
BY EndsEarly, FaultsStay DEF ResolveFails, EnvironmentVars

LEMMA PickFailsKeeps == ASSUME DInv, NEW d \in Deliveries, PickFails(d) PROVE DInv'
<1>1. faults' \in 0..bound.faults
  <2>1. faults \in 0..bound.faults /\ bound.faults \in Nat
    BY ConstantFacts DEF DInv, Calls, TypeOK
  <2>2. faults' = faults \/ (faults < bound.faults /\ faults' = faults + 1)
    BY DEF PickFails
  <2> QED
    BY <2>1, <2>2
<1> QED
  BY <1>1, EndsEarly DEF PickFails

\* A place is reserved only where the limit leaves one.
LEMMA PickServerKeeps == ASSUME DInv, NEW d \in Deliveries, PickServer(d) PROVE DInv'
<1>1. /\ TypeOK /\ call[d].at = "picking" /\ call[d] \in Call /\ PlacedAs(d, call[d])
      /\ faults' \in 0..bound.faults /\ call[d].try # << >>
  BY CallFacts, FaultsStay DEF PickServer, DInv, Calls, EnvironmentVars
<1>2. ~Tokened(call[d], "connections") /\ ~Tokened(call[d], "delay") /\ ~call[d].reserved
  BY <1>1 DEF Tokened, PlacedAs, Rows, Waiting
<1>3. PICK s \in Servers : s = Head(call[d].try) /\ s \in ToSet(call[d].try)
  <2>1. call[d].try \in Seq(Servers)
    BY <1>1 DEF Call
  <2>2. 1 \in DOMAIN call[d].try /\ Head(call[d].try) = call[d].try[1] /\ Head(call[d].try) \in Servers
    BY <1>1, <2>1
  <2> QED
    BY <2>2 DEF ToSet
<1>4. s \in ToSet(pools[call[d].pool].servers) /\ DailyLimit[s] \in Nat
  BY <1>1, <1>3, DeliveryAssumption DEF PlacedAs
<1> DEFINE through == [call[d] EXCEPT !.at = "connections", !.server = s, !.try = << >>]
           placed == [call[d] EXCEPT !.at = "connections", !.server = s, !.try = << >>, !.reserved = TRUE]
           next == [call[d] EXCEPT !.try = Tail(@)]
<1>5. << >> \in Seq(Servers) /\ ToSet(<< >>) = {}
  BY DEF ToSet
<1>6. CASE Key[d] = System \/ DailyLimit[s] = 0
  <2>1. /\ through \in Call /\ through.at = "connections" /\ through.server = s /\ through.try = << >>
        /\ through.pool = call[d].pool /\ ~through.reserved
    BY <1>1, <1>2, <1>5 DEF Call, Stages
  <2>2. call' = [call EXCEPT ![d] = through] /\ reserved' = reserved
    BY <1>3, <1>6 DEF PickServer
  <2> HIDE DEF through
  <2>3. PlacedAs(d, through)
    BY <1>1, <1>4, <1>5, <1>6, <2>1 DEF PlacedAs, Placed, Rows, Waiting
  <2>4. ~Tokened(through, "connections") /\ ~Tokened(through, "delay")
    BY <2>1 DEF Tokened
  <2> QED
    BY <1>1, <1>2, <2>1, <2>2, <2>3, <2>4, PlainMove DEF Becomes, PickServer, EnvironmentVars
<1>7. CASE Key[d] # System /\ DailyLimit[s] # 0 /\ HasQuota(s)
  <2>1. /\ placed \in Call /\ placed.at = "connections" /\ placed.server = s /\ placed.try = << >>
        /\ placed.pool = call[d].pool /\ placed.reserved
    BY <1>1, <1>5 DEF Call, Stages
  <2>2. call' = [call EXCEPT ![d] = placed] /\ reserved' = [reserved EXCEPT ![s] = @ + 1]
    BY <1>3, <1>7 DEF PickServer
  <2> HIDE DEF placed
  <2>3. Becomes(d, placed)
    BY <2>1, <2>2 DEF Becomes
  <2>4. PlacedAs(d, placed)
    BY <1>1, <1>4, <1>5, <1>7, <2>1 DEF PlacedAs, Placed, Rows, Waiting
  <2>5. ~Tokened(placed, "connections") /\ ~Tokened(placed, "delay")
    BY <2>1 DEF Tokened
  <2>6. /\ UNCHANGED <<limiterVars, UpdateVars, day, cancelled, closing, bound>>
        /\ UNCHANGED <<tokens, usage, accepted, unrecorded>>
        /\ UNCHANGED <<rows, cache, pools, update, mutex, gates>>
    BY DEF PickServer, EnvironmentVars, UpdateVars
  <2>7. LimiterTypeOK' /\ CeilingsHold'
    BY <1>1, <2>6, IdleKeeps DEF DInv, TypeOK
  <2>8. reserved' \in [Servers -> Nat] /\ ReservedExact'
    BY <1>1, <1>2, <2>1, <2>2, <2>3, ReservedTaken DEF DInv, Counts
  <2>9. TypeOK'
    BY <1>1, <2>3, <2>6, <2>7, <2>8, MoveKeepsType DEF TypeOK
  <2>10. CallsPlaced' /\ Pools'
    BY <1>1, <2>3, <2>4, <2>6, MoveKeepsPlaced DEF DInv, Calls
  <2>11. TokensExact'
    BY <1>1, <1>2, <2>3, <2>5, <2>6, TokensStay DEF DInv, Counts
  <2>12. ActiveExact'
    BY <1>1, <2>1, <2>3, <2>6, ActiveStays DEF DInv, Counts, limiterVars
  <2>13. QuotaHeld'
    <3>1. ASSUME NEW r \in rows, DailyLimit[r] > 0
          PROVE  /\ usage[r][day] + reserved'[r] <= DailyLimit[r]
                 /\ AcceptedOf(r)' = AcceptedOf(r)
      <4>1. AcceptedOf(r)' = AcceptedOf(r)
        <5>1. ~(call[d].at = "accepted") /\ ~(placed.at = "accepted")
          BY <1>1, <2>1
        <5>2. d \notin AcceptedOf(r) /\ AcceptedOf(r)' = AcceptedOf(r) \ {d}
          BY <1>1, <2>3, <5>1, AcceptedAfter
        <5> QED
          BY <5>2
      <4>2. usage[r][day] + reserved[r] <= DailyLimit[r]
        BY <3>1 DEF DInv, Counts, QuotaHeld
      <4>3. /\ usage[r][day] \in Nat /\ reserved[r] \in Nat /\ DailyLimit[r] \in Nat /\ r \in Servers
            /\ reserved \in [Servers -> Nat]
        BY <1>1, QuotaTypes DEF TypeOK
      <4>4. CASE r = s
        <5>1. reserved'[r] = reserved[r] + 1
          BY <2>2, <4>3, <4>4
        <5>2. usage[r][day] + reserved[r] < DailyLimit[r]
          BY <1>7, <4>4 DEF HasQuota
        <5> QED
          BY <4>1, <4>3, <5>1, <5>2
      <4>5. CASE r # s
        <5>1. reserved'[r] = reserved[r]
          BY <2>2, <4>3, <4>5
        <5> QED
          BY <4>1, <4>2, <5>1
      <4> QED
        BY <4>4, <4>5
    <3> QED
      BY <2>6, <3>1 DEF DInv, Counts, QuotaHeld
  <2> QED
    BY <2>7, <2>8, <2>9, <2>10, <2>11, <2>12, <2>13 DEF DInv, Calls, Counts
<1>8. CASE ~(Key[d] = System \/ DailyLimit[s] = 0) /\ ~HasQuota(s)
  <2>1. Tail(call[d].try) \in Seq(Servers) /\ ToSet(Tail(call[d].try)) \subseteq ToSet(call[d].try)
    <3>1. call[d].try \in Seq(Servers)
      BY <1>1 DEF Call
    <3>2. /\ Tail(call[d].try) \in Seq(Servers)
          /\ \A i \in DOMAIN Tail(call[d].try) :
                i + 1 \in DOMAIN call[d].try /\ Tail(call[d].try)[i] = call[d].try[i + 1]
      BY <1>1, <3>1
    <3> QED
      BY <3>2 DEF ToSet
  <2>2. /\ next \in Call /\ next.at = "picking" /\ next.server = call[d].server
        /\ next.try = Tail(call[d].try) /\ next.pool = call[d].pool /\ ~next.reserved
    BY <1>1, <1>2, <2>1 DEF Call
  <2>3. call' = [call EXCEPT ![d] = next] /\ reserved' = reserved
    BY <1>3, <1>8 DEF PickServer
  <2> HIDE DEF next
  <2>4. PlacedAs(d, next)
    BY <1>1, <2>1, <2>2 DEF PlacedAs, Placed, Rows, Waiting
  <2>5. ~Tokened(next, "connections") /\ ~Tokened(next, "delay")
    BY <2>2 DEF Tokened
  <2> QED
    BY <1>1, <1>2, <2>2, <2>3, <2>4, <2>5, PlainMove DEF Becomes, PickServer, EnvironmentVars
<1> QED
  BY <1>6, <1>7, <1>8

\* A call that waits and goes on waiting keeps its place and its server.
LEMMA WaitingFacts ==
    ASSUME DInv, NEW d \in Deliveries, NEW q \in Call, call[d].at \in Waiting, q.at \in Waiting,
           q.pool = call[d].pool, q.server = call[d].server, q.try = call[d].try,
           q.reserved => call[d].reserved, call[d].reserved => q.reserved
    PROVE  PlacedAs(d, q)
<1>1. PlacedAs(d, call[d])
  BY CallFacts
<1> QED
  BY <1>1 DEF PlacedAs, Placed, Rows, Waiting

\* A step in which only the tokens of a call change.
LEMMA TokenMove ==
    ASSUME DInv, NEW d \in Deliveries, NEW q, Becomes(d, q), call[d].at \in Waiting, q.at \in Waiting,
           q.pool = call[d].pool, q.server = call[d].server, q.try = call[d].try,
           q.reserved => call[d].reserved, call[d].reserved => q.reserved,
           q.at # "sending", call[d].at # "sending",
           UNCHANGED <<limiterVars, UpdateVars, EnvironmentVars, usage, reserved, accepted, unrecorded>>,
           tokens' \in [Servers -> [PoolIds -> [connections : Nat, delay : Nat]]], TokensExact'
    PROVE  DInv'
<1>1. TypeOK /\ CallsPlaced /\ Pools /\ LimiterTypeOK
  BY DEF DInv, Calls, TypeOK
<1>2. LimiterTypeOK' /\ CeilingsHold'
  BY <1>1, IdleKeeps DEF DInv
<1>3. UNCHANGED <<rows, cache, pools, update, mutex, gates>>
  BY DEF UpdateVars
<1>4. UNCHANGED <<day, cancelled, closing, bound>> /\ faults' \in 0..bound.faults
  BY FaultsStay DEF EnvironmentVars
<1>5. TypeOK'
  BY <1>1, <1>2, <1>4, MoveKeepsType DEF TypeOK
<1>6. CallsPlaced' /\ Pools'
  BY <1>1, WaitingFacts, MoveKeepsPlaced DEF Becomes
<1>7. ReservedExact'
  BY <1>1, ReservedStays DEF DInv, Counts
<1>8. ActiveExact'
  BY <1>1, ActiveStays DEF DInv, Counts, limiterVars
<1>9. QuotaHeld'
  <2>1. reserved' \in [Servers -> Nat] /\ \A s \in Servers : reserved'[s] <= reserved[s]
    BY <1>1 DEF TypeOK
  <2>2. call[d].at # "accepted" /\ q.at # "accepted"
    BY DEF Waiting
  <2> QED
    BY <1>1, <1>3, <1>4, <2>1, <2>2, QuotaStays DEF DInv, Counts
<1> QED
  BY <1>2, <1>5, <1>6, <1>7, <1>8, <1>9 DEF DInv, Calls, Counts

LEMMA TakeConnectionKeeps == ASSUME DInv, NEW d \in Deliveries, TakeConnection(d) PROVE DInv'
<1> DEFINE q == [call[d] EXCEPT !.at = "connected"]
<1>1. TypeOK /\ GatesPlaced /\ TokensExact /\ Calls
  BY DEF DInv, Calls, Pools, Counts
<1>2. call[d].at = "connections" /\ call' = [call EXCEPT ![d] = q]
      /\ tokens' = [tokens EXCEPT ![call[d].server][GateOf(d)].connections = @ + 1]
  BY DEF TakeConnection, TakeToken, Move
<1>3. /\ q \in Call /\ q.at = "connected" /\ q.pool = call[d].pool /\ q.server = call[d].server
      /\ q.try = call[d].try
      /\ q.reserved => call[d].reserved
      /\ call[d].reserved => q.reserved
  BY <1>1, StageFacts DEF Stages
<1> HIDE DEF q
<1>4. Becomes(d, q)
  BY <1>2, <1>3 DEF Becomes
<1>5. /\ ~Tokened(call[d], "connections") /\ Tokened(q, "connections") /\ ~Tokened(q, "delay")
      /\ call[d].at \in Waiting /\ q.at \in Waiting
  BY <1>2, <1>3 DEF Tokened, Waiting
<1>6. UNCHANGED <<limiterVars, UpdateVars, EnvironmentVars, usage, reserved, accepted, unrecorded>>
      /\ pools' = pools
  BY DEF TakeConnection, TakeToken, UpdateVars
<1>7. tokens' \in [Servers -> [PoolIds -> [connections : Nat, delay : Nat]]] /\ TokensExact'
  BY <1>1, <1>2, <1>3, <1>4, <1>5, <1>6, ConnectionTaken
<1> QED
  BY <1>2, <1>3, <1>4, <1>5, <1>6, <1>7, TokenMove

LEMMA TakeDelayKeeps == ASSUME DInv, NEW d \in Deliveries, TakeDelay(d) PROVE DInv'
<1> DEFINE q == [call[d] EXCEPT !.at = "delayed"]
<1>1. TypeOK /\ GatesPlaced /\ TokensExact /\ Calls
  BY DEF DInv, Calls, Pools, Counts
<1>2. call[d].at = "gate" /\ call' = [call EXCEPT ![d] = q]
      /\ tokens' = [tokens EXCEPT ![call[d].server][GateOf(d)].delay = @ + 1]
      /\ tokens[call[d].server][GateOf(d)].delay < 1
  BY DEF TakeDelay, TakeToken, Move
<1>3. /\ q \in Call /\ q.at = "delayed" /\ q.pool = call[d].pool /\ q.server = call[d].server
      /\ q.try = call[d].try
      /\ q.reserved => call[d].reserved
      /\ call[d].reserved => q.reserved
  BY <1>1, StageFacts DEF Stages
<1> HIDE DEF q
<1>4. Becomes(d, q)
  BY <1>2, <1>3 DEF Becomes
<1>5. /\ Tokened(call[d], "connections") /\ Tokened(q, "connections")
      /\ ~Tokened(call[d], "delay") /\ Tokened(q, "delay")
      /\ call[d].at \in Waiting /\ q.at \in Waiting
  BY <1>2, <1>3 DEF Tokened, Waiting
<1>6. UNCHANGED <<limiterVars, UpdateVars, EnvironmentVars, usage, reserved, accepted, unrecorded>>
      /\ pools' = pools
  BY DEF TakeDelay, TakeToken, UpdateVars
<1>7. tokens' \in [Servers -> [PoolIds -> [connections : Nat, delay : Nat]]] /\ TokensExact'
  BY <1>1, <1>2, <1>3, <1>4, <1>5, <1>6, DelayTaken
<1> QED
  BY <1>2, <1>3, <1>4, <1>5, <1>6, <1>7, TokenMove

\* The tokens that a call has go with it through the gates.
LEMMA PassGateKeeps == ASSUME DInv, NEW d \in Deliveries, PassGate(d) PROVE DInv'
<1> DEFINE to == IF call[d].at = "connected" THEN "gate" ELSE "limiter"
           q == [call[d] EXCEPT !.at = to]
<1>1. TypeOK /\ Calls /\ call[d].at \in {"connected", "delayed"} /\ faults' \in 0..bound.faults
  BY FaultsStay DEF PassGate, DInv, Calls, EnvironmentVars
<1>2. call' = [call EXCEPT ![d] = q]
  BY DEF PassGate, Move
<1>3. to \in Stages
  BY DEF Stages
<1>4. /\ q \in Call /\ q.at = to /\ q.pool = call[d].pool /\ q.server = call[d].server
      /\ q.try = call[d].try
      /\ q.reserved => call[d].reserved
      /\ call[d].reserved => q.reserved
  BY <1>1, <1>3, StageFacts
<1> HIDE DEF q
<1>5. /\ Tokened(q, "connections") <=> Tokened(call[d], "connections")
      /\ Tokened(q, "delay") <=> Tokened(call[d], "delay")
      /\ call[d].at \in Waiting /\ q.at \in Waiting
      /\ q.at \notin {"sending", "accepted"} /\ call[d].at \notin {"sending", "accepted"}
  BY <1>1, <1>4 DEF Tokened, Waiting
<1>6. PlacedAs(d, q)
  BY <1>4, <1>5, WaitingFacts
<1> QED
  BY <1>1, <1>2, <1>4, <1>5, <1>6, PlainMove DEF Becomes, PassGate, EnvironmentVars

LEMMA ParkKeeps == ASSUME DInv, NEW d \in Deliveries, Park(d) PROVE DInv'
<1> DEFINE q == [call[d] EXCEPT !.at = "parked", !.wakeup = wakeups, !.until = clock + Wait(CampaignOf[d])]
<1>1. /\ TypeOK /\ LimiterTypeOK /\ call[d].at = "limiter" /\ call[d] \in Call
      /\ faults' \in 0..bound.faults
  BY CallFacts, FaultsStay DEF Park, DInv, Calls, EnvironmentVars, TypeOK
<1>2. wakeups \in Nat /\ clock + Wait(CampaignOf[d]) \in Nat
  <2>1. wakeups \in Nat /\ clock \in Nat
    BY <1>1 DEF LimiterTypeOK
  <2> QED
    BY <1>1, <2>1, WaitFacts
<1>3. call' = [call EXCEPT ![d] = q]
  BY DEF Park
<1>4. /\ q \in Call /\ q.at = "parked" /\ q.pool = call[d].pool /\ q.server = call[d].server
      /\ q.try = call[d].try
      /\ q.reserved => call[d].reserved
      /\ call[d].reserved => q.reserved
  BY <1>1, <1>2 DEF Call, Stages
<1> HIDE DEF q
<1>5. /\ Tokened(q, "connections") <=> Tokened(call[d], "connections")
      /\ Tokened(q, "delay") <=> Tokened(call[d], "delay")
      /\ call[d].at \in Waiting /\ q.at \in Waiting
      /\ q.at \notin {"sending", "accepted"} /\ call[d].at \notin {"sending", "accepted"}
  BY <1>1, <1>4 DEF Tokened, Waiting
<1>6. PlacedAs(d, q)
  BY <1>4, <1>5, WaitingFacts
<1> QED
  BY <1>1, <1>3, <1>4, <1>5, <1>6, PlainMove DEF Becomes, Park, EnvironmentVars

LEMMA WakeUpKeeps == ASSUME DInv, NEW d \in Deliveries, WakeUp(d) PROVE DInv'
<1> DEFINE q == [call[d] EXCEPT !.at = "limiter"]
<1>1. TypeOK /\ call[d].at = "parked" /\ faults' \in 0..bound.faults
  BY FaultsStay DEF WakeUp, DInv, Calls, EnvironmentVars
<1>2. call' = [call EXCEPT ![d] = q]
  BY DEF WakeUp, Move
<1>4. /\ q \in Call /\ q.at = "limiter" /\ q.pool = call[d].pool /\ q.server = call[d].server
      /\ q.try = call[d].try
      /\ q.reserved => call[d].reserved
      /\ call[d].reserved => q.reserved
  BY <1>1, StageFacts DEF Stages
<1> HIDE DEF q
<1>5. /\ Tokened(q, "connections") <=> Tokened(call[d], "connections")
      /\ Tokened(q, "delay") <=> Tokened(call[d], "delay")
      /\ call[d].at \in Waiting /\ q.at \in Waiting
      /\ q.at \notin {"sending", "accepted"} /\ call[d].at \notin {"sending", "accepted"}
  BY <1>1, <1>4 DEF Tokened, Waiting
<1>6. PlacedAs(d, q)
  BY <1>4, <1>5, WaitingFacts
<1> QED
  BY <1>1, <1>2, <1>4, <1>5, <1>6, PlainMove DEF Becomes, WakeUp, EnvironmentVars

\* An error path of Push gives everything back that the call holds.
LEMMA AbandonKeeps ==
    ASSUME DInv, NEW d \in Deliveries, call[d].at \in Waiting, Abandon(d),
           UNCHANGED <<UpdateVars, EnvironmentVars, usage, accepted, unrecorded>>,
           LimiterTypeOK', CeilingsHold', ActiveExact'
    PROVE  DInv'
<1>1. TypeOK /\ CallsPlaced /\ Pools /\ Calls /\ GatesPlaced /\ TokensExact
  BY DEF DInv, Calls, Pools, Counts
<1>2. Becomes(d, Done) /\ tokens' = Returned(d) /\ reserved' = Unreserved(d)
  BY DoneFacts DEF Abandon, Finish, Done, Becomes
<1>3. /\ UNCHANGED <<rows, cache, pools, update, mutex, gates>>
      /\ UNCHANGED <<day, cancelled, closing, bound>> /\ faults' \in 0..bound.faults
  BY FaultsStay DEF UpdateVars, EnvironmentVars
<1>4. tokens' \in [Servers -> [PoolIds -> [connections : Nat, delay : Nat]]] /\ TokensExact'
  BY <1>1, <1>2, <1>3, DoneFacts, TokensReturned
<1>5. /\ reserved' \in [Servers -> Nat] /\ ReservedExact'
      /\ \A s \in Servers : reserved'[s] <= reserved[s]
  BY <1>1, <1>2, DoneFacts, ReservedReturned DEF DInv, Counts
<1>6. TypeOK'
  BY <1>1, <1>2, <1>3, <1>4, <1>5, MoveKeepsType DEF TypeOK
<1>7. CallsPlaced' /\ Pools'
  BY <1>1, <1>2, DoneFacts, MoveKeepsPlaced
<1>8. QuotaHeld'
  <2>1. call[d].at # "accepted" /\ Done.at # "accepted"
    BY DoneFacts DEF Waiting
  <2> QED
    BY <1>1, <1>2, <1>3, <1>5, <2>1, QuotaStays DEF DInv, Counts
<1> QED
  BY <1>4, <1>5, <1>6, <1>7, <1>8 DEF DInv, Calls, Counts

LEMMA StopWaitingKeeps == ASSUME DInv, NEW d \in Deliveries, StopWaiting(d) PROVE DInv'
<1>1. /\ TypeOK /\ LimiterTypeOK /\ Abandon(d) /\ call[d].at \in Waiting /\ call[d].at # "sending"
      /\ UNCHANGED <<limiterVars, UpdateVars, EnvironmentVars, usage, accepted, unrecorded>>
  BY DEF StopWaiting, DInv, Calls, TypeOK, Waiting
<1>2. LimiterTypeOK' /\ CeilingsHold'
  BY <1>1, IdleKeeps DEF DInv
<1>3. ActiveExact'
  <2>1. Becomes(d, Done) /\ Done.at # "sending" /\ active' = active
    BY <1>1, DoneFacts DEF Abandon, Finish, Done, Becomes, limiterVars
  <2> QED
    BY <1>1, <2>1, ActiveStays DEF DInv, Counts
<1> QED
  BY <1>1, <1>2, <1>3, AbandonKeeps

LEMMA ServerRefusesKeeps == ASSUME DInv, NEW d \in Deliveries, ServerRefuses(d) PROVE DInv'
<1>1. /\ TypeOK /\ LimiterTypeOK /\ Abandon(d) /\ call[d].at \in Waiting /\ call[d].at = "sending"
      /\ UNCHANGED <<UpdateVars, EnvironmentVars, usage, accepted, unrecorded>> /\ Release
  BY DEF ServerRefuses, DInv, Calls, TypeOK, Waiting
<1>2. Becomes(d, Done) /\ Done.at # "sending"
  BY <1>1, DoneFacts DEF Abandon, Finish, Done, Becomes
<1>3. ActiveExact' /\ (MaxConcurrent > 0 => active > 0)
  BY <1>1, <1>2, ActiveEnds DEF DInv, Counts
<1>4. LimiterTypeOK' /\ CeilingsHold'
  BY <1>1, <1>3, ReleaseKeeps DEF DInv
<1> QED
  BY <1>1, <1>3, <1>4, AbandonKeeps

LEMMA StartAttemptKeeps == ASSUME DInv, NEW d \in Deliveries, StartAttempt(d) PROVE DInv'
<1> DEFINE q == [call[d] EXCEPT !.at = "sending"]
<1>1. /\ TypeOK /\ LimiterTypeOK /\ CallsPlaced /\ Pools /\ call[d].at = "limiter" /\ Take(CampaignOf[d])
      /\ UNCHANGED <<UpdateVars, tokens, usage, reserved, accepted, unrecorded>>
      /\ UNCHANGED <<rows, cache, pools, update, mutex, gates>>
      /\ UNCHANGED <<day, cancelled, closing, bound>> /\ faults' \in 0..bound.faults
  BY FaultsStay DEF StartAttempt, DInv, Calls, TypeOK, UpdateVars, EnvironmentVars
<1>2. call' = [call EXCEPT ![d] = q]
  BY DEF StartAttempt, Move
<1>3. /\ q \in Call /\ q.at = "sending" /\ q.pool = call[d].pool /\ q.server = call[d].server
      /\ q.try = call[d].try
      /\ q.reserved => call[d].reserved
      /\ call[d].reserved => q.reserved
  BY <1>1, StageFacts DEF Stages
<1> HIDE DEF q
<1>4. /\ Tokened(q, "connections") <=> Tokened(call[d], "connections")
      /\ Tokened(q, "delay") <=> Tokened(call[d], "delay")
      /\ call[d].at \in Waiting /\ q.at \in Waiting
      /\ q.at # "accepted" /\ call[d].at # "accepted" /\ call[d].at # "sending"
  BY <1>1, <1>3 DEF Tokened, Waiting
<1>5. Becomes(d, q) /\ PlacedAs(d, q)
  BY <1>2, <1>3, <1>4, WaitingFacts DEF Becomes
<1>6. LimiterTypeOK' /\ CeilingsHold'
  <2>1. CampaignOf[d] \in Campaigns \cup {NoCampaign}
    BY DeliveryAssumption
  <2> QED
    BY <1>1, <2>1, TakeKeeps DEF DInv
<1>7. TypeOK'
  BY <1>1, <1>5, <1>6, MoveKeepsType DEF TypeOK
<1>8. CallsPlaced' /\ Pools'
  BY <1>1, <1>5, MoveKeepsPlaced
<1>9. TokensExact'
  BY <1>1, <1>3, <1>4, <1>5, TokensStay DEF DInv, Counts
<1>10. ReservedExact'
  BY <1>1, <1>3, <1>5, ReservedStays DEF DInv, Counts
<1>11. ActiveExact'
  BY <1>1, <1>3, <1>4, <1>5, ActiveBegins DEF DInv, Counts
<1>12. QuotaHeld'
  <2>1. reserved' \in [Servers -> Nat] /\ \A s \in Servers : reserved'[s] <= reserved[s]
    BY <1>1 DEF TypeOK
  <2> QED
    BY <1>1, <1>4, <1>5, <2>1, QuotaStays DEF DInv, Counts
<1> QED
  BY <1>6, <1>7, <1>8, <1>9, <1>10, <1>11, <1>12 DEF DInv, Calls, Counts

\* An accepted message of a server with a quota has a place in it.
LEMMA AcceptedHasPlace ==
    ASSUME DInv, NEW d \in Deliveries, call[d].at \in Rows, call[d].server \in rows,
           DailyLimit[call[d].server] > 0
    PROVE  call[d].reserved
<1>1. PlacedAs(d, call[d])
  BY CallFacts
<1>2. call[d].pool \in PoolIds /\ pools[call[d].pool].key = Key[d]
      /\ call[d].server \in ToSet(pools[call[d].pool].servers)
  BY <1>1 DEF PlacedAs, Placed, Rows
<1>3. Key[d] # System
  <2> SUFFICES ASSUME Key[d] = System PROVE FALSE
    OBVIOUS
  <2>1. PoolsPlaced
    BY DEF DInv, Pools
  <2>2. pools[call[d].pool].servers = <<SystemServer>>
    BY <1>2, <2>1 DEF PoolsPlaced
  <2>3. call[d].server = SystemServer
    BY <1>2, <2>2 DEF ToSet
  <2> QED
    BY <2>3, QuotaTypes DEF DInv, Calls
<1> QED
  BY <1>1, <1>3 DEF PlacedAs

LEMMA ServerAcceptsKeeps == ASSUME DInv, NEW d \in Deliveries, ServerAccepts(d) PROVE DInv'
<1> DEFINE s == call[d].server
           on == [call[d] EXCEPT !.at = "accepted"]
<1>1. /\ TypeOK /\ LimiterTypeOK /\ CallsPlaced /\ Pools /\ Calls /\ GatesPlaced /\ TokensExact
      /\ call[d].at = "sending" /\ Release /\ call[d] \in Call /\ PlacedAs(d, call[d])
      /\ UNCHANGED <<UpdateVars, usage, reserved, unrecorded>> /\ tokens' = Returned(d)
      /\ UNCHANGED <<rows, cache, pools, update, mutex, gates>>
      /\ UNCHANGED <<day, cancelled, closing, bound>> /\ faults' \in 0..bound.faults
  BY FaultsStay, CallFacts DEF ServerAccepts, DInv, Calls, TypeOK, Counts, Pools, UpdateVars, EnvironmentVars
<1>2. PICK q \in {on, Done} :
        /\ Becomes(d, q) /\ PlacedAs(d, q)
        /\ q.at \in {"accepted", "done"} /\ ~Tokened(q, "connections")
        /\ q.reserved => call[d].reserved /\ q.server = call[d].server
        /\ call[d].reserved => q.reserved /\ q.at = "accepted" /\ q.server = call[d].server
        /\ ~call[d].reserved => q.at = "done"
  <2>1. CASE call[d].reserved
    <3>1. /\ on \in Call /\ on.at = "accepted" /\ on.pool = call[d].pool /\ on.server = call[d].server
          /\ on.try = call[d].try /\ on.reserved
      BY <1>1, <2>1, StageFacts DEF Stages
    <3>2. call' = [call EXCEPT ![d] = on]
      BY <2>1 DEF ServerAccepts, Move
    <3> HIDE DEF on
    <3>3. PlacedAs(d, on)
      BY <1>1, <2>1, <3>1 DEF PlacedAs, Placed, Rows, Waiting
    <3>4. ~Tokened(on, "connections")
      BY <3>1 DEF Tokened
    <3> QED
      BY <2>1, <3>1, <3>2, <3>3, <3>4 DEF Becomes
  <2>2. CASE ~call[d].reserved
    <3>1. call' = [call EXCEPT ![d] = Done]
      BY <2>2 DEF ServerAccepts, Finish, Done
    <3> QED
      BY <2>2, <3>1, DoneFacts DEF Becomes
  <2> QED
    BY <2>1, <2>2
<1>3. q.at # "sending" /\ call[d].at # "accepted"
  BY <1>1, <1>2
<1>4. ActiveExact' /\ (MaxConcurrent > 0 => active > 0)
  BY <1>1, <1>2, <1>3, ActiveEnds DEF DInv, Counts
<1>5. LimiterTypeOK' /\ CeilingsHold'
  BY <1>1, <1>4, ReleaseKeeps DEF DInv
<1>6. tokens' \in [Servers -> [PoolIds -> [connections : Nat, delay : Nat]]] /\ TokensExact'
  BY <1>1, <1>2, TokensReturned
<1>7. s \in Servers /\ day \in Days /\ accepted \in [Servers -> [Days -> Nat]]
      /\ accepted' = [accepted EXCEPT ![s][day] = @ + 1]
  BY <1>1 DEF ServerAccepts, Call, TypeOK
<1>8. /\ accepted' \in [Servers -> [Days -> Nat]]
      /\ \A r \in Servers, t \in Days :
            accepted'[r][t] = IF r = s /\ t = day THEN accepted[r][t] + 1 ELSE accepted[r][t]
  BY <1>7
<1>9. TypeOK'
  BY <1>1, <1>2, <1>5, <1>6, <1>8, MoveKeepsType DEF TypeOK
<1>10. CallsPlaced' /\ Pools'
  BY <1>1, <1>2, MoveKeepsPlaced
<1>11. ReservedExact'
  BY <1>1, <1>2, ReservedStays DEF DInv, Counts
<1>12. QuotaHeld'
  <2>1. ASSUME NEW r \in rows, DailyLimit[r] > 0
        PROVE  /\ accepted'[r][day] <= usage[r][day] + Cardinality(AcceptedOf(r)') + unrecorded[r][day]
               /\ \A t \in Days : t > day => accepted'[r][t] = 0
    <3>1. /\ r \in Servers /\ day \in Nat /\ usage[r][day] \in Nat /\ unrecorded[r][day] \in Nat
          /\ accepted[r][day] \in Nat
      BY <1>1, QuotaTypes
    <3>2. /\ accepted[r][day] <= usage[r][day] + Cardinality(AcceptedOf(r)) + unrecorded[r][day]
          /\ \A t \in Days : t > day => accepted[r][t] = 0
      BY <2>1 DEF DInv, Counts, QuotaHeld
    <3>3. d \notin AcceptedOf(r) /\ IsFiniteSet(AcceptedOf(r)) /\ Cardinality(AcceptedOf(r)) \in Nat
      BY <1>1, <1>2, <1>3, AcceptedAfter
    <3>4. \A t \in Days : t > day => accepted'[r][t] = 0
      BY <1>7, <1>8, <3>1, <3>2, ConstantFacts
    <3>5. CASE r = s
      <4>1. call[d].reserved
        BY <1>1, <2>1, <3>5, AcceptedHasPlace DEF Rows, Waiting
      <4>2. AcceptedOf(r)' = AcceptedOf(r) \cup {d}
        BY <1>1, <1>2, <3>5, <4>1, AcceptedAfter
      <4>3. Cardinality(AcceptedOf(r)') = Cardinality(AcceptedOf(r)) + 1
        BY <3>3, <4>2, FS_AddElement
      <4>4. accepted'[r][day] = accepted[r][day] + 1
        BY <1>7, <1>8, <3>1, <3>5
      <4> QED
        BY <3>1, <3>2, <3>3, <3>4, <4>3, <4>4
    <3>6. CASE r # s
      <4>1. ~(q.server = r /\ q.at = "accepted")
        BY <1>2, <3>6
      <4>2. AcceptedOf(r)' = AcceptedOf(r)
        <5>1. AcceptedOf(r)' = AcceptedOf(r) \ {d}
          BY <1>1, <1>2, <4>1, AcceptedAfter
        <5> QED
          BY <3>3, <5>1
      <4>3. accepted'[r][day] = accepted[r][day]
        BY <1>7, <1>8, <3>1, <3>6
      <4> QED
        BY <3>2, <3>4, <4>2, <4>3
    <3> QED
      BY <3>5, <3>6
  <2> QED
    BY <1>1, <2>1 DEF DInv, Counts, QuotaHeld
<1> QED
  BY <1>4, <1>5, <1>6, <1>9, <1>10, <1>11, <1>12 DEF DInv, Calls, Counts

\* A message that was accepted leaves its place to the usage, or to nobody.
LEMMA SettledKeeps ==
    ASSUME DInv, NEW d \in Deliveries, call[d].at = "accepted", Finish(d), reserved' = Unreserved(d),
           UNCHANGED <<limiterVars, UpdateVars, day, cancelled, closing, bound, tokens, accepted>>,
           faults' \in 0..bound.faults,
           usage' \in [Servers -> [Days -> Nat]], unrecorded' \in [Servers -> [Days -> Nat]],
           \A r \in rows : DailyLimit[r] > 0 =>
                LET one == IF r = call[d].server THEN 1 ELSE 0
                IN  /\ usage'[r][day] + unrecorded'[r][day] = usage[r][day] + unrecorded[r][day] + one
                    /\ usage'[r][day] <= usage[r][day] + one
                    /\ \A t \in Days : t > day => /\ usage'[r][t] = usage[r][t]
                                                  /\ unrecorded'[r][t] = unrecorded[r][t]
    PROVE  DInv'
<1>1. /\ TypeOK /\ LimiterTypeOK /\ CallsPlaced /\ Pools /\ call[d] \in Call /\ PlacedAs(d, call[d])
      /\ UNCHANGED <<rows, cache, pools, update, mutex, gates>>
  BY CallFacts DEF DInv, Calls, TypeOK, UpdateVars
<1>2. Becomes(d, Done)
  BY DoneFacts DEF Finish, Done, Becomes
<1>3. ~Tokened(call[d], "connections") /\ ~Tokened(call[d], "delay") /\ call[d].reserved
  BY <1>1 DEF Tokened, PlacedAs
<1>4. LimiterTypeOK' /\ CeilingsHold'
  BY <1>1, IdleKeeps DEF DInv
<1>5. TokensExact'
  BY <1>1, <1>2, <1>3, DoneFacts, TokensStay DEF DInv, Counts
<1>6. /\ reserved' \in [Servers -> Nat] /\ ReservedExact'
      /\ \A r \in Servers : reserved'[r] <= reserved[r]
      /\ reserved'[call[d].server] = reserved[call[d].server] - 1
  BY <1>1, <1>2, <1>3, DoneFacts, ReservedReturned DEF DInv, Counts
<1>7. TypeOK'
  BY <1>1, <1>2, <1>4, <1>6, MoveKeepsType DEF TypeOK
<1>8. CallsPlaced' /\ Pools'
  BY <1>1, <1>2, DoneFacts, MoveKeepsPlaced
<1>9. ActiveExact'
  BY <1>1, <1>2, DoneFacts, ActiveStays DEF DInv, Counts, limiterVars
<1>10. QuotaHeld'
  <2>1. ASSUME NEW r \in rows, DailyLimit[r] > 0
        PROVE  /\ usage'[r][day] + reserved'[r] <= DailyLimit[r]
               /\ accepted[r][day] <= usage'[r][day] + Cardinality(AcceptedOf(r)') + unrecorded'[r][day]
               /\ \A t \in Days : t > day =>
                    usage'[r][t] = 0 /\ accepted[r][t] = 0 /\ unrecorded'[r][t] = 0
    <3> DEFINE one == IF r = call[d].server THEN 1 ELSE 0
    <3>1. /\ r \in Servers /\ day \in Days /\ DailyLimit[r] \in Nat
          /\ usage[r][day] \in Nat /\ unrecorded[r][day] \in Nat
          /\ accepted[r][day] \in Nat /\ reserved[r] \in Nat
      BY <1>1, QuotaTypes
    <3>2. usage'[r][day] \in Nat /\ unrecorded'[r][day] \in Nat /\ reserved'[r] \in Nat
      BY <1>6, <3>1
    <3>3. /\ usage'[r][day] + unrecorded'[r][day] = usage[r][day] + unrecorded[r][day] + one
          /\ usage'[r][day] <= usage[r][day] + one
      BY <2>1
    <3>4. reserved'[r] <= reserved[r] - one
      BY <1>6, <3>1
    <3>5. /\ usage[r][day] + reserved[r] <= DailyLimit[r]
          /\ accepted[r][day] <= usage[r][day] + Cardinality(AcceptedOf(r)) + unrecorded[r][day]
          /\ \A t \in Days : t > day => usage[r][t] = 0 /\ accepted[r][t] = 0 /\ unrecorded[r][t] = 0
      BY <2>1 DEF DInv, Counts, QuotaHeld
    <3>6. AcceptedOf(r)' = AcceptedOf(r) \ {d} /\ (d \in AcceptedOf(r) <=> r = call[d].server)
          /\ IsFiniteSet(AcceptedOf(r)) /\ Cardinality(AcceptedOf(r)) \in Nat
      BY <1>1, <1>2, DoneFacts, AcceptedAfter
    <3>7. Cardinality(AcceptedOf(r)') = Cardinality(AcceptedOf(r)) - one
      <4>1. CASE r = call[d].server
        <5>1. d \in AcceptedOf(r) /\ AcceptedOf(r)' = AcceptedOf(r) \ {d}
          BY <3>6, <4>1
        <5>2. Cardinality(AcceptedOf(r) \ {d}) = Cardinality(AcceptedOf(r)) - 1
          BY <3>6, <5>1, FS_RemoveElement
        <5>3. one = 1
          BY <4>1
        <5> HIDE DEF one
        <5> QED
          BY <5>1, <5>2, <5>3
      <4>2. CASE r # call[d].server
        <5>1. AcceptedOf(r)' = AcceptedOf(r)
          BY <3>6, <4>2
        <5>2. Cardinality(AcceptedOf(r)') = Cardinality(AcceptedOf(r))
          BY <5>1
        <5>3. one = 0
          BY <4>2
        <5> HIDE DEF one
        <5> QED
          BY <3>6, <5>2, <5>3
      <4> QED
        BY <4>1, <4>2
    <3>8. one \in Nat
      OBVIOUS
    <3>9. \A t \in Days : t > day => usage'[r][t] = 0 /\ accepted[r][t] = 0 /\ unrecorded'[r][t] = 0
      BY <2>1, <3>5
    <3> HIDE DEF one
    <3> QED
      BY <3>1, <3>2, <3>3, <3>4, <3>5, <3>6, <3>7, <3>8, <3>9
  <2> QED
    BY <1>1, <2>1 DEF QuotaHeld
<1> QED
  BY <1>4, <1>5, <1>6, <1>7, <1>8, <1>9, <1>10 DEF DInv, Calls, Counts

LEMMA CommitKeeps == ASSUME DInv, NEW d \in Deliveries, Commit(d) PROVE DInv'
<1>1. /\ TypeOK /\ call[d].at = "accepted" /\ Finish(d) /\ reserved' = Unreserved(d)
      /\ UNCHANGED <<limiterVars, UpdateVars, day, cancelled, closing, bound, tokens, accepted>>
      /\ faults' \in 0..bound.faults
      /\ unrecorded' = unrecorded
  BY FaultsStay DEF Commit, DInv, Calls, EnvironmentVars
<1>2. call[d].server \in Servers /\ day \in Days /\ usage \in [Servers -> [Days -> Nat]]
  BY <1>1 DEF Call, TypeOK
<1>3. usage' = IF call[d].server \in rows THEN [usage EXCEPT ![call[d].server][day] = @ + 1] ELSE usage
  BY DEF Commit
<1>4. usage' \in [Servers -> [Days -> Nat]]
  BY <1>2, <1>3
<1>5. ASSUME NEW r \in rows
      PROVE  LET one == IF r = call[d].server THEN 1 ELSE 0
             IN  /\ usage'[r][day] = usage[r][day] + one
                 /\ \A t \in Days : t > day => usage'[r][t] = usage[r][t]
  <2>1. r \in Servers /\ usage[r][day] \in Nat /\ day \in Nat
    BY <1>1, QuotaTypes
  <2>2. CASE r = call[d].server
    BY <1>2, <1>3, <2>1, <2>2, ConstantFacts
  <2>3. CASE r # call[d].server
    <3>1. usage'[r] = usage[r]
      BY <1>2, <1>3, <2>1, <2>3
    <3> QED
      BY <2>1, <2>3, <3>1
  <2> QED
    BY <2>2, <2>3
<1>6. ASSUME NEW r \in rows
      PROVE  LET one == IF r = call[d].server THEN 1 ELSE 0
             IN  /\ usage'[r][day] + unrecorded'[r][day] = usage[r][day] + unrecorded[r][day] + one
                 /\ usage'[r][day] <= usage[r][day] + one
                 /\ \A t \in Days : t > day => /\ usage'[r][t] = usage[r][t]
                                               /\ unrecorded'[r][t] = unrecorded[r][t]
  <2>1. usage[r][day] \in Nat /\ unrecorded[r][day] \in Nat
    BY <1>1, QuotaTypes
  <2> QED
    BY <1>1, <1>5, <2>1
<1>7. unrecorded' \in [Servers -> [Days -> Nat]]
  BY <1>1 DEF TypeOK
<1> QED
  BY <1>1, <1>4, <1>6, <1>7, SettledKeeps

LEMMA CommitFailsKeeps == ASSUME DInv, NEW d \in Deliveries, CommitFails(d) PROVE DInv'
<1>1. /\ TypeOK /\ call[d].at = "accepted" /\ Finish(d) /\ reserved' = Unreserved(d)
      /\ UNCHANGED <<limiterVars, UpdateVars, day, cancelled, closing, bound, tokens, accepted>>
      /\ usage' = usage
  BY DEF CommitFails, DInv, Calls
<1>2. faults' \in 0..bound.faults
  <2>1. faults \in 0..bound.faults /\ bound.faults \in Nat
    BY <1>1, ConstantFacts DEF TypeOK
  <2>2. faults < bound.faults /\ faults' = faults + 1
    BY DEF CommitFails
  <2> QED
    BY <2>1, <2>2
<1>3. call[d].server \in Servers /\ day \in Days /\ unrecorded \in [Servers -> [Days -> Nat]]
  BY <1>1 DEF Call, TypeOK
<1>4. unrecorded' = [unrecorded EXCEPT ![call[d].server][day] = @ + 1]
  BY DEF CommitFails
<1>5. unrecorded' \in [Servers -> [Days -> Nat]] /\ usage' \in [Servers -> [Days -> Nat]]
  BY <1>1, <1>3, <1>4 DEF TypeOK
<1>6. ASSUME NEW r \in rows
      PROVE  LET one == IF r = call[d].server THEN 1 ELSE 0
             IN  /\ usage'[r][day] + unrecorded'[r][day] = usage[r][day] + unrecorded[r][day] + one
                 /\ usage'[r][day] <= usage[r][day] + one
                 /\ \A t \in Days : t > day => /\ usage'[r][t] = usage[r][t]
                                               /\ unrecorded'[r][t] = unrecorded[r][t]
  <2>1. usage[r][day] \in Nat /\ unrecorded[r][day] \in Nat /\ r \in Servers /\ day \in Nat
    BY <1>1, QuotaTypes
  <2>2. CASE r = call[d].server
    <3>1. unrecorded'[r][day] = unrecorded[r][day] + 1
      BY <1>3, <1>4, <2>1, <2>2
    <3>2. \A t \in Days : t > day => unrecorded'[r][t] = unrecorded[r][t]
      BY <1>3, <1>4, <2>1, <2>2, ConstantFacts
    <3> QED
      BY <1>1, <2>1, <2>2, <3>1, <3>2
  <2>3. CASE r # call[d].server
    <3>1. unrecorded'[r] = unrecorded[r]
      BY <1>3, <1>4, <2>1, <2>3
    <3> QED
      BY <1>1, <2>1, <2>3, <3>1
  <2> QED
    BY <2>2, <2>3
<1> QED
  BY <1>1, <1>2, <1>5, <1>6, SettledKeeps

-----------------------------------------------------------------------------
(* A step that moves no call, or one that holds nothing. *)

Free(q) == q.at \notin Rows /\ ~q.reserved

\* Nothing that is counted changes.
LEMMA CountsKept ==
    ASSUME DInv, UNCHANGED <<tokens, reserved, active>>,
           \A e \in Deliveries : call'[e] = call[e] \/ (Free(call[e]) /\ Free(call'[e])),
           \A p \in PoolIds : pools[p].state # "absent" => pools'[p].gate = pools[p].gate
    PROVE  /\ TokensExact' /\ ReservedExact' /\ ActiveExact'
           /\ \A s : AcceptedOf(s)' = AcceptedOf(s)
<1>1. ASSUME NEW e \in Deliveries
      PROVE  Tokened(call[e], "connections") => pools[call[e].pool].state # "absent" /\ call[e].pool \in PoolIds
  BY CallFacts DEF PlacedAs, Tokened, Placed, Waiting
<1>2. ASSUME NEW q, Free(q)
      PROVE  ~Tokened(q, "connections") /\ ~Tokened(q, "delay") /\ q.at # "sending" /\ q.at # "accepted"
  BY <1>2 DEF Free, Rows, Waiting, Tokened
<1>3. ASSUME NEW e, Tokened(call[e], "delay") PROVE Tokened(call[e], "connections")
  BY <1>3 DEF Tokened
<1>4. ASSUME NEW s, NEW g, NEW kind \in {"connections", "delay"}
      PROVE  Holding(s, g, kind)' = Holding(s, g, kind)
  <2>1. \A e \in Deliveries :
            /\ e \in Holding(s, g, kind) <=> /\ call[e].server = s /\ Tokened(call[e], kind)
                                             /\ pools[call[e].pool].gate[call[e].server] = g
            /\ e \in Holding(s, g, kind)' <=> /\ call'[e].server = s /\ Tokened(call'[e], kind)
                                              /\ pools'[call'[e].pool].gate[call'[e].server] = g
    BY DEF Holding, Holds, Tokened, GateOf, PoolOf
  <2>2. ASSUME NEW e \in Deliveries PROVE e \in Holding(s, g, kind)' <=> e \in Holding(s, g, kind)
    <3>1. CASE Free(call[e]) /\ Free(call'[e])
      BY <1>2, <2>1, <3>1
    <3>2. CASE call'[e] = call[e]
      BY <1>1, <1>3, <2>1, <3>2
    <3> QED
      BY <3>1, <3>2
  <2>3. Holding(s, g, kind) \subseteq Deliveries /\ Holding(s, g, kind)' \subseteq Deliveries
    BY DEF Holding
  <2> QED
    BY <2>2, <2>3
<1>5. TokensExact'
  <2>1. \A s \in Servers, g \in PoolIds :
            /\ Holding(s, g, "connections")' = Holding(s, g, "connections")
            /\ Holding(s, g, "delay")' = Holding(s, g, "delay")
    BY <1>4
  <2> QED
    BY <2>1 DEF DInv, Counts, TokensExact
<1>6. ReservedExact'
  <2>1. ASSUME NEW s \in Servers PROVE ReservedOf(s)' = ReservedOf(s)
    <3>1. \A e \in Deliveries : (call'[e].server = s /\ call'[e].reserved) <=> (call[e].server = s /\ call[e].reserved)
      BY DEF Free
    <3> QED
      BY <3>1 DEF ReservedOf
  <2> QED
    BY <2>1 DEF DInv, Counts, ReservedExact
<1>7. ActiveExact'
  <2>1. Sending' = Sending
    BY <1>2 DEF Sending
  <2> QED
    BY <2>1 DEF DInv, Counts, ActiveExact
<1>8. ASSUME NEW s PROVE AcceptedOf(s)' = AcceptedOf(s)
  <2>1. \A e \in Deliveries : (call'[e].server = s /\ call'[e].at = "accepted")
                              <=> (call[e].server = s /\ call[e].at = "accepted")
    BY <1>2
  <2> QED
    BY <2>1 DEF AcceptedOf
<1> QED
  BY <1>5, <1>6, <1>7, <1>8

\* The quota of the rows that are left does not change with anything else.
LEMMA QuotaKept ==
    ASSUME QuotaHeld, \A s : AcceptedOf(s)' = AcceptedOf(s),
           rows' \subseteq rows, \A s \in rows' : usage'[s] = usage[s],
           UNCHANGED <<reserved, accepted, unrecorded, day>>
    PROVE  QuotaHeld'
BY DEF QuotaHeld

Usable(p) == \/ pools[p].state = "open"
             \/ pools[p].state = "detached" /\ update[pools[p].update] # "drained"

\* What a call is placed in stays usable.
LEMMA CallsKept ==
    ASSUME TypeOK, CallsPlaced, call' = call,
           \A d \in Deliveries : call[d].at \in Placed =>
                LET p == call[d].pool
                IN  pools'[p].key = pools[p].key /\ pools'[p].servers = pools[p].servers /\ Usable(p)'
    PROVE  CallsPlaced'
<1>1. ASSUME NEW d \in Deliveries PROVE PlacedAs(d, call[d])'
  <2>1. PlacedAs(d, call[d])
    BY CallsPlacedParts DEF EveryPlaced
  <2>2. call[d].at \in Rows \/ call[d].at = "picking" => call[d].at \in Placed
    BY DEF Rows, Placed
  <2> QED
    BY <2>1, <2>2 DEF PlacedAs, Usable
<1>2. (CallsPlaced <=> EveryPlaced)'
  BY CallsPlacedParts, PTL
<1> QED
  BY <1>1, <1>2 DEF EveryPlaced

\* A step that touches neither calls nor pools.
LEMMA NothingPlaced ==
    ASSUME DInv, UNCHANGED <<limiterVars, UpdateVars, CallVars, usage, day>>, TypeOK'
    PROVE  DInv'
<1>1. UNCHANGED <<rows, cache, pools, update, mutex, gates, call, tokens, reserved, accepted, unrecorded,
                  active>>
  BY DEF UpdateVars, CallVars, limiterVars
<1>2. TypeOK /\ LimiterTypeOK /\ CallsPlaced /\ Pools /\ QuotaHeld
  BY DEF DInv, Calls, Counts, TypeOK
<1>3. CeilingsHold'
  BY <1>2, IdleKeeps DEF DInv
<1>4. TokensExact' /\ ReservedExact' /\ ActiveExact' /\ \A s : AcceptedOf(s)' = AcceptedOf(s)
  BY <1>1, CountsKept
<1>5. QuotaHeld'
  BY <1>1, <1>2, <1>4, QuotaKept
<1>6. CallsPlaced'
  <2>1. (CallsPlaced <=> EveryPlaced)'
    BY CallsPlacedParts, PTL
  <2>2. EveryPlaced'
    BY <1>1, <1>2, CallsPlacedParts DEF EveryPlaced, PlacedAs
  <2> QED
    BY <2>1, <2>2
<1>7. Pools'
  BY <1>1, <1>2 DEF Pools, PoolsPlaced, CachePlaced, GatesPlaced, RefsExact, Sharing
<1> QED
  BY <1>3, <1>4, <1>5, <1>6, <1>7 DEF DInv, Calls, Counts

LEMMA CloseManagerKeeps == ASSUME DInv, CloseManager PROVE DInv'
<1>1. TypeOK'
  BY DEF DInv, Calls, CloseManager, TypeOK, LimiterTypeOK, limiterVars, UpdateVars, CallVars
<1> QED
  BY <1>1, NothingPlaced DEF CloseManager

LEMMA LockForCloseKeeps == ASSUME DInv, LockForClose PROVE DInv'
<1>1. TypeOK'
  BY DEF DInv, Calls, LockForClose, TypeOK, LimiterTypeOK, limiterVars, UpdateVars, CallVars
<1> QED
  BY <1>1, NothingPlaced DEF LockForClose

LEMMA StopCampaignKeeps == ASSUME DInv, NEW k \in Campaigns, StopCampaign(k) PROVE DInv'
<1>1. TypeOK'
  BY DEF DInv, Calls, StopCampaign, TypeOK, LimiterTypeOK, limiterVars, UpdateVars, CallVars
<1> QED
  BY <1>1, NothingPlaced DEF StopCampaign

LEMMA StutterKeeps == ASSUME DInv, UNCHANGED vars PROVE DInv'
<1>1. UNCHANGED <<limiterVars, UpdateVars, CallVars, usage, day, cancelled, closing, bound, faults>>
  BY DEF vars, deliveryVars, UpdateVars, CallVars
<1>2. TypeOK'
  BY <1>1 DEF DInv, Calls, TypeOK, LimiterTypeOK, limiterVars, UpdateVars, CallVars
<1> QED
  BY <1>1, <1>2, NothingPlaced

\* Only the clock moves.
LEMMA TimePassesKeeps == ASSUME DInv, TimePasses PROVE DInv'
<1>1. UNCHANGED <<rows, cache, pools, update, mutex, gates, call, tokens, reserved, accepted, unrecorded,
                  usage, day, cancelled, closing, bound, faults, active>>
  BY DEF TimePasses, deliveryVars, Tick
<1>2. TypeOK /\ LimiterTypeOK /\ CallsPlaced /\ Pools /\ QuotaHeld /\ CeilingsHold
  BY DEF DInv, Calls, Counts, TypeOK
<1>3. LimiterTypeOK' /\ CeilingsHold'
  BY <1>2, TickKeeps DEF TimePasses
<1>4. TypeOK'
  BY <1>1, <1>2, <1>3 DEF TypeOK
<1>5. TokensExact' /\ ReservedExact' /\ ActiveExact' /\ \A s : AcceptedOf(s)' = AcceptedOf(s)
  BY <1>1, CountsKept
<1>6. QuotaHeld'
  BY <1>1, <1>2, <1>5, QuotaKept
<1>7. CallsPlaced'
  <2>1. (CallsPlaced <=> EveryPlaced)'
    BY CallsPlacedParts, PTL
  <2>2. EveryPlaced'
    BY <1>1, <1>2, CallsPlacedParts DEF EveryPlaced, PlacedAs
  <2> QED
    BY <2>1, <2>2
<1>8. Pools'
  BY <1>1, <1>2 DEF Pools, PoolsPlaced, CachePlaced, GatesPlaced, RefsExact, Sharing
<1> QED
  BY <1>3, <1>4, <1>5, <1>6, <1>7, <1>8 DEF DInv, Calls, Counts

\* On a new day nothing was sent yet, and what is reserved had its place before.
LEMMA MidnightKeeps == ASSUME DInv, Midnight PROVE DInv'
<1>1. UNCHANGED <<rows, cache, pools, update, mutex, gates, call, tokens, reserved, accepted, unrecorded,
                  usage, cancelled, closing, bound, faults, active, limiterVars>>
  BY DEF Midnight, UpdateVars, CallVars, limiterVars
<1>2. TypeOK /\ LimiterTypeOK /\ CallsPlaced /\ Pools /\ QuotaHeld /\ CeilingsHold
  BY DEF DInv, Calls, Counts, TypeOK
<1>3. LimiterTypeOK' /\ CeilingsHold'
  BY <1>1, <1>2, IdleKeeps
<1>4. day' \in Days /\ day' = day + 1 /\ day \in Nat
  <2>1. day \in Days /\ bound.days \in Days /\ day < bound.days /\ day' = day + 1
    BY <1>2, ConstantFacts DEF TypeOK, Midnight
  <2> QED
    BY <2>1, DeliveryAssumption DEF Days
<1>5. TypeOK'
  BY <1>1, <1>2, <1>3, <1>4 DEF TypeOK
<1>6. TokensExact' /\ ReservedExact' /\ ActiveExact' /\ \A s : AcceptedOf(s)' = AcceptedOf(s)
  BY <1>1, CountsKept
<1>7. QuotaHeld'
  <2>1. ASSUME NEW s \in rows, DailyLimit[s] > 0
        PROVE  /\ usage[s][day'] + reserved[s] <= DailyLimit[s]
               /\ accepted[s][day'] <= usage[s][day'] + Cardinality(AcceptedOf(s)) + unrecorded[s][day']
               /\ \A t \in Days : t > day' => usage[s][t] = 0 /\ accepted[s][t] = 0 /\ unrecorded[s][t] = 0
    <3>1. /\ usage[s][day] \in Nat /\ reserved[s] \in Nat /\ DailyLimit[s] \in Nat
      BY <1>2, QuotaTypes
    <3>2. usage[s][day] + reserved[s] <= DailyLimit[s]
          /\ \A t \in Days : t > day => usage[s][t] = 0 /\ accepted[s][t] = 0 /\ unrecorded[s][t] = 0
      BY <1>2, <2>1 DEF QuotaHeld
    <3>3. usage[s][day'] = 0 /\ accepted[s][day'] = 0 /\ unrecorded[s][day'] = 0
      BY <1>4, <3>2
    <3>4. Cardinality(AcceptedOf(s)) \in Nat
      <4>1. AcceptedOf(s) \in SUBSET Deliveries
        BY DEF AcceptedOf
      <4> QED
        BY <4>1, SetsFinite
    <3>5. \A t \in Days : t > day' => t > day
      BY <1>4, ConstantFacts
    <3> QED
      BY <3>1, <3>2, <3>3, <3>4, <3>5
  <2> QED
    BY <1>1, <1>6, <2>1 DEF QuotaHeld
<1>8. CallsPlaced'
  <2>1. (CallsPlaced <=> EveryPlaced)'
    BY CallsPlacedParts, PTL
  <2>2. EveryPlaced'
    BY <1>1, <1>2, CallsPlacedParts DEF EveryPlaced, PlacedAs
  <2> QED
    BY <2>1, <2>2
<1>9. Pools'
  BY <1>1, <1>2 DEF Pools, PoolsPlaced, CachePlaced, GatesPlaced, RefsExact, Sharing
<1> QED
  BY <1>3, <1>5, <1>6, <1>7, <1>8, <1>9 DEF DInv, Calls, Counts

-----------------------------------------------------------------------------
(* The replacement of a configuration. *)

\* The gates of pools that go on do not change with what else is known of them.
LEMMA GatesKept ==
    ASSUME GatesPlaced, RefsExact, gates' = gates,
           \A p \in PoolIds : /\ pools'[p].gate = pools[p].gate /\ pools'[p].servers = pools[p].servers
                              /\ pools'[p].state = "absent" <=> pools[p].state = "absent"
                              /\ pools'[p].state \in Live <=> pools[p].state \in Live
    PROVE  GatesPlaced' /\ RefsExact'
<1>1. \A s \in Servers : Sharing(s)' = Sharing(s)
  BY DEF Sharing
<1>2. RefsExact'
  BY <1>1 DEF RefsExact
<1>3. GatesPlaced'
  BY DEF GatesPlaced, Live
<1> QED
  BY <1>2, <1>3

\* A call of an account's pool keeps the configuration changes from closing pools.
LEMMA ReadersStay ==
    ASSUME DInv, NEW d \in Deliveries, call[d].at \in Placed
    PROVE  LET p == call[d].pool
           IN  /\ p \in PoolIds /\ pools[p].state \in Live /\ Usable(p)
               /\ p = 1 => pools[p].state = "open"
               /\ p # 1 => Reading(d)
<1>1. PlacedAs(d, call[d])
  BY CallFacts
<1>2. /\ call[d].pool \in PoolIds /\ pools[call[d].pool].key = Key[d]
      /\ Usable(call[d].pool) /\ pools[call[d].pool].state \in Live
  BY <1>1 DEF PlacedAs, Usable, Live
<1>3. PoolsPlaced
  BY DEF DInv, Pools
<1>4. call[d].pool = 1 => pools[call[d].pool].state = "open"
  BY <1>2, <1>3 DEF PoolsPlaced
<1>5. call[d].pool # 1 => Reading(d)
  <2>1. call[d].pool # 1 => Key[d] # System
    BY <1>2, <1>3 DEF PoolsPlaced
  <2>2. call[d].at \notin {"idle", "done"}
    BY DEF Placed, Waiting
  <2> QED
    BY <2>1, <2>2 DEF Reading
<1> QED
  BY <1>2, <1>4, <1>5

\* A step of an update that moves no pool: the pools that are used stay usable.
LEMMA UpdateKeeps ==
    ASSUME DInv, NEW u \in Updates, NEW x \in {"waiting", "announced", "drained"},
           update[u] # "none", update' = [update EXCEPT ![u] = x],
           UNCHANGED <<limiterVars, EnvironmentVars, CallVars, cache, pools, gates>>,
           rows' \subseteq rows, usage' \in [Servers -> [Days -> Nat]],
           \A s \in rows' : usage'[s] = usage[s],
           CachePlaced', mutex' \in 0..MaxUpdates,
           \A d \in Deliveries : call[d].at \in Placed => Usable(call[d].pool)'
    PROVE  DInv'
<1>1. UNCHANGED <<cache, pools, gates, call, tokens, reserved, accepted, unrecorded, active,
                  day, cancelled, closing, bound, faults>>
  BY DEF EnvironmentVars, CallVars, limiterVars
<1>2. TypeOK /\ LimiterTypeOK /\ CallsPlaced /\ QuotaHeld /\ CeilingsHold
      /\ PoolsPlaced /\ CachePlaced /\ GatesPlaced /\ RefsExact
  BY DEF DInv, Calls, Counts, TypeOK, Pools
<1>3. LimiterTypeOK' /\ CeilingsHold'
  BY <1>2, IdleKeeps
<1>4. TypeOK'
  BY <1>1, <1>2, <1>3 DEF TypeOK
<1>5. TokensExact' /\ ReservedExact' /\ ActiveExact' /\ \A s : AcceptedOf(s)' = AcceptedOf(s)
  BY <1>1, CountsKept
<1>6. QuotaHeld'
  BY <1>1, <1>2, <1>5, QuotaKept
<1>7. CallsPlaced'
  BY <1>1, <1>2, CallsKept
<1>8. PoolsPlaced'
  <2>1. \A v \in Updates : update[v] # "none" => update'[v] # "none"
    BY <1>2 DEF TypeOK
  <2> QED
    BY <1>1, <1>2, <2>1 DEF PoolsPlaced
<1>9. GatesPlaced' /\ RefsExact'
  BY <1>1, <1>2, GatesKept
<1> QED
  BY <1>3, <1>4, <1>5, <1>6, <1>7, <1>8, <1>9 DEF DInv, Calls, Counts, Pools

LEMMA LockSendsKeeps == ASSUME DInv, NEW u \in Updates, LockSends(u) PROVE DInv'
<1>1. UNCHANGED <<limiterVars, EnvironmentVars, CallVars, rows, cache, pools, mutex, gates, usage>>
      /\ update[u] = "waiting" /\ update' = [update EXCEPT ![u] = "announced"]
  BY DEF LockSends
<1>2. TypeOK /\ CachePlaced /\ PoolsPlaced
  BY DEF DInv, Calls, Pools
<1>3. CachePlaced'
  BY <1>1, <1>2 DEF TypeOK, CachePlaced
<1>4. ASSUME NEW d \in Deliveries, call[d].at \in Placed PROVE Usable(call[d].pool)'
  <2>1. call' = call /\ pools' = pools
    BY <1>1 DEF CallVars
  <2>2. call[d].pool \in PoolIds /\ Usable(call[d].pool)
    BY <1>4, ReadersStay
  <2>3. \A v \in Updates : update[v] # "drained" => update'[v] # "drained"
    BY <1>1, <1>2 DEF TypeOK
  <2> QED
    BY <1>2, <2>1, <2>2, <2>3 DEF Usable, PoolsPlaced
<1>5. usage' \in [Servers -> [Days -> Nat]] /\ mutex' \in 0..MaxUpdates
  BY <1>1, <1>2 DEF TypeOK
<1> QED
  BY <1>1, <1>3, <1>4, <1>5, UpdateKeeps

\* The lock is had when no call is in a pool that was detached.
LEMMA DrainSendsKeeps == ASSUME DInv, NEW u \in Updates, DrainSends(u) PROVE DInv'
<1>1. UNCHANGED <<limiterVars, EnvironmentVars, CallVars, rows, cache, pools, mutex, gates, usage>>
      /\ update[u] = "announced" /\ update' = [update EXCEPT ![u] = "drained"]
      /\ \A d \in Deliveries : ~Reading(d)
  BY DEF DrainSends
<1>2. TypeOK /\ CachePlaced
  BY DEF DInv, Calls, Pools
<1>3. CachePlaced'
  BY <1>1, <1>2 DEF TypeOK, CachePlaced
<1>4. ASSUME NEW d \in Deliveries, call[d].at \in Placed PROVE Usable(call[d].pool)'
  <2>1. call' = call /\ pools' = pools
    BY <1>1 DEF CallVars
  <2>2. pools[call[d].pool].state = "open"
    BY <1>1, <1>4, ReadersStay
  <2> QED
    BY <2>1, <2>2 DEF Usable
<1>5. usage' \in [Servers -> [Days -> Nat]] /\ mutex' \in 0..MaxUpdates
  BY <1>1, <1>2 DEF TypeOK
<1> QED
  BY <1>1, <1>3, <1>4, <1>5, UpdateKeeps

\* The rows that go away are in no cached pool, since the caches are empty.
LEMMA EndUpdateKeeps == ASSUME DInv, NEW u \in Updates, EndUpdate(u) PROVE DInv'
<1>1. UNCHANGED <<limiterVars, EnvironmentVars, CallVars, cache, pools, gates>>
      /\ update[u] = "callback" /\ update' = [update EXCEPT ![u] = Retiring(u, pools)] /\ mutex' = 0
  BY DEF EndUpdate
<1>2. TypeOK /\ CachePlaced /\ PoolsPlaced
  BY DEF DInv, Calls, Pools
<1>3. PICK x \in {"waiting", "announced", "drained"} :
        /\ x = Retiring(u, pools)
        /\ x = "drained" => \A p \in PoolIds : pools[p].update # u
        /\ x # "announced"
  BY DEF Retiring
<1>4. PICK deleted \in SUBSET rows :
        /\ rows' = rows \ deleted
        /\ usage' = [s \in Servers |-> IF s \in deleted THEN [d \in Days |-> 0] ELSE usage[s]]
  BY DEF EndUpdate
<1>5. /\ rows' \subseteq rows /\ usage' \in [Servers -> [Days -> Nat]]
      /\ \A s \in rows' : usage'[s] = usage[s]
  <2>1. usage \in [Servers -> [Days -> Nat]] /\ rows \subseteq Servers
    BY <1>2, ConstantFacts DEF TypeOK
  <2> QED
    BY <1>4, <2>1
<1>6. CachePlaced'
  <2>1. mutex = u /\ mutex # 0 /\ \A k \in Keys : cache[k] = 0
    BY <1>1, <1>2, ConstantFacts DEF CachePlaced
  <2>2. \A v \in Updates : update'[v] # "callback" /\ v # 0
    BY <1>1, <1>2, <1>3, <2>1, ConstantFacts DEF CachePlaced, TypeOK
  <2> QED
    BY <1>1, <2>1, <2>2 DEF CachePlaced
<1>7. ASSUME NEW d \in Deliveries, call[d].at \in Placed PROVE Usable(call[d].pool)'
  <2>1. call' = call /\ pools' = pools
    BY <1>1 DEF CallVars
  <2>2. call[d].pool \in PoolIds /\ Usable(call[d].pool)
    BY <1>7, ReadersStay
  <2>3. \A v \in Updates : v # u => update'[v] = update[v]
    BY <1>1, <1>2 DEF TypeOK
  <2>4. update'[u] = x
    BY <1>1, <1>2, <1>3 DEF TypeOK
  <2> QED
    BY <1>2, <1>3, <2>1, <2>2, <2>3, <2>4 DEF Usable, PoolsPlaced
<1>8. mutex' \in 0..MaxUpdates /\ update' = [update EXCEPT ![u] = x] /\ update[u] # "none"
  BY <1>1, <1>3, DeliveryAssumption
<1> QED
  BY <1>1, <1>5, <1>6, <1>7, <1>8, UpdateKeeps

\* The pools that leave the caches wait for the update that detached them.
LEMMA DetachKeeps ==
    ASSUME DInv, NEW u \in Updates, NEW keys \in SUBSET Keys, Detach(u, keys),
           NEW x \in {"callback", "waiting", "drained"}, update' = [update EXCEPT ![u] = x],
           x = "drained" => \A p \in PoolIds : pools'[p].update # u,
           x = "callback" => keys = Keys,
           mutex' = IF x = "callback" THEN u ELSE mutex
    PROVE  DInv'
<1>1. /\ UNCHANGED <<rows, gates, usage, call, tokens, reserved, accepted, unrecorded, active,
                     day, cancelled, closing, bound, faults, limiterVars>>
      /\ update[u] = "none" /\ mutex = 0
      /\ pools' = Detached(u, keys)
      /\ cache' = [k \in Keys |-> IF cache[k] # 0 /\ pools'[cache[k]].state = "detached"
                                  THEN 0 ELSE cache[k]]
  BY DEF Detach, Idle, EnvironmentVars, CallVars, limiterVars
<1>2. TypeOK /\ LimiterTypeOK /\ CallsPlaced /\ QuotaHeld /\ CeilingsHold
      /\ PoolsPlaced /\ CachePlaced /\ GatesPlaced /\ RefsExact
  BY DEF DInv, Calls, Counts, TypeOK, Pools
<1>3. LimiterTypeOK' /\ CeilingsHold'
  BY <1>1, <1>2, IdleKeeps
<1> DEFINE hit(p) == \E k \in keys : cache[k] = p
<1>4. ASSUME NEW p \in PoolIds, hit(p)
      PROVE  /\ pools[p].state = "open" /\ p # 1
             /\ pools'[p] = [pools[p] EXCEPT !.state = "detached", !.update = u]
  <2>1. pools'[p] = [pools[p] EXCEPT !.state = "detached", !.update = u]
    BY <1>1, <1>4 DEF Detached
  <2>2. PICK k \in Keys : cache[k] = p
    BY <1>4
  <2>3. p # 0 /\ pools[p].state = "open" /\ pools[p].key = k
    BY <1>2, <2>2, ConstantFacts DEF CachePlaced
  <2>4. p # 1
    BY <1>2, <2>3, ConstantFacts DEF PoolsPlaced
  <2> QED
    BY <2>1, <2>3, <2>4
<1>5. ASSUME NEW p \in PoolIds, ~hit(p) PROVE pools'[p] = pools[p]
  BY <1>1, <1>5 DEF Detached
<1>6. ASSUME NEW p \in PoolIds
      PROVE  /\ pools[p] \in Pool /\ pools'[p] \in Pool
             /\ pools'[p].key = pools[p].key /\ pools'[p].servers = pools[p].servers
             /\ pools'[p].gate = pools[p].gate
             /\ pools'[p].state = IF hit(p) THEN "detached" ELSE pools[p].state
             /\ pools'[p].update = IF hit(p) THEN u ELSE pools[p].update
  <2>1. pools[p] \in Pool /\ u \in 0..MaxUpdates
    BY <1>2, ConstantFacts DEF TypeOK
  <2>2. CASE hit(p)
    <3> DEFINE m == [pools[p] EXCEPT !.state = "detached", !.update = u]
    <3>1. m \in Pool /\ m.key = pools[p].key /\ m.servers = pools[p].servers /\ m.gate = pools[p].gate
          /\ m.state = "detached" /\ m.update = u
      BY <2>1 DEF Pool
    <3>2. pools'[p] = m
      BY <1>4, <2>2
    <3> HIDE DEF m, hit
    <3> QED
      BY <2>1, <2>2, <3>1, <3>2
  <2>3. CASE ~hit(p)
    BY <1>5, <2>1, <2>3
  <2> QED
    BY <2>2, <2>3
<1> HIDE DEF hit
<1>7. /\ \A p \in PoolIds : pools'[p].state = "absent" <=> pools[p].state = "absent"
      /\ \A p \in PoolIds : pools'[p].state \in Live <=> pools[p].state \in Live
  BY <1>4, <1>6 DEF Live
<1>8. \A v \in Updates : update'[v] = IF v = u THEN x ELSE update[v]
  BY <1>2 DEF TypeOK
<1>9. ASSUME NEW k \in Keys, cache'[k] # 0
      PROVE  /\ cache[k] \in PoolIds /\ cache'[k] = cache[k] /\ ~hit(cache[k])
             /\ pools[cache[k]].state = "open" /\ pools[cache[k]].key = k
  <2>1. cache[k] # 0 /\ cache'[k] = cache[k] /\ pools'[cache[k]].state # "detached"
    BY <1>1, <1>9
  <2>2. cache[k] \in PoolIds
    <3>1. cache[k] \in 0..MaxPools
      BY <1>2 DEF TypeOK
    <3> QED
      BY <2>1, <3>1, DeliveryAssumption DEF PoolIds
  <2>3. pools[cache[k]].state = "open" /\ pools[cache[k]].key = k
    BY <1>2, <2>1 DEF CachePlaced
  <2> QED
    BY <1>6, <2>1, <2>2, <2>3
<1>10. TypeOK'
  <2>1. pools' \in [PoolIds -> Pool]
    BY <1>1, <1>6 DEF Detached
  <2>2. cache' \in [Keys -> 0..MaxPools]
    BY <1>1, <1>2, DeliveryAssumption DEF TypeOK
  <2>3. mutex' \in 0..MaxUpdates
    BY <1>1, ConstantFacts, DeliveryAssumption
  <2> QED
    BY <1>1, <1>2, <1>3, <2>1, <2>2, <2>3 DEF TypeOK
<1>11. TokensExact' /\ ReservedExact' /\ ActiveExact' /\ \A s : AcceptedOf(s)' = AcceptedOf(s)
  BY <1>1, <1>6, CountsKept
<1>12. QuotaHeld'
  BY <1>1, <1>2, <1>11, QuotaKept
<1>13. CallsPlaced'
  <2>1. ASSUME NEW d \in Deliveries, call[d].at \in Placed
        PROVE  LET p == call[d].pool
               IN  pools'[p].key = pools[p].key /\ pools'[p].servers = pools[p].servers /\ Usable(p)'
    <3>1. PICK p \in PoolIds : p = call[d].pool /\ Usable(p)
      BY <2>1, ReadersStay
    <3>2. Usable(p)'
      BY <1>2, <1>6, <1>8, <3>1 DEF Usable, PoolsPlaced
    <3>3. call'[d].pool = p
      BY <1>1, <3>1
    <3> QED
      BY <1>6, <3>1, <3>2, <3>3 DEF Usable
  <2> QED
    BY <1>1, <1>2, <2>1, CallsKept
<1>14. PoolsPlaced'
  <2>1. ASSUME NEW p \in PoolIds
        PROVE  LET m == pools'[p]
               IN  /\ m.state # "absent" => \A q \in 1..p : pools'[q].state # "absent"
                   /\ p = 1 => m.state = "open" /\ m.key = System /\ m.servers = <<SystemServer>>
                   /\ p # 1 => m.key # System /\ ToSet(m.servers) \subseteq AccountServers
                   /\ m.state = "detached" => m.update \in Updates /\ update'[m.update] # "none"
    <3> DEFINE m == pools'[p]
    <3>1. m.state # "absent" => \A q \in 1..p : pools'[q].state # "absent"
      <4>1. \A q \in 1..p : q \in PoolIds
        BY DeliveryAssumption DEF PoolIds
      <4> QED
        BY <1>2, <1>7, <4>1 DEF PoolsPlaced
    <3>2. m.state = "detached" => m.update \in Updates /\ update'[m.update] # "none"
      <4>1. CASE hit(p)
        BY <1>6, <1>8, <4>1
      <4>2. CASE ~hit(p)
        <5>1. m.state = pools[p].state /\ m.update = pools[p].update
          BY <1>6, <4>2
        <5> QED
          BY <1>2, <1>8, <5>1 DEF PoolsPlaced
      <4> QED
        BY <4>1, <4>2
    <3>3. p = 1 => m.state = "open" /\ m.key = System /\ m.servers = <<SystemServer>>
      <4>1. p = 1 => pools[p].state = "open" /\ pools[p].key = System /\ pools[p].servers = <<SystemServer>>
        BY <1>2 DEF PoolsPlaced
      <4>2. p = 1 => ~hit(p)
        BY <1>4
      <4>3. m.key = pools[p].key /\ m.servers = pools[p].servers
            /\ m.state = IF hit(p) THEN "detached" ELSE pools[p].state
        BY <1>6
      <4> HIDE DEF m
      <4> QED
        BY <4>1, <4>2, <4>3
    <3>4. p # 1 => m.key # System /\ ToSet(m.servers) \subseteq AccountServers
      BY <1>2, <1>6 DEF PoolsPlaced
    <3> QED
      BY <3>1, <3>2, <3>3, <3>4
  <2> QED
    BY <2>1 DEF PoolsPlaced
<1>15. CachePlaced'
  <2>1. \A k \in Keys : cache'[k] # 0 => pools'[cache'[k]].state = "open" /\ pools'[cache'[k]].key = k
    BY <1>6, <1>9
  <2>2. \A v \in Updates : update'[v] = "callback" <=> mutex' = v
    BY <1>1, <1>2, <1>8, ConstantFacts DEF CachePlaced
  <2>3. CASE x = "callback"
    <3>1. \A k \in Keys : cache'[k] = 0
      BY <1>9, <2>3 DEF hit
    <3> QED
      BY <2>1, <2>2, <2>3, <3>1, ConstantFacts DEF CachePlaced
  <2>4. CASE x # "callback"
    <3>1. mutex' = 0
      BY <1>1, <2>4
    <3>2. \A k \in Keys : cache'[k] # 0 => ToSet(pools'[cache'[k]].servers) \subseteq rows
      BY <1>1, <1>2, <1>6, <1>9 DEF CachePlaced
    <3> QED
      BY <1>1, <2>1, <2>2, <3>1, <3>2 DEF CachePlaced
  <2> QED
    BY <2>3, <2>4
<1>16. GatesPlaced' /\ RefsExact'
  BY <1>1, <1>2, <1>6, <1>7, GatesKept
<1> QED
  BY <1>3, <1>10, <1>11, <1>12, <1>13, <1>14, <1>15, <1>16 DEF DInv, Calls, Counts, Pools

LEMMA BeginUpdateKeeps == ASSUME DInv, NEW u \in Updates, BeginUpdate(u) PROVE DInv'
BY DetachKeeps DEF BeginUpdate

LEMMA InvalidateKeeps == ASSUME DInv, NEW u \in Updates, Invalidate(u) PROVE DInv'
<1>1. PICK keys \in SUBSET Keys : Detach(u, keys)
  BY DEF Invalidate, Keys
<1>2. PICK x \in {"waiting", "drained"} : x = Retiring(u, pools')
  BY DEF Retiring
<1>3. x = "drained" => \A p \in PoolIds : pools'[p].update # u
  BY <1>2 DEF Retiring
<1> QED
  BY <1>1, <1>2, <1>3, DetachKeeps DEF Invalidate

-----------------------------------------------------------------------------
(* The end of pools. *)

\* Pools that no call is in leave the gates they shared.
LEMMA ClosingKeeps ==
    ASSUME DInv, NEW C \in SUBSET PoolIds,
           \A p \in C : pools[p].state \in Live /\ p # 1,
           \A d \in Deliveries : call[d].at \in Placed => call[d].pool \notin C,
           pools' = [p \in PoolIds |-> IF p \in C THEN [pools[p] EXCEPT !.state = "closed"] ELSE pools[p]],
           gates' \in [Servers -> [refs : Int, gate : Nat]],
           \A s \in Servers :
                /\ gates'[s].gate = gates[s].gate
                /\ gates'[s].refs = gates[s].refs - Cardinality({p \in C : s \in ToSet(pools[p].servers)}),
           cache' \in [Keys -> 0..MaxPools],
           \A k \in Keys : cache'[k] # 0 => cache'[k] = cache[k] /\ cache[k] \notin C,
           UNCHANGED <<limiterVars, CallVars, rows, update, mutex, usage, day, cancelled, bound, faults>>,
           closing' \in {"open", "flagged", "announced", "closed"}
    PROVE  DInv'
<1>1. UNCHANGED <<call, tokens, reserved, accepted, unrecorded, active>>
  BY DEF CallVars, limiterVars
<1>2. TypeOK /\ LimiterTypeOK /\ CallsPlaced /\ QuotaHeld /\ CeilingsHold
      /\ PoolsPlaced /\ CachePlaced /\ GatesPlaced /\ RefsExact
  BY DEF DInv, Calls, Counts, TypeOK, Pools
<1>3. LimiterTypeOK' /\ CeilingsHold'
  BY <1>2, IdleKeeps
<1>4. ASSUME NEW p \in PoolIds
      PROVE  /\ pools[p] \in Pool /\ pools'[p] \in Pool
             /\ pools'[p].key = pools[p].key /\ pools'[p].servers = pools[p].servers
             /\ pools'[p].gate = pools[p].gate /\ pools'[p].update = pools[p].update
             /\ pools'[p].state = IF p \in C THEN "closed" ELSE pools[p].state
  <2>1. pools[p] \in Pool
    BY <1>2 DEF TypeOK
  <2> QED
    BY <2>1 DEF Pool
<1>5. ASSUME NEW s \in Servers
      PROVE  gates'[s].refs = Cardinality(Sharing(s)')
  <2> DEFINE Out == {p \in C : s \in ToSet(pools[p].servers)}
  <2>1. Sharing(s)' = Sharing(s) \ Out
    <3>1. \A p \in PoolIds : (pools'[p].state \in Live /\ s \in ToSet(pools'[p].servers))
                             <=> (pools[p].state \in Live /\ s \in ToSet(pools[p].servers) /\ p \notin Out)
      BY <1>4 DEF Live
    <3> QED
      BY <3>1 DEF Sharing
  <2>2. Out \subseteq Sharing(s)
    BY DEF Sharing
  <2>3. IsFiniteSet(Sharing(s)) /\ Cardinality(Sharing(s)) \in Nat
    <3>1. Sharing(s) \in SUBSET PoolIds
      BY DEF Sharing
    <3> QED
      BY <3>1, SetsFinite
  <2>4. Sharing(s) \cap Out = Out
    BY <2>2
  <2> HIDE DEF Out
  <2>5. Cardinality(Sharing(s) \ Out) = Cardinality(Sharing(s)) - Cardinality(Sharing(s) \cap Out)
    BY <2>3, FS_Difference
  <2>6. gates[s].refs = Cardinality(Sharing(s))
    BY <1>2 DEF RefsExact
  <2>7. gates'[s].refs = gates[s].refs - Cardinality(Out)
    BY DEF Out
  <2> QED
    BY <2>1, <2>4, <2>5, <2>6, <2>7
<1>6. RefsExact'
  BY <1>5 DEF RefsExact
<1>7. TypeOK'
  <2>1. \A s \in Servers : gates'[s].refs \in Nat
    <3>1. ASSUME NEW s \in Servers PROVE Cardinality(Sharing(s)') \in Nat
      <4>1. Sharing(s)' \in SUBSET PoolIds
        BY DEF Sharing
      <4> QED
        BY <4>1, SetsFinite
    <3> QED
      BY <1>5, <3>1
  <2>2. gates' \in [Servers -> [refs : Nat, gate : Nat]]
    BY <2>1
  <2>3. pools' \in [PoolIds -> Pool]
    BY <1>4
  <2> QED
    BY <1>1, <1>2, <1>3, <2>2, <2>3 DEF TypeOK
<1>8. TokensExact' /\ ReservedExact' /\ ActiveExact' /\ \A s : AcceptedOf(s)' = AcceptedOf(s)
  BY <1>1, <1>4, CountsKept
<1>9. QuotaHeld'
  BY <1>1, <1>2, <1>8, QuotaKept
<1>10. CallsPlaced'
  <2>1. ASSUME NEW d \in Deliveries, call[d].at \in Placed
        PROVE  LET p == call[d].pool
               IN  pools'[p].key = pools[p].key /\ pools'[p].servers = pools[p].servers /\ Usable(p)'
    <3>1. PICK p \in PoolIds : p = call[d].pool /\ Usable(p) /\ p \notin C
      BY <2>1, ReadersStay
    <3>2. call'[d].pool = p
      BY <1>1, <3>1
    <3> QED
      BY <1>4, <3>1, <3>2 DEF Usable
  <2> QED
    BY <1>1, <1>2, <2>1, CallsKept
<1>11. PoolsPlaced'
  <2>1. \A p \in PoolIds : pools'[p].state # "absent" <=> pools[p].state # "absent"
    BY <1>4 DEF Live
  <2>2. \A p \in PoolIds : \A q \in 1..p : q \in PoolIds
    BY DeliveryAssumption DEF PoolIds
  <2>3. \A p \in PoolIds : pools'[p].state # "absent" => \A q \in 1..p : pools'[q].state # "absent"
    BY <1>2, <2>1, <2>2 DEF PoolsPlaced
  <2>4. \A p \in PoolIds :
            /\ p = 1 => pools'[p].state = "open" /\ pools'[p].key = System
                        /\ pools'[p].servers = <<SystemServer>>
            /\ p # 1 => pools'[p].key # System /\ ToSet(pools'[p].servers) \subseteq AccountServers
    BY <1>2, <1>4 DEF PoolsPlaced
  <2>5. \A p \in PoolIds : pools'[p].state = "detached" =>
            pools'[p].update \in Updates /\ update'[pools'[p].update] # "none"
    BY <1>2, <1>4 DEF PoolsPlaced
  <2> QED
    BY <2>3, <2>4, <2>5 DEF PoolsPlaced
<1>12. CachePlaced'
  <2>1. ASSUME NEW k \in Keys, cache'[k] # 0
        PROVE  /\ cache'[k] = cache[k] /\ pools'[cache'[k]].state = "open" /\ pools'[cache'[k]].key = k
               /\ pools'[cache'[k]].servers = pools[cache[k]].servers
    <3>1. cache'[k] \in PoolIds
      <4>1. cache'[k] \in 0..MaxPools
        OBVIOUS
      <4> QED
        BY <2>1, <4>1, DeliveryAssumption DEF PoolIds
    <3> QED
      BY <1>2, <1>4, <2>1, <3>1 DEF CachePlaced
  <2>2. \A k \in Keys : cache[k] = 0 => cache'[k] = 0
    BY <2>1
  <2> QED
    BY <1>2, <2>1, <2>2 DEF CachePlaced
<1>13. GatesPlaced'
  <2>1. ASSUME NEW s \in Servers PROVE gates'[s].gate = gates[s].gate
    OBVIOUS
  <2>2. \A p \in PoolIds : pools'[p].state = "absent" <=> pools[p].state = "absent"
    BY <1>4 DEF Live
  <2>3. \A p \in PoolIds : pools'[p].state \in {"open", "detached"} => pools[p].state \in {"open", "detached"}
    BY <1>4
  <2> QED
    BY <1>2, <1>4, <2>1, <2>2, <2>3 DEF GatesPlaced
<1> QED
  BY <1>3, <1>6, <1>7, <1>8, <1>9, <1>10, <1>11, <1>12, <1>13 DEF DInv, Calls, Counts, Pools

LEMMA ClosePoolKeeps == ASSUME DInv, NEW p \in PoolIds, ClosePool(p) PROVE DInv'
<1>1. /\ pools[p].state = "detached" /\ update[pools[p].update] = "drained"
      /\ pools' = [pools EXCEPT ![p].state = "closed"]
      /\ gates' = Released(gates, ToSet(pools[p].servers))
      /\ UNCHANGED <<limiterVars, day, cancelled, closing, bound, faults, CallVars, rows, cache, update,
                     mutex, usage>>
  BY DEF ClosePool, EnvironmentVars
<1>2. TypeOK /\ PoolsPlaced /\ CachePlaced
  BY DEF DInv, Calls, Pools
<1>3. p # 1
  BY <1>1, <1>2 DEF PoolsPlaced
<1>4. \A d \in Deliveries : call[d].at \in Placed => call[d].pool # p
  BY <1>1, ReadersStay DEF Usable
<1>5. pools' = [q \in PoolIds |-> IF q \in {p} THEN [pools[q] EXCEPT !.state = "closed"] ELSE pools[q]]
  BY <1>1, <1>2 DEF TypeOK
<1>6. gates' \in [Servers -> [refs : Int, gate : Nat]]
  <2> DEFINE R == [refs : Int, gate : Nat]
             less(s) == [gates[s] EXCEPT !.refs = @ - 1]
             old == ToSet(pools[p].servers)
  <2>1. ASSUME NEW s \in Servers PROVE gates[s] \in R /\ less(s) \in R
    <3>1. gates[s] \in [refs : Nat, gate : Nat]
      BY <1>2 DEF TypeOK
    <3>2. gates[s] \in R
      BY <3>1
    <3> QED
      BY <3>1, <3>2
  <2>2. gates' = [s \in Servers |-> IF s \in old THEN less(s) ELSE gates[s]]
    BY <1>1 DEF Released
  <2> HIDE DEF R, less, old
  <2>3. gates' \in [Servers -> R]
    BY <2>1, <2>2
  <2> QED
    BY <2>3 DEF R
<1>7. ASSUME NEW s \in Servers
      PROVE  /\ gates'[s].gate = gates[s].gate
             /\ gates'[s].refs = gates[s].refs - Cardinality({q \in {p} : s \in ToSet(pools[q].servers)})
  <2>1. gates[s] \in [refs : Nat, gate : Nat]
    BY <1>2 DEF TypeOK
  <2>2. CASE s \in ToSet(pools[p].servers)
    <3>1. {q \in {p} : s \in ToSet(pools[q].servers)} = {p}
      BY <2>2
    <3>2. Cardinality({q \in {p} : s \in ToSet(pools[q].servers)}) = 1
      BY <3>1, FS_Singleton
    <3>3. gates'[s].gate = gates[s].gate /\ gates'[s].refs = gates[s].refs - 1
      BY <1>1, <2>1, <2>2 DEF Released
    <3> QED
      BY <3>2, <3>3
  <2>3. CASE s \notin ToSet(pools[p].servers)
    <3>1. {q \in {p} : s \in ToSet(pools[q].servers)} = {}
      BY <2>3
    <3>2. Cardinality({q \in {p} : s \in ToSet(pools[q].servers)}) = 0
      BY <3>1, FS_EmptySet
    <3>3. gates'[s] = gates[s]
      BY <1>1, <2>3 DEF Released
    <3> QED
      BY <2>1, <3>2, <3>3
  <2> QED
    BY <2>2, <2>3
<1>8. cache' \in [Keys -> 0..MaxPools] /\ closing' \in {"open", "flagged", "announced", "closed"}
  BY <1>1, <1>2 DEF TypeOK
<1>9. \A k \in Keys : cache'[k] # 0 => cache'[k] = cache[k] /\ cache[k] \notin {p}
  BY <1>1, <1>2 DEF CachePlaced
<1>10. {p} \in SUBSET PoolIds /\ \A q \in {p} : pools[q].state \in Live /\ q # 1
  BY <1>1, <1>3 DEF Live
<1> QED
  BY <1>1, <1>4, <1>5, <1>6, <1>7, <1>8, <1>9, <1>10, ClosingKeeps

LEMMA CloseAllPoolsKeeps == ASSUME DInv, CloseAllPools PROVE DInv'
<1> DEFINE cached == {cache[k] : k \in Keys} \ {0}
<1>1. /\ \A d \in Deliveries : ~Reading(d)
      /\ closing' = "closed"
      /\ pools' = [p \in PoolIds |-> IF p \in cached THEN [pools[p] EXCEPT !.state = "closed"] ELSE pools[p]]
      /\ gates' = [s \in Servers |->
                      [gates[s] EXCEPT !.refs = @ - Cardinality({p \in cached : s \in ToSet(pools[p].servers)})]]
      /\ cache' = [k \in Keys |-> 0]
      /\ UNCHANGED <<limiterVars, CallVars, rows, update, mutex, usage, day, cancelled, bound, faults>>
  BY DEF CloseAllPools
<1>2. TypeOK /\ PoolsPlaced /\ CachePlaced
  BY DEF DInv, Calls, Pools
<1>3. ASSUME NEW p \in cached PROVE p \in PoolIds /\ pools[p].state \in Live /\ p # 1
  <2>1. PICK k \in Keys : cache[k] = p /\ p # 0
    OBVIOUS
  <2>2. p \in 0..MaxPools
    BY <1>2, <2>1 DEF TypeOK
  <2>3. p \in PoolIds
    BY <2>1, <2>2, DeliveryAssumption DEF PoolIds
  <2>4. pools[p].state = "open" /\ pools[p].key = k
    BY <1>2, <2>1 DEF CachePlaced
  <2>5. p # 1
    BY <1>2, <2>3, <2>4, ConstantFacts DEF PoolsPlaced
  <2> QED
    BY <2>3, <2>4, <2>5 DEF Live
<1> HIDE DEF cached
<1>4. \A d \in Deliveries : call[d].at \in Placed => call[d].pool \notin cached
  BY <1>1, <1>3, ReadersStay
<1>5. ASSUME NEW s \in Servers
      PROVE  /\ Cardinality({p \in cached : s \in ToSet(pools[p].servers)}) \in Nat
             /\ gates[s] \in [refs : Nat, gate : Nat]
  <2>1. {p \in cached : s \in ToSet(pools[p].servers)} \in SUBSET PoolIds
    BY <1>3
  <2>2. Cardinality({p \in cached : s \in ToSet(pools[p].servers)}) \in Nat
    BY <2>1, SetsFinite
  <2> QED
    BY <1>2, <2>2 DEF TypeOK
<1> DEFINE out(s) == Cardinality({p \in cached : s \in ToSet(pools[p].servers)})
<1>6. gates' = [s \in Servers |-> [gates[s] EXCEPT !.refs = @ - out(s)]]
  BY <1>1
<1>7. \A s \in Servers : out(s) \in Nat /\ gates[s] \in [refs : Nat, gate : Nat]
  BY <1>5
<1> HIDE DEF out
<1>8. gates' \in [Servers -> [refs : Int, gate : Nat]]
  BY <1>6, <1>7
<1>9. \A s \in Servers : gates'[s].gate = gates[s].gate /\ gates'[s].refs = gates[s].refs - out(s)
  BY <1>6, <1>7
<1>10. \A s \in Servers :
        /\ gates'[s].gate = gates[s].gate
        /\ gates'[s].refs = gates[s].refs - Cardinality({p \in cached : s \in ToSet(pools[p].servers)})
  BY <1>9 DEF out
<1>11. cache' \in [Keys -> 0..MaxPools] /\ \A k \in Keys : cache'[k] = 0
  BY <1>1, DeliveryAssumption
<1>12. cached \in SUBSET PoolIds
  BY <1>3
<1>13. /\ \A p \in cached : pools[p].state \in Live /\ p # 1
       /\ closing' \in {"open", "flagged", "announced", "closed"}
       /\ \A k \in Keys : cache'[k] # 0 => cache'[k] = cache[k] /\ cache[k] \notin cached
  BY <1>1, <1>3, <1>11
<1> QED
  BY <1>1, <1>4, <1>8, <1>10, <1>11, <1>12, <1>13, ClosingKeeps

-----------------------------------------------------------------------------
(* The steps of a call that move a pool. *)

\* A call that does not hold anything yet moves together with pools that nobody
\* else sees changed.
LEMMA EarlyKeeps ==
    ASSUME DInv, NEW d, NEW q, Becomes(d, q), Free(call[d]), Free(q),
           UNCHANGED <<limiterVars, EnvironmentVars, rows, tokens, usage, reserved, accepted, unrecorded>>,
           \A p \in PoolIds : pools[p].state # "absent" =>
                /\ pools'[p].key = pools[p].key /\ pools'[p].servers = pools[p].servers
                /\ pools'[p].gate = pools[p].gate /\ pools'[p].state = pools[p].state
                /\ pools'[p].update = pools[p].update,
           update' = update, mutex' = mutex,
           pools' \in [PoolIds -> Pool], cache' \in [Keys -> 0..MaxPools],
           gates' \in [Servers -> [refs : Nat, gate : Nat]],
           PlacedAs(d, q)', PoolsPlaced', CachePlaced', GatesPlaced', RefsExact'
    PROVE  DInv'
<1>1. UNCHANGED <<active, day, cancelled, closing, bound, faults>>
  BY DEF EnvironmentVars, limiterVars
<1>2. TypeOK /\ LimiterTypeOK /\ CallsPlaced /\ QuotaHeld /\ CeilingsHold
  BY DEF DInv, Calls, Counts, TypeOK
<1>3. LimiterTypeOK' /\ CeilingsHold'
  BY <1>2, IdleKeeps
<1>4. /\ call' \in [Deliveries -> Call] /\ d \in Deliveries /\ call'[d] = q
      /\ \A e \in Deliveries : e # d => call'[e] = call[e]
  BY <1>2, BecomesFacts DEF Becomes
<1>5. TypeOK'
  BY <1>1, <1>2, <1>3, <1>4 DEF TypeOK
<1>6. TokensExact' /\ ReservedExact' /\ ActiveExact' /\ \A s : AcceptedOf(s)' = AcceptedOf(s)
  BY <1>1, <1>4, CountsKept
<1>7. QuotaHeld'
  BY <1>1, <1>2, <1>6, QuotaKept
<1>8. CallsPlaced'
  <2>1. ASSUME NEW e \in Deliveries PROVE PlacedAs(e, call[e])'
    <3>1. CASE e = d
      BY <1>4, <3>1 DEF PlacedAs
    <3>2. CASE e # d
      <4>1. PlacedAs(e, call[e]) /\ call'[e] = call[e]
        BY <1>4, <3>2, CallFacts
      <4>2. call[e].at \in Placed => pools[call[e].pool].state # "absent" /\ call[e].pool \in PoolIds
        BY <4>1 DEF PlacedAs
      <4>3. call[e].at \in Rows \/ call[e].at = "picking" => call[e].at \in Placed
        BY DEF Rows, Placed
      <4> QED
        BY <4>1, <4>2, <4>3 DEF PlacedAs
    <3> QED
      BY <3>1, <3>2
  <2>2. (CallsPlaced <=> EveryPlaced)'
    BY CallsPlacedParts, PTL
  <2> QED
    BY <2>1, <2>2 DEF EveryPlaced
<1> QED
  BY <1>3, <1>5, <1>6, <1>7, <1>8 DEF DInv, Calls, Counts, Pools

LEMMA PushKeeps == ASSUME DInv, NEW d \in Deliveries, Push(d) PROVE DInv'
<1>1. /\ TypeOK /\ PoolsPlaced /\ CachePlaced /\ GatesPlaced /\ RefsExact
      /\ call[d].at = "resolved" /\ call[d] \in Call /\ PlacedAs(d, call[d])
      /\ UNCHANGED <<limiterVars, EnvironmentVars, rows, cache, update, mutex, gates, tokens, usage,
                     reserved, accepted, unrecorded>>
  BY CallFacts DEF Push, DInv, Calls, Pools
<1>2. PICK p \in PoolIds : p = call[d].pool
  BY <1>1 DEF PlacedAs, Placed
<1>3. ~Closed(d) /\ Usable(p) /\ pools[p].key = Key[d] /\ pools[p] \in Pool
  BY <1>1, <1>2 DEF PlacedAs, Placed, Closed, PoolOf, Usable, TypeOK
<1> DEFINE n == Len(pools[p].servers)
           t == [i \in 1..n |-> pools[p].servers[((pools[p].next + i - 1) % n) + 1]]
           m == [pools[p] EXCEPT !.next = @ + 1]
<1>a. PICK q : q = [call[d] EXCEPT !.at = "picking", !.try = t]
  OBVIOUS
<1>4. call' = [call EXCEPT ![d] = q] /\ pools' = [pools EXCEPT ![p] = m]
  BY <1>2, <1>3, <1>a DEF Push
<1>5. t \in Seq(Servers) /\ ToSet(t) \subseteq ToSet(pools[p].servers)
  <2>1. pools[p].servers \in Seq(Servers) /\ pools[p].next \in Nat
    BY <1>3 DEF Pool
  <2>2. PICK s \in Seq(Servers), next \in Nat : s = pools[p].servers /\ next = pools[p].next
    BY <2>1
  <2>3. PICK o : o = [i \in 1..Len(s) |-> s[((next + i - 1) % Len(s)) + 1]]
    OBVIOUS
  <2>4. o \in Seq(Servers) /\ ToSet(o) \subseteq ToSet(s)
    BY <2>3, RotationFacts
  <2>5. t = o
    BY <2>2, <2>3
  <2> QED
    BY <2>2, <2>4, <2>5
<1> HIDE DEF t
<1>6. /\ q \in Call /\ q.at = "picking" /\ q.pool = p /\ q.try = t
      /\ q.reserved => call[d].reserved
  BY <1>1, <1>2, <1>5, <1>a DEF Call, Stages
<1>7. /\ m \in Pool /\ m.key = pools[p].key /\ m.servers = pools[p].servers /\ m.gate = pools[p].gate
      /\ m.state = pools[p].state /\ m.update = pools[p].update
  BY <1>3, SMTT(30) DEF Pool
<1> HIDE DEF m
<1>8. /\ pools' \in [PoolIds -> Pool]
      /\ \A x \in PoolIds :
            /\ pools'[x].key = pools[x].key /\ pools'[x].servers = pools[x].servers
            /\ pools'[x].gate = pools[x].gate /\ pools'[x].state = pools[x].state
            /\ pools'[x].update = pools[x].update
  <2>1. pools \in [PoolIds -> Pool]
    BY <1>1 DEF TypeOK
  <2>2. \A x \in PoolIds : pools'[x] = IF x = p THEN m ELSE pools[x]
    BY <1>4, <2>1
  <2> QED
    BY <1>4, <1>7, <2>1, <2>2
<1>9. ~call[d].reserved /\ Free(call[d]) /\ Free(q)
  BY <1>1, <1>6 DEF PlacedAs, Free, Rows, Waiting
<1>10. PlacedAs(d, q)'
  <2>1. Usable(p) /\ update' = update
    BY <1>1, <1>3
  <2>2. /\ pools'[p].key = Key[d] /\ pools'[p].servers = pools[p].servers
        /\ pools'[p].state = pools[p].state /\ pools'[p].update = pools[p].update
    BY <1>3, <1>8
  <2>3. ToSet(q.try) \subseteq ToSet(pools'[p].servers)
    BY <1>5, <1>6, <2>2
  <2>4. ~q.reserved
    BY <1>6, <1>9
  <2> QED
    BY <1>6, <2>1, <2>2, <2>3, <2>4 DEF PlacedAs, Usable, Placed, Rows, Waiting
<1>11. PoolsPlaced'
  <2>1. \A x \in PoolIds : \A y \in 1..x : y \in PoolIds
    BY DeliveryAssumption DEF PoolIds
  <2> QED
    BY <1>1, <1>8, <2>1 DEF PoolsPlaced
<1>12. CachePlaced'
  <2>1. ASSUME NEW k \in Keys, cache[k] # 0 PROVE cache[k] \in PoolIds
    <3>1. cache[k] \in 0..MaxPools
      BY <1>1 DEF TypeOK
    <3> QED
      BY <2>1, <3>1, DeliveryAssumption DEF PoolIds
  <2> QED
    BY <1>1, <1>8, <2>1 DEF CachePlaced
<1>13. GatesPlaced' /\ RefsExact'
  BY <1>1, <1>8, GatesKept
<1>14. cache' \in [Keys -> 0..MaxPools] /\ gates' \in [Servers -> [refs : Nat, gate : Nat]]
  BY <1>1 DEF TypeOK
<1>15. Becomes(d, q)
  BY <1>4, <1>6 DEF Becomes
<1> QED
  BY <1>1, <1>8, <1>9, <1>10, <1>11, <1>12, <1>13, <1>14, <1>15, EarlyKeeps

\* A new pool shares the entries of its servers, or makes the next ones.
LEMMA ResolveNewKeeps == ASSUME DInv, NEW d \in Deliveries, ResolveNew(d) PROVE DInv'
<1>1. /\ TypeOK /\ PoolsPlaced /\ CachePlaced /\ GatesPlaced /\ RefsExact
      /\ call[d].at = "entered" /\ call[d] \in Call /\ PlacedAs(d, call[d])
      /\ UNCHANGED <<limiterVars, EnvironmentVars, rows, update, mutex, tokens, usage,
                     reserved, accepted, unrecorded>>
      /\ mutex = 0
  BY CallFacts DEF ResolveNew, DInv, Calls, Pools
<1>2. PICK k \in Keys : k = Key[d] /\ cache[k] = 0
  BY DeliveryAssumption DEF ResolveNew
<1>3. PICK S : S = Resolvable(k)
  OBVIOUS
<1>4. S \subseteq rows /\ S \subseteq AccountServers /\ S \subseteq Servers /\ IsFiniteSet(S)
  <2>1. S \subseteq rows /\ rows \subseteq AccountServers
    BY <1>1, <1>3 DEF Resolvable, TypeOK
  <2>2. AccountServers \subseteq Servers /\ IsFiniteSet(Servers)
    BY ConstantFacts, DeliveryAssumption
  <2>3. S \subseteq Servers
    BY <2>1, <2>2
  <2> QED
    BY <2>1, <2>2, <2>3, FS_Subset
<1>5. PICK L : L = SetToSeq(S)
  OBVIOUS
<1>6. L \in Seq(Servers) /\ ToSet(L) = S
  <2>1. L \in Seq(S)
    BY <1>4, <1>5, SetToSeqFacts
  <2>2. ToSet(L) = S
    BY <1>4, <1>5, SetToSeqFacts
  <2> QED
    BY <1>4, <2>1, <2>2
<1>7. PICK p \in PoolIds :
        /\ pools[p].state = "absent" /\ \A x \in 1..p - 1 : pools[x].state # "absent"
        /\ gates' = Acquired(gates, S)
        /\ pools' = [pools EXCEPT ![p] =
                        [NoPool EXCEPT !.key = k, !.servers = L,
                                       !.gate = [s \in Servers |-> gates'[s].gate], !.state = "open"]]
        /\ cache' = [cache EXCEPT ![k] = p]
        /\ call' = [call EXCEPT ![d].at = "resolved", ![d].pool = p]
  BY <1>2, <1>3, <1>5 DEF ResolveNew
<1>8. p # 1 /\ p \in Nat \ {0} /\ \A x \in PoolIds : x \in Nat \ {0}
  BY <1>1, <1>7, ConstantFacts DEF PoolsPlaced
<1>9. \A x \in PoolIds : pools[x].state # "absent" => x < p
  BY <1>1, <1>7, <1>8 DEF PoolsPlaced
<1>10. ASSUME NEW s \in Servers
       PROVE  /\ gates[s].refs \in Nat /\ gates[s].gate \in Nat
              /\ gates'[s].refs = IF s \in S THEN gates[s].refs + 1 ELSE gates[s].refs
              /\ gates'[s].gate = IF s \in S /\ gates[s].refs = 0 THEN gates[s].gate + 1 ELSE gates[s].gate
              /\ gates'[s] \in [refs : Nat, gate : Nat]
  <2>1. gates[s] \in [refs : Nat, gate : Nat]
    BY <1>1 DEF TypeOK
  <2>2. gates'[s] = IF s \notin S THEN gates[s]
                    ELSE IF gates[s].refs = 0 THEN [refs |-> 1, gate |-> gates[s].gate + 1]
                    ELSE [gates[s] EXCEPT !.refs = @ + 1]
    BY <1>7 DEF Acquired
  <2>3. CASE s \notin S
    BY <2>1, <2>2, <2>3
  <2>4. CASE s \in S /\ gates[s].refs = 0
    BY <2>1, <2>2, <2>4
  <2>5. CASE s \in S /\ gates[s].refs # 0
    BY <2>1, <2>2, <2>5
  <2> QED
    BY <2>3, <2>4, <2>5
<1>11. gates' \in [Servers -> [refs : Nat, gate : Nat]]
  BY <1>7, <1>10 DEF Acquired
<1>12. PICK gate \in [Servers -> Nat] : gate = [s \in Servers |-> gates'[s].gate]
  BY <1>10
<1>13. PICK m : m = [NoPool EXCEPT !.key = k, !.servers = L, !.gate = gate, !.state = "open"]
  OBVIOUS
<1>14. /\ m \in Pool /\ m.key = k /\ m.servers = L /\ m.gate = gate /\ m.state = "open"
  BY <1>6, <1>12, <1>13, NoCallFacts DEF Pool
<1>15. /\ pools' \in [PoolIds -> Pool]
       /\ \A x \in PoolIds : pools'[x] = IF x = p THEN m ELSE pools[x]
  BY <1>1, <1>7, <1>12, <1>13, <1>14 DEF TypeOK
<1>16. PICK q : q = [call[d] EXCEPT !.at = "resolved", !.pool = p]
  OBVIOUS
<1>17. /\ q \in Call /\ q.at = "resolved" /\ q.pool = p /\ q.try = call[d].try
       /\ q.reserved => call[d].reserved
  BY <1>1, <1>16, ConstantFacts DEF Call, Stages
<1>18. Becomes(d, q)
  BY <1>7, <1>16, <1>17 DEF Becomes
<1>19. Free(call[d]) /\ Free(q) /\ ToSet(q.try) = {}
  BY <1>1, <1>17 DEF PlacedAs, Free, Rows, Waiting
<1>20. PlacedAs(d, q)'
  <2>1. pools'[p].key = Key[d] /\ pools'[p].state = "open"
    BY <1>2, <1>14, <1>15
  <2> QED
    BY <1>17, <1>19, <2>1 DEF PlacedAs, Placed, Rows, Waiting, Free
<1>21. PoolsPlaced'
  <2>1. ASSUME NEW x \in PoolIds
        PROVE  /\ pools'[x].state # "absent" => \A y \in 1..x : pools'[y].state # "absent"
               /\ x = 1 => /\ pools'[x].state = "open" /\ pools'[x].key = System
                           /\ pools'[x].servers = <<SystemServer>>
               /\ x # 1 => pools'[x].key # System /\ ToSet(pools'[x].servers) \subseteq AccountServers
               /\ pools'[x].state = "detached" =>
                    pools'[x].update \in Updates /\ update'[pools'[x].update] # "none"
    <3>1. \A y \in 1..x : y \in PoolIds
      BY DeliveryAssumption DEF PoolIds
    <3>2. CASE x = p
      <4>1. \A y \in 1..x : y # p => y \in 1..p - 1
        BY <1>8, <3>2
      <4>2. \A y \in 1..x : pools'[y].state # "absent"
        BY <1>7, <1>14, <1>15, <3>1, <4>1
      <4>3. pools'[x] = m /\ k # System
        BY <1>2, <1>15, <3>2, ConstantFacts
      <4> QED
        BY <1>4, <1>6, <1>8, <1>14, <3>2, <4>2, <4>3
    <3>3. CASE x # p
      <4>1. pools'[x] = pools[x]
        BY <1>15, <3>3
      <4>2. pools[x].state # "absent" => \A y \in 1..x : pools[y].state # "absent" /\ y # p
        BY <1>1, <1>7 DEF PoolsPlaced
      <4>3. pools'[x].state # "absent" => \A y \in 1..x : pools'[y].state # "absent"
        BY <1>15, <3>1, <4>1, <4>2
      <4> QED
        BY <1>1, <4>1, <4>3 DEF PoolsPlaced
    <3> QED
      BY <3>2, <3>3
  <2> QED
    BY <2>1 DEF PoolsPlaced
<1>22. CachePlaced'
  <2>1. \A j \in Keys : cache'[j] = IF j = k THEN p ELSE cache[j]
    BY <1>1, <1>7 DEF TypeOK
  <2>2. ASSUME NEW j \in Keys, cache'[j] # 0
        PROVE  /\ pools'[cache'[j]].state = "open" /\ pools'[cache'[j]].key = j
               /\ ToSet(pools'[cache'[j]].servers) \subseteq rows
    <3>1. CASE j = k
      BY <1>4, <1>6, <1>14, <1>15, <2>1, <3>1
    <3>2. CASE j # k
      <4>1. cache'[j] = cache[j] /\ cache[j] \in 0..MaxPools
        BY <1>1, <2>1, <3>2 DEF TypeOK
      <4>2. cache[j] \in PoolIds
        BY <2>2, <4>1, DeliveryAssumption DEF PoolIds
      <4>3. pools[cache[j]].state = "open" /\ pools[cache[j]].key = j
            /\ ToSet(pools[cache[j]].servers) \subseteq rows
        BY <1>1, <2>2, <4>1 DEF CachePlaced
      <4>4. cache[j] # p
        BY <1>7, <4>3
      <4> QED
        BY <1>15, <4>1, <4>2, <4>3, <4>4
    <3> QED
      BY <3>1, <3>2
  <2>3. \A v \in Updates : update'[v] = "callback" <=> mutex' = v
    BY <1>1 DEF CachePlaced
  <2> QED
    BY <1>1, <2>2, <2>3 DEF CachePlaced
<1>23. ASSUME NEW s \in Servers
       PROVE  /\ Sharing(s)' = IF s \in S THEN Sharing(s) \cup {p} ELSE Sharing(s)
              /\ p \notin Sharing(s)
              /\ IsFiniteSet(Sharing(s)) /\ Cardinality(Sharing(s)) \in Nat
              /\ gates[s].refs = Cardinality(Sharing(s))
  <2>1. p \notin Sharing(s)
    BY <1>7 DEF Sharing, Live
  <2>2. \A x \in PoolIds : (pools'[x].state \in Live /\ s \in ToSet(pools'[x].servers))
                           <=> IF x = p THEN s \in S
                               ELSE pools[x].state \in Live /\ s \in ToSet(pools[x].servers)
    BY <1>6, <1>14, <1>15 DEF Live
  <2>3. Sharing(s)' = IF s \in S THEN Sharing(s) \cup {p} ELSE Sharing(s)
    BY <2>1, <2>2 DEF Sharing
  <2>4. Sharing(s) \in SUBSET PoolIds
    BY DEF Sharing
  <2> QED
    BY <1>1, <2>1, <2>3, <2>4, SetsFinite DEF RefsExact
<1>24. RefsExact'
  <2>1. ASSUME NEW s \in Servers PROVE gates'[s].refs = Cardinality(Sharing(s)')
    <3>1. CASE s \in S
      <4>1. Sharing(s)' = Sharing(s) \cup {p}
        BY <1>23, <3>1
      <4>2. Cardinality(Sharing(s) \cup {p}) = Cardinality(Sharing(s)) + 1
        BY <1>23, FS_AddElement
      <4> QED
        BY <1>10, <1>23, <3>1, <4>1, <4>2
    <3>2. CASE s \notin S
      <4>1. Sharing(s)' = Sharing(s)
        BY <1>23, <3>2
      <4> QED
        BY <1>10, <1>23, <3>2, <4>1
    <3> QED
      BY <3>1, <3>2
  <2> QED
    BY <2>1 DEF RefsExact
<1>25. GatesPlaced'
  <2>1. ASSUME NEW s \in Servers
        PROVE  /\ gates'[s].gate # 0 => gates'[s].gate \in PoolIds /\ pools'[gates'[s].gate].state # "absent"
               /\ s \in S => gates'[s].gate \in PoolIds
    <3>1. gates[s].gate # 0 => gates[s].gate \in PoolIds /\ pools[gates[s].gate].state # "absent"
      BY <1>1 DEF GatesPlaced
    <3>2. CASE s \in S /\ gates[s].refs = 0
      <4>1. gates'[s].gate = gates[s].gate + 1
        BY <1>10, <3>2
      <4>2. gates[s].gate < p
        <5>1. CASE gates[s].gate = 0
          BY <1>8, <5>1
        <5>2. CASE gates[s].gate # 0
          BY <1>9, <3>1, <5>2
        <5> QED
          BY <5>1, <5>2
      <4>3. gates[s].gate + 1 \in PoolIds /\ gates[s].gate + 1 <= p
        BY <1>8, <1>10, <4>2, DeliveryAssumption DEF PoolIds
      <4>4. gates[s].gate + 1 # p => gates[s].gate + 1 \in 1..p - 1
        BY <1>8, <1>10, <4>3
      <4> QED
        BY <1>7, <1>14, <1>15, <4>1, <4>3, <4>4
    <3>3. CASE ~(s \in S /\ gates[s].refs = 0)
      <4>1. gates'[s].gate = gates[s].gate
        BY <1>10, <3>3
      <4>2. gates'[s].gate # 0 => gates'[s].gate \in PoolIds /\ pools'[gates'[s].gate].state # "absent"
        BY <1>7, <1>15, <3>1, <4>1
      <4>3. ASSUME s \in S PROVE gates'[s].gate \in PoolIds
        <5>1. Sharing(s) # {}
          BY <1>23, <3>3, <4>3, FS_EmptySet
        <5>2. PICK x \in PoolIds : pools[x].state \in Live /\ s \in ToSet(pools[x].servers)
          BY <5>1 DEF Sharing
        <5> QED
          BY <1>1, <4>1, <5>2 DEF GatesPlaced, Live
      <4> QED
        BY <4>2, <4>3
    <3> QED
      BY <3>2, <3>3
  <2>2. ASSUME NEW s \in Servers, NEW x \in PoolIds, s \in ToSet(pools'[x].servers)
        PROVE  /\ pools'[x].state # "absent" => pools'[x].gate[s] \in PoolIds
               /\ pools'[x].state \in Live => pools'[x].gate[s] = gates'[s].gate
    <3>1. CASE x = p
      <4>1. pools'[x] = m /\ s \in S
        BY <1>6, <1>14, <1>15, <2>2, <3>1
      <4>2. pools'[x].gate[s] = gates'[s].gate
        BY <1>12, <1>14, <4>1
      <4> QED
        BY <2>1, <4>1, <4>2
    <3>2. CASE x # p
      <4>1. pools'[x] = pools[x]
        BY <1>15, <3>2
      <4>2. ASSUME pools[x].state \in Live PROVE gates'[s].gate = gates[s].gate
        <5>1. x \in Sharing(s)
          BY <2>2, <4>1, <4>2 DEF Sharing
        <5>2. Cardinality(Sharing(s)) # 0
          BY <1>23, <5>1, FS_EmptySet
        <5> QED
          BY <1>10, <1>23, <5>2
      <4> QED
        BY <1>1, <2>2, <4>1, <4>2 DEF GatesPlaced, Live
    <3> QED
      BY <3>1, <3>2
  <2> QED
    BY <2>1, <2>2 DEF GatesPlaced, Live
<1>26. cache' \in [Keys -> 0..MaxPools]
  BY <1>1, <1>7, ConstantFacts DEF TypeOK
<1>27. \A x \in PoolIds : pools[x].state # "absent" => pools'[x] = pools[x]
  BY <1>7, <1>15
<1> QED
  BY <1>1, <1>11, <1>15, <1>18, <1>19, <1>20, <1>21, <1>22, <1>24, <1>25, <1>26, <1>27, EarlyKeeps

-----------------------------------------------------------------------------
(* Every step, and the theorems. *)

LEMMA CallStepKeeps ==
    ASSUME DInv, NEW d \in Deliveries, Enter(d) \/ CallStep(d) \/ CallFault(d)
    PROVE  DInv'
<1>1. CASE Enter(d)
  BY <1>1, EnterKeeps
<1>2. CASE ResolveCached(d) \/ ResolveNew(d) \/ ResolveFails(d)
  BY <1>2, ResolveCachedKeeps, ResolveNewKeeps, ResolveFailsKeeps
<1>3. CASE Push(d) \/ PickServer(d) \/ PickFails(d)
  BY <1>3, PushKeeps, PickServerKeeps, PickFailsKeeps
<1>4. CASE TakeConnection(d) \/ TakeDelay(d) \/ PassGate(d)
  BY <1>4, TakeConnectionKeeps, TakeDelayKeeps, PassGateKeeps
<1>5. CASE StartAttempt(d) \/ Park(d) \/ WakeUp(d) \/ StopWaiting(d)
  BY <1>5, StartAttemptKeeps, ParkKeeps, WakeUpKeeps, StopWaitingKeeps
<1>6. CASE ServerAccepts(d) \/ ServerRefuses(d)
  BY <1>6, ServerAcceptsKeeps, ServerRefusesKeeps
<1>7. CASE Commit(d) \/ CommitFails(d)
  BY <1>7, CommitKeeps, CommitFailsKeeps
<1> QED
  BY <1>1, <1>2, <1>3, <1>4, <1>5, <1>6, <1>7 DEF CallStep, CallFault

LEMMA UpdateStepKeeps ==
    ASSUME DInv, NEW u \in Updates,
           BeginUpdate(u) \/ Invalidate(u) \/ EndUpdate(u) \/ LockSends(u) \/ DrainSends(u)
    PROVE  DInv'
BY BeginUpdateKeeps, InvalidateKeeps, EndUpdateKeeps, LockSendsKeeps, DrainSendsKeeps

LEMMA NextKeeps == ASSUME DInv, [Next]_vars PROVE DInv'
<1>1. ASSUME NEW d \in Deliveries, Enter(d) \/ CallStep(d) \/ CallFault(d) PROVE DInv'
  BY <1>1, CallStepKeeps
<1>2. ASSUME NEW u \in Updates, BeginUpdate(u) \/ Invalidate(u) PROVE DInv'
  BY <1>2, UpdateStepKeeps
<1>3. ASSUME RetireStep PROVE DInv'
  BY <1>3, UpdateStepKeeps DEF RetireStep
<1>4. ASSUME NEW p \in PoolIds, ClosePool(p) PROVE DInv'
  BY <1>4, ClosePoolKeeps
<1>5. ASSUME CloseManager \/ LockForClose \/ CloseAllPools PROVE DInv'
  BY <1>5, CloseManagerKeeps, LockForCloseKeeps, CloseAllPoolsKeeps
<1>6. ASSUME NEW k \in Campaigns, StopCampaign(k) PROVE DInv'
  BY <1>6, StopCampaignKeeps
<1>7. ASSUME Midnight \/ TimePasses PROVE DInv'
  BY <1>7, MidnightKeeps, TimePassesKeeps
<1>8. CASE UNCHANGED vars
  BY <1>8, StutterKeeps
<1>9. CASE Next
  BY <1>1, <1>2, <1>3, <1>4, <1>5, <1>6, <1>7, <1>9 DEF Next
<1> QED
  BY <1>8, <1>9

\* The invariant holds of every behaviour, whatever the servers, the limits and the
\* scenario are (manager.pushMessage, Emailer.Push, WithPersonalSMTPUpdate, Close).
THEOREM DeliveryInvariant == Spec => []DInv
<1>1. Init => DInv
  BY InitHolds
<1>2. DInv /\ [Next]_vars => DInv'
  BY NextKeeps
<1> QED
  BY <1>1, <1>2, PTL DEF Spec

\* Every token of a gate, active attempt and reserved place has exactly one holder, and
\* a server accepts no more in a day than its quota, but for usage that could not be
\* written (acquireSendGate, smtpQuotaTracker, DeliveryLimiter).
THEOREM HeldExactCorrect == Spec => []HeldExact
<1>1. DInv => HeldExact
  BY InvImpliesHeld
<1> QED
  BY <1>1, DeliveryInvariant, PTL

\* A call finds its pool open until it ends, and no cached pool sends through a server
\* whose row was deleted, however configurations are replaced (retireSMTP).
THEOREM PoolsCurrentCorrect == Spec => []PoolsCurrent
<1>1. DInv => PoolsCurrent
  BY InvImpliesCurrent
<1> QED
  BY <1>1, DeliveryInvariant, PTL

\* No window of a ceiling sees more attempts than it admits, and the attempts of one
\* campaign are an interval apart (DeliveryLimiter.take).
THEOREM CeilingsHoldCorrect == Spec => []CeilingsHold
<1>1. DInv => CeilingsHold
  BY DEF DInv
<1> QED
  BY <1>1, DeliveryInvariant, PTL
=============================================================================
