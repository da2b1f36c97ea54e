--------------------------- MODULE DeliveryLimiter ---------------------------
(***************************************************************************)
(* The limiter every SMTP attempt of one process passes before it talks to *)
(* a server (internal/messenger/email/delivery_limiter.go): a bound on the *)
(* attempts in progress, ceilings on the attempts that start in a rolling  *)
(* window, and a pace per campaign.  All of them are taken together or not *)
(* at all.                                                                 *)
(***************************************************************************)
EXTENDS Integers, Sequences, FiniteSets, FiniteSetsExt

CONSTANTS
    Campaigns,      \* campaigns that are paced
    NoCampaign,     \* a system or test message belongs to none
    Ceilings,       \* the rolling windows: a second, the configured sliding window
    CeilingLimit,   \* attempts a window admits
    CeilingLength,  \* its length, in ticks of the clock
    Interval,       \* ticks between two attempts of one campaign
    MaxConcurrent,  \* attempts in progress: 0 is no bound
    Hour,           \* the timer that only bounds a wait for a release
    MaxClock        \* bound: ticks that pass

ASSUME LimiterAssumption ==
    /\ NoCampaign \notin Campaigns
    /\ IsFiniteSet(Ceilings)
    /\ CeilingLimit \in [Ceilings -> Nat \ {0}]
    /\ CeilingLength \in [Ceilings -> Nat \ {0}]
    /\ Interval \in Nat \ {0} /\ MaxConcurrent \in Nat /\ Hour \in Nat \ {0} /\ MaxClock \in Nat

VARIABLES
    clock,
    active,        \* attempts in progress
    starts,        \* per window, the times of the attempts it still counts
    campaignNext,  \* when a campaign may attempt again; 0 when it has no entry
    wakeups,       \* generation of the channel a release closes
    attempts       \* history: every attempt, with its time and its campaign

limiterVars == <<clock, active, starts, campaignNext, wakeups, attempts>>

LimiterTypeOK ==
    /\ clock \in 0..MaxClock
    /\ active \in Nat
    /\ starts \in [Ceilings -> Seq(Nat)]
    /\ campaignNext \in [Campaigns -> Nat]
    /\ wakeups \in Nat
    /\ attempts \in Seq([at : Nat, campaign : Campaigns \cup {NoCampaign}])

LimiterInit ==
    /\ clock = 0
    /\ active = 0
    /\ starts = [c \in Ceilings |-> << >>]
    /\ campaignNext = [k \in Campaigns |-> 0]
    /\ wakeups = 0
    /\ attempts = << >>

\* The attempts a window forgets, from its oldest one on.
Expired(c, cutoff) ==
    {i \in 1..Len(starts[c]) : \A j \in 1..i : starts[c][j] <= cutoff}
After(c, cutoff) == SubSeq(starts[c], Cardinality(Expired(c, cutoff)) + 1, Len(starts[c]))

\* Mutant of TrimStarts: the window is closed at its far end.
TrimStartsLate(c) == After(c, clock - CeilingLength[c] + 1)

\* trimStarts: an attempt leaves the window exactly its length later.
TrimStarts(c) == After(c, clock - CeilingLength[c])

\* What each limit asks a message of campaign k to wait.
Waits(k) ==
    (IF MaxConcurrent > 0 /\ active >= MaxConcurrent THEN {Hour} ELSE {})
    \cup (IF k \in Campaigns THEN {campaignNext[k] - clock} ELSE {})
    \cup {TrimStarts(c)[1] + CeilingLength[c] - clock :
            c \in {w \in Ceilings : Len(TrimStarts(w)) >= CeilingLimit[w]}}

Wait(k) == Max({0} \cup Waits(k))

\* take, with nothing to wait for.  An entry of campaignNext that is not in the
\* future says what no entry says, so pruning it is setting it to zero.
Take(k) ==
    /\ Wait(k) = 0
    /\ active' = IF MaxConcurrent > 0 THEN active + 1 ELSE active
    /\ starts' = [c \in Ceilings |-> Append(TrimStarts(c), clock)]
    /\ campaignNext' = [j \in Campaigns |-> IF j = k THEN clock + Interval
                                            ELSE IF campaignNext[j] > clock THEN campaignNext[j]
                                            ELSE 0]
    /\ attempts' = Append(attempts, [at |-> clock, campaign |-> k])
    /\ UNCHANGED <<clock, wakeups>>

\* Mutant of Release: nobody who waits is told.
ReleaseSilent ==
    /\ active' = IF MaxConcurrent > 0 THEN active - 1 ELSE active
    /\ UNCHANGED <<clock, starts, campaignNext, wakeups, attempts>>

\* Release: the attempt is over and those who wait look again.
Release ==
    /\ active' = IF MaxConcurrent > 0 THEN active - 1 ELSE active
    /\ wakeups' = IF MaxConcurrent > 0 THEN wakeups + 1 ELSE wakeups
    /\ UNCHANGED <<clock, starts, campaignNext, attempts>>

Tick ==
    /\ clock < MaxClock
    /\ clock' = clock + 1
    /\ UNCHANGED <<active, starts, campaignNext, wakeups, attempts>>

-----------------------------------------------------------------------------
(* Properties. *)

\* A window holds the last attempts in their order, and forgot only what left it.
Remembered ==
    /\ \A i, j \in DOMAIN attempts : i <= j => attempts[i].at <= attempts[j].at
    /\ \A i \in DOMAIN attempts : attempts[i].at <= clock
    /\ \A c \in Ceilings :
        LET old == Len(attempts) - Len(starts[c])
        IN  /\ old >= 0
            /\ \A i \in 1..Len(starts[c]) : starts[c][i] = attempts[old + i].at
            /\ \A i \in 1..old : attempts[i].at <= clock - CeilingLength[c]

\* An attempt that a campaign's entry does not hold back is an interval ago.
Paced ==
    \A i \in DOMAIN attempts :
        LET k == attempts[i].campaign
            over == attempts[i].at + Interval
        IN  k \in Campaigns => over <= campaignNext[k] \/ over <= clock

\* As many attempts further on the window has passed.
Spaced ==
    \A c \in Ceilings, i \in DOMAIN attempts :
        i + CeilingLimit[c] \in DOMAIN attempts =>
            attempts[i + CeilingLimit[c]].at >= attempts[i].at + CeilingLength[c]

\* No window of the length of a ceiling, wherever it begins, sees more attempts
\* start than the ceiling admits, and two attempts of one campaign are an interval
\* apart, whatever other campaigns do in between and whenever idle entries are
\* pruned: trimming, comparing and recording happen under one lock (take).
CeilingsHold ==
    /\ Remembered /\ Paced /\ Spaced
    /\ \A c \in Ceilings, from \in 0..MaxClock :
        Cardinality({i \in DOMAIN attempts :
                        attempts[i].at >= from /\ attempts[i].at < from + CeilingLength[c]})
            <= CeilingLimit[c]
    /\ \A i, j \in DOMAIN attempts :
        /\ i < j
        /\ attempts[i].campaign = attempts[j].campaign
        /\ attempts[i].campaign # NoCampaign
        => attempts[j].at >= attempts[i].at + Interval
=============================================================================
