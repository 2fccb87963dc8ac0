------------------------------- MODULE Paywall --------------------------------
(***************************************************************************)
(* decide of memberships-core: what a reader may see of an article behind  *)
(* one of the five strategies, while time passes, the reader joins and     *)
(* leaves, and the caller counts reads on the reader's meter.  Times are   *)
(* whole days.  Nothing in the repository counts or resets a meter; it is  *)
(* counted here as its fields say, one for each full read of a non-member. *)
(***************************************************************************)
EXTENDS Naturals

CONSTANTS
  TierIds,      \* ids of membership tiers
  Strategies,   \* PaywallStrategy
  Limit,        \* MeterState::reads_per_window
  WindowDays,   \* MeterState::window_days and ContentPaywall::free_window_days
  LastDay,      \* bound on the clock
  NoTier        \* no tier: of a reader who is not a member, or of an article open to any

ASSUME PaywallAssumption ==
  /\ {Limit, WindowDays, LastDay} \subseteq Nat
  /\ Strategies \subseteq {"open", "hard", "metered", "time-based", "preview"}

VARIABLES
  paywall,      \* [strategy, min_tier] of the article; published on day 0
  held,         \* MemberSnapshot::tier_id
  reads_used,   \* MeterState, its window starting on day 0
  day           \* the clock

payVars == <<paywall, held, reads_used, day>>

PayInit ==
  /\ paywall \in [strategy : Strategies, min_tier : TierIds \union {NoTier}]
  /\ held \in TierIds \union {NoTier}
  /\ reads_used = 0 /\ day = 0

HasWindowRolled == day >= WindowDays
IsExhausted == ~HasWindowRolled /\ reads_used >= Limit

DecideTierGated ==
  CASE paywall.min_tier = NoTier -> IF held = NoTier THEN "requires-membership" ELSE "allowed"
    [] held = NoTier -> "requires-membership"
    [] paywall.min_tier = held -> "allowed"
    [] OTHER -> "requires-upgrade"

\* Mutant of InFreeWindow: the comparison turned round
InFreeWindowLater == day >= WindowDays

InFreeWindow == day < WindowDays

Decide ==
  CASE paywall.strategy = "open" -> "allowed"
    [] paywall.strategy = "hard" -> DecideTierGated
    [] paywall.strategy = "metered" ->
         IF held = NoTier /\ IsExhausted THEN "meter-exhausted" ELSE "allowed"
    [] paywall.strategy = "time-based" -> IF InFreeWindow THEN "allowed" ELSE DecideTierGated
    [] paywall.strategy = "preview" -> IF held = NoTier THEN "preview" ELSE "allowed"

ReadArticle ==
  /\ Decide = "allowed" /\ reads_used <= Limit
  /\ reads_used' = IF paywall.strategy = "metered" /\ held = NoTier THEN reads_used + 1
                   ELSE reads_used
  /\ UNCHANGED <<paywall, held, day>>

Join(t) == held' = t /\ UNCHANGED <<paywall, reads_used, day>>
NextDay == day < LastDay /\ day' = day + 1 /\ UNCHANGED <<paywall, held, reads_used>>

PayNext == ReadArticle \/ NextDay \/ \E t \in TierIds \union {NoTier} : Join(t)

PaySpec == PayInit /\ [][PayNext]_payVars

-----------------------------------------------------------------------------
PayTypeOK ==
  /\ paywall.strategy \in Strategies /\ held \in TierIds \union {NoTier}
  /\ reads_used \in 0..(Limit + 1) /\ day \in 0..LastDay

\* Waiting never opens an article that was closed, except to the metered reader whose window
\* rolls; and a metered or time-gated article that was open closes by waiting only when its free
\* window ends.
WaitingChanges ==
  day' # day =>
    /\ Decide' = "allowed" /\ Decide # "allowed" =>
         paywall.strategy = "metered" /\ day' = WindowDays
    /\ Decide' # "allowed" /\ Decide = "allowed" =>
         paywall.strategy = "time-based" /\ day' = WindowDays
WaitingOpensOnlyMeters == [][WaitingChanges]_payVars

\* The comment of Tier::rank: a higher rank has more privileges, so who may read loses nothing
\* by an upgrade.
HigherRankReads(rank) ==
  [][Decide = "allowed" /\ held # NoTier /\ held' # NoTier /\ rank[held'] > rank[held]
       => Decide' = "allowed"]_payVars
=============================================================================
