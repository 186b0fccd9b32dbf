------------------------------- MODULE Health -------------------------------
(***************************************************************************)
(* The health monitor (monitoring/health.py) with the strategy loops it    *)
(* pauses: a slow poll reads the account balance and raises or clears the  *)
(* pause flag, the executor raises it when Kalshi refuses an order for     *)
(* funds, and every strategy_loop looks at it before a scan.               *)
(*                                                                         *)
(* The balance is awaited: `poll' carries what Kalshi answered until the   *)
(* coroutine runs again, and an order refused meanwhile is handled by a    *)
(* coroutine of its own.                                                   *)
(*                                                                         *)
(* Abstractions: a balance is short (below min_wallet_balance_usd), thin   *)
(* (above it, but an order may be refused) or ample.  Time is ticks of the *)
(* monotonic clock, kept as ages that stop growing once they no longer     *)
(* matter.  The breaker's halt, which also pauses a loop, is TradingCore's.*)
(***************************************************************************)
EXTENDS Naturals, Sequences

CONSTANTS
  Strategies,
  LiveStrategies,  \* those whose orders need the account's funds
  MaxScanGap,      \* max_scan_gap_sec, in ticks
  ErrorThreshold,  \* error_alert_threshold
  ErrorWindow,     \* error_window_sec, in ticks
  Cooldown,        \* alert_cooldown_sec, in ticks
  MaxErrors        \* bound: errors of one source the log is followed for

ASSUME HealthAssumption ==
  /\ LiveStrategies \subseteq Strategies
  /\ {MaxScanGap, ErrorThreshold, ErrorWindow, Cooldown, MaxErrors} \subseteq Nat
  /\ ErrorThreshold > 0

VARIABLES
  funds,         \* the account: "short", "thin" or "ample"
  paused,        \* trading_paused_for_balance
  walletAlerted, \* _wallet_alerted
  poll,          \* "idle", "asked", or the balance Kalshi answered
  loop,          \* [Strategies -> LoopState]
  scanAge,       \* [Strategies -> age of _last_scan_at, or Never]
  stallAlerted,  \* [Strategies -> BOOLEAN], _stall_alerted
  errors,        \* [Strategies -> Seq(ages)], _error_log by source
  keyAge         \* [Keys -> age of _last_emit_at] on the alert bus

vars == <<funds, paused, walletAlerted, poll, loop, scanAge, stallAlerted,
          errors, keyAge>>

Balances  == {"short", "thin", "ample"}
LoopState == {"sleeping", "scanning", "submitting", "refused"}
Keys      == {"health_warning", "insufficient_funds", "error"}
Never     == MaxScanGap + 2
Old       == MaxScanGap + 1  \* longer ago than max_scan_gap_sec

\* emit(): an event of a key that was emitted within the cooldown is dropped,
\* and one that is accepted starts a new cooldown.
Emitted(ages, key) == IF ages[key] < Cooldown THEN ages ELSE [ages EXCEPT ![key] = 0]

\* The clock starts with the host, the bus with "never" at zero.
Init ==
  /\ funds \in Balances
  /\ paused = FALSE
  /\ walletAlerted = FALSE
  /\ poll = "idle"
  /\ loop = [s \in Strategies |-> "sleeping"]
  /\ scanAge = [s \in Strategies |-> Never]
  /\ stallAlerted = [s \in Strategies |-> FALSE]
  /\ errors = [s \in Strategies |-> << >>]
  /\ \E uptime \in 0..Cooldown : keyAge = [k \in Keys |-> uptime]

-----------------------------------------------------------------------------
(* HealthMonitor *)

\* Mutation: nothing is dropped from the log.
RecordErrorOnly(s) ==
  /\ Len(SelectSeq(errors[s], LAMBDA age : age <= ErrorWindow)) < MaxErrors
  /\ errors' = [errors EXCEPT ![s] = Append(@, 0)]

\* record_error: what left the window is dropped, but only now.
RecordError(s) ==
  LET kept == SelectSeq(errors[s], LAMBDA age : age <= ErrorWindow)
  IN  /\ Len(kept) < MaxErrors
      /\ errors' = [errors EXCEPT ![s] = Append(kept, 0)]

Stalled(s) == scanAge[s] = Old /\ ~stallAlerted[s]

\* Mutation: the stall check is left out while trading is paused.
PollStartsUnpaused ==
  /\ poll = "idle"
  /\ stallAlerted' = [s \in Strategies |-> stallAlerted[s] \/ (Stalled(s) /\ ~paused)]
  /\ keyAge' = IF \E s \in Strategies : Stalled(s) /\ ~paused
               THEN Emitted(keyAge, "health_warning") ELSE keyAge
  /\ poll' = "asked"
  /\ UNCHANGED <<funds, paused, walletAlerted, loop, scanAge, errors>>

\* _check_scan_freshness, then the balance is asked for.  Every stalled
\* strategy is marked; all of them share one cooldown key.
PollStarts ==
  /\ poll = "idle"
  /\ stallAlerted' = [s \in Strategies |-> stallAlerted[s] \/ Stalled(s)]
  /\ keyAge' = IF \E s \in Strategies : Stalled(s)
               THEN Emitted(keyAge, "health_warning") ELSE keyAge
  /\ poll' = "asked"
  /\ UNCHANGED <<funds, paused, walletAlerted, loop, scanAge, errors>>

\* Kalshi answers with the balance of this moment.
BalanceRead ==
  /\ poll = "asked"
  /\ poll' = funds
  /\ UNCHANGED <<funds, paused, walletAlerted, loop, scanAge, stallAlerted,
                 errors, keyAge>>

\* _check_error_thresholds looks at the length of the log only.
Thresholds(ages) ==
  IF \E s \in Strategies : Len(errors[s]) >= ErrorThreshold
  THEN Emitted(ages, "error") ELSE ages

\* Mutation: the flag is cleared with the wallet alert only, so that a pause
\* the executor raised is never lifted.
PollEndsAlerted ==
  LET low == poll = "short"
  IN  /\ poll \in Balances
      /\ paused' = (low \/ (paused /\ ~walletAlerted))
      /\ walletAlerted' = low
      /\ keyAge' = Thresholds(IF low /\ ~walletAlerted
                              THEN Emitted(keyAge, "health_warning") ELSE keyAge)
      /\ poll' = "idle"
      /\ UNCHANGED <<funds, loop, scanAge, stallAlerted, errors>>

\* _check_wallet_balance applies the answer, whatever happened since.
PollEnds ==
  LET low == poll = "short"
  IN  /\ poll \in Balances
      /\ paused' = low
      /\ walletAlerted' = low
      /\ keyAge' = Thresholds(IF low /\ ~walletAlerted
                              THEN Emitted(keyAge, "health_warning") ELSE keyAge)
      /\ poll' = "idle"
      /\ UNCHANGED <<funds, loop, scanAge, stallAlerted, errors>>

\* Mutation: a failed read lifts the pause.
PollFailsOpen ==
  /\ poll = "asked"
  /\ paused' = FALSE
  /\ keyAge' = Thresholds(keyAge)
  /\ poll' = "idle"
  /\ UNCHANGED <<funds, walletAlerted, loop, scanAge, stallAlerted, errors>>

\* The read fails or times out: flags stay as they are.
PollFails ==
  /\ poll = "asked"
  /\ keyAge' = Thresholds(keyAge)
  /\ poll' = "idle"
  /\ UNCHANGED <<funds, paused, walletAlerted, loop, scanAge, stallAlerted,
                 errors>>

-----------------------------------------------------------------------------
(* strategy_loop *)

Goto(s, state) == loop' = [loop EXCEPT ![s] = state]

\* A paused loop sleeps again.
StartScan(s) ==
  /\ loop[s] = "sleeping"
  /\ ~paused
  /\ Goto(s, "scanning")
  /\ UNCHANGED <<funds, paused, walletAlerted, poll, scanAge, stallAlerted,
                 errors, keyAge>>

\* record_scan
ScanReturns(s) ==
  /\ loop[s] = "scanning"
  /\ Goto(s, "submitting")
  /\ scanAge' = [scanAge EXCEPT ![s] = 0]
  /\ stallAlerted' = [stallAlerted EXCEPT ![s] = FALSE]
  /\ UNCHANGED <<funds, paused, walletAlerted, poll, errors, keyAge>>

ScanRaises(s) ==
  /\ loop[s] = "scanning"
  /\ RecordError(s)
  /\ Goto(s, "sleeping")
  /\ UNCHANGED <<funds, paused, walletAlerted, poll, scanAge, stallAlerted,
                 keyAge>>

\* An order is taken and may eat into the funds; the flag is not looked at
\* between two signals of a scan.
OrderTaken(s, left) ==
  /\ loop[s] = "submitting"
  /\ s \in LiveStrategies
  /\ funds # "short"
  /\ \/ left = funds
     \/ left = "thin"
     \/ left = "short" /\ funds = "thin"
  /\ funds' = left
  /\ UNCHANGED <<paused, walletAlerted, poll, loop, scanAge, stallAlerted,
                 errors, keyAge>>

\* Kalshi refuses for funds; the answer is on its way.
OrderRefused(s) ==
  /\ loop[s] = "submitting"
  /\ s \in LiveStrategies
  /\ funds # "ample"
  /\ Goto(s, "refused")
  /\ UNCHANGED <<funds, paused, walletAlerted, poll, scanAge, stallAlerted,
                 errors, keyAge>>

\* The insufficient_funds handler of submit and the pause hook, on to the
\* next signal of the scan.
HandleRefusal(s) ==
  /\ loop[s] = "refused"
  /\ paused' = TRUE
  /\ keyAge' = Emitted(keyAge, "insufficient_funds")
  /\ Goto(s, "submitting")
  /\ UNCHANGED <<funds, walletAlerted, poll, scanAge, stallAlerted, errors>>

\* The last signal is dealt with.
Finish(s) ==
  /\ loop[s] = "submitting"
  /\ Goto(s, "sleeping")
  /\ UNCHANGED <<funds, paused, walletAlerted, poll, scanAge, stallAlerted,
                 errors, keyAge>>

-----------------------------------------------------------------------------
(* The world *)

Older(age, last) == IF age < last THEN age + 1 ELSE age

Tick ==
  /\ scanAge' = [s \in Strategies |-> IF scanAge[s] = Never THEN Never
                                      ELSE Older(scanAge[s], Old)]
  /\ errors' = [s \in Strategies |->
       [i \in DOMAIN errors[s] |-> Older(errors[s][i], ErrorWindow + 1)]]
  /\ keyAge' = [k \in Keys |-> Older(keyAge[k], Cooldown)]
  /\ UNCHANGED <<funds, paused, walletAlerted, poll, loop, stallAlerted>>

\* Deposits, settlements, and losses elsewhere on the account.
FundsChange(balance) ==
  /\ funds' = balance
  /\ UNCHANGED <<paused, walletAlerted, poll, loop, scanAge, stallAlerted,
                 errors, keyAge>>

StrategyLoop(s) ==
  \/ StartScan(s)
  \/ ScanReturns(s)
  \/ ScanRaises(s)
  \/ \E left \in Balances : OrderTaken(s, left)
  \/ OrderRefused(s)
  \/ HandleRefusal(s)
  \/ Finish(s)

Next ==
  \/ PollStarts
  \/ BalanceRead
  \/ PollEnds
  \/ PollFails
  \/ \E s \in Strategies : StrategyLoop(s)
  \/ Tick
  \/ \E balance \in Balances : FundsChange(balance)

Spec == Init /\ [][Next]_vars

\* The poll and the loops are timer loops that catch every exception; every
\* await of theirs ends (client timeouts), a scan is over after finitely many
\* signals, and a balance that is asked for again and again is answered again
\* and again.
Fairness ==
  /\ WF_vars(PollStarts)
  /\ WF_vars(BalanceRead \/ PollFails)
  /\ SF_vars(BalanceRead)
  /\ WF_vars(PollEnds)
  /\ \A s \in Strategies :
       /\ WF_vars(StartScan(s))
       /\ WF_vars(ScanReturns(s) \/ ScanRaises(s))
       /\ WF_vars(HandleRefusal(s))
       /\ SF_vars(Finish(s))

FairSpec == Spec /\ Fairness

-----------------------------------------------------------------------------
(* Properties *)

\* Type invariant; the error log is in order of time and no longer than the
\* errors of one window (health.py:88).
TypeOK ==
  /\ funds \in Balances
  /\ paused \in BOOLEAN /\ walletAlerted \in BOOLEAN
  /\ poll \in {"idle", "asked"} \cup Balances
  /\ loop \in [Strategies -> LoopState]
  /\ scanAge \in [Strategies -> 0..Never]
  /\ stallAlerted \in [Strategies -> BOOLEAN]
  /\ keyAge \in [Keys -> 0..Cooldown]
  /\ \A s \in Strategies :
       /\ errors[s] \in Seq(0..ErrorWindow + 1)
       /\ Len(errors[s]) <= MaxErrors
       /\ \A i, j \in DOMAIN errors[s] : i < j => errors[s][i] >= errors[s][j]

\* An account that stays short ends all trading (health.py:155), although a
\* balance read earlier may still clear the flag once and reads may fail.
ShortStopsTrading ==
  <>[](funds = "short") => <>[](\A s \in Strategies : loop[s] = "sleeping")

\* "The next health cycle clears the flag if funds recovered" (main.py:731):
\* on an account that stays ample no strategy is kept waiting forever,
\* whichever way it was paused.
AmpleResumes ==
  <>[](funds = "ample") =>
    \A s \in Strategies : []<>(loop[s] = "scanning")

\* A strategy that has scanned once and never does again is noticed
\* (health.py:7), whether it hangs, keeps failing or is paused.
StallNoticed ==
  \A s \in Strategies :
    <>[](scanAge[s] = Old) => <>[](stallAlerted[s])

=============================================================================
