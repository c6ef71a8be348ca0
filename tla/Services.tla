-------------------------------- MODULE Services -------------------------------
(* Six components that share no state and make no calls of each other: the *)
(* risk engine, the trade engine, the simple order book, the scope timers, *)
(* telemetry and the latency model.  One of them runs and the others stay  *)
(* as they were constructed, which reaches every state of each component   *)
(* that a run of all six together would reach.                             *)
EXTENDS RiskEngine, TradeEngine, OrderBook, ScopeTimers, Telemetry, LatencyModel

VARIABLE component

ServicesInit ==
  /\ RiskInit /\ TradeInit /\ SimpleInit /\ TimerInit /\ TelemetryInit /\ LatencyInit
  /\ component \in {"risk", "trade", "book", "timers", "telemetry", "latency"}

ServicesNext ==
  /\ \/ component = "risk" /\ RiskNext
        /\ UNCHANGED <<tradeVars, simpleVars, timerVars, telemetryState, latencyVars>>
     \/ component = "trade" /\ TradeNext
        /\ UNCHANGED <<riskVars, simpleVars, timerVars, telemetryState, latencyVars>>
     \/ component = "book" /\ SimpleNext
        /\ UNCHANGED <<riskVars, tradeVars, timerVars, telemetryState, latencyVars>>
     \/ component = "timers" /\ TimerNext
        /\ UNCHANGED <<riskVars, tradeVars, simpleVars, telemetryState, latencyVars>>
     \/ component = "telemetry" /\ TelemetryNext
        /\ UNCHANGED <<riskVars, tradeVars, simpleVars, timerState, latencyVars>>
     \/ component = "latency" /\ LatencyNext
        /\ UNCHANGED <<now, riskVars, tradeVars, simpleVars, timerState, telemetryState>>
  /\ UNCHANGED component

ServicesSpec ==
  ServicesInit
    /\ [][ServicesNext]_<<component, riskVars, tradeVars, simpleVars, timerVars,
                          telemetryState, latencyVars>>

(* The types of all six.                                                   *)
ServicesTypeOK ==
  RiskTypeOK /\ TradeTypeOK /\ SimpleTypeOK /\ TimerTypeOK /\ TelemetryTypeOK
  /\ LatencyTypeOK
===============================================================================
