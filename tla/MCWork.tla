------------------------------- MODULE MCWork -------------------------------
(***************************************************************************)
(* The trading work and the services around it for TLC: strategies,        *)
(* replays, the trading cycle, the learning systems, accounts and the      *)
(* request guards.  They share no state here, so, as in MCInfra, each      *)
(* behaviour moves one of them, which "work" names.                        *)
(***************************************************************************)
EXTENDS GoldEdge, Backtest, TradingCycle, ParameterSearch, RlTraining, OnlineLearning, SignalEngine, PerformanceCache, GeneticEvolution, Accounts, RequestGuard, SecurityMonitor, RiskRules, BackupCycle, V6Cycle, Messages, SyncRecords, NewsCalendar, MarketStream, BrokerBridge, Supervisor, FeatureCache

CONSTANTS u1, u2, u3

\* Gold Edge: the scores and borders.
GoldGrid == <<5, 10, 15, 20>>
GoldReadings == {-70, 25}
GoldOffsets == {-15, 3, 25}

\* The trading cycle: symbols 1 and 2 stand in the correlation matrix in alphabetical
\* order, 2 and 3 the other way round.
Correlations == {<<1, 2>>, <<3, 2>>}
ThreeTargets == <<20, 30, 40>>

\* What the optimizers measure.
GeneFitness(g) == g.tp - g.gec
TradeFitness(d, p) == (d * p) % 3

\* What the indicators say of a timeframe.
Bullish == [rsi |-> <<"BUY", "far">>, ema |-> "BUY", macd |-> "BUY", band |-> "none", place |-> "BUY"]
Bearish == [rsi |-> <<"none", "near">>, ema |-> "SELL", macd |-> "SELL", band |-> "none", place |-> "SELL"]
Mixed == [rsi |-> <<"SELL", "near">>, ema |-> "SELL", macd |-> "BUY", band |-> "none", place |-> "none"]
AllReadings == {Bullish, Bearish, Mixed}

\* The statistics: one trader, whose trades are won or lost.
OneTrader == <<u1>>
WonOrLost == {-1, 1}

\* The genetic search: stop and target in half ATR, weights in twelfths.
GeneRange == [sl |-> {2, 7}, tp |-> {3, 10}, trend |-> {0, 12}, momentum |-> {0, 12}]
GenesOf(s, t, a, b) == [sl |-> s, tp |-> t, trend |-> a, momentum |-> b]
TwoPools == {<<GenesOf(2, 3, 12, 0), GenesOf(7, 3, 0, 12), GenesOf(2, 10, 12, 12)>>,
             <<GenesOf(7, 10, 0, 0), GenesOf(7, 3, 12, 12), GenesOf(2, 3, 0, 12)>>}
Bar(c, h, l, t, m) == [close |-> c, high |-> h, low |-> l, trend |-> t, momentum |-> m,
                       border |-> 60, filter |-> 100]
SevenBars == <<Bar(50, 50, 50, 0, 0), Bar(50, 51, 49, 80, -60), Bar(53, 54, 50, 60, 90),
             Bar(57, 58, 52, -70, 40), Bar(50, 57, 48, 90, -80), Bar(46, 50, 45, 10, 10),
             Bar(52, 55, 46, 0, 0)>>

\* The request guards.
Capacities == [ep |-> 1, ip |-> 2]
DetectorLogs == {"rate", "logins", "ip", "trades", "endpoints", "params"}
DetectorWindows == [k \in DetectorLogs |-> IF k \in {"rate", "trades"} THEN 3 ELSE 2]
LogAges == [k \in DetectorLogs |-> 3]
TwoEach == [k \in DetectorLogs |-> 2]
MinuteToHour == <<1, 2, 3>>

\* The risk rules.
StandardLimits == [drawdown |-> 1500, loss |-> 200]
GoldLimits == [drawdown |-> 3000, loss |-> 500]
WinAndLoss == {-2, 3}

\* The V6 cycle.
V6Order == <<"eurusd", "xauusd", "btcusd">>
V6Parts == [eurusd |-> {"EUR", "USD"}, xauusd |-> {"XAU", "USD"}, btcusd |-> {"BTC", "USD"}]
V6Bar(c, w) == [close |-> c, high |-> c + w, low |-> c - w]
RisingBars == <<V6Bar(10, 1), V6Bar(11, 1), V6Bar(12, 2), V6Bar(13, 1), V6Bar(14, 1), V6Bar(20, 0)>>
FlatBars == <<V6Bar(10, 1), V6Bar(10, 0), V6Bar(9, 0), V6Bar(10, 0), V6Bar(10, 0), V6Bar(4, 0)>>
Quotation(spread, volume, bars, ratio) ==
    [spread |-> spread, volume |-> volume, bars |-> bars, price |-> 20, ratio |-> ratio]
ThreeMarkets ==
    {("eurusd" :> Quotation(1, 2000, <<>>, 40)) @@ ("xauusd" :> Quotation(6, 900, RisingBars, 90)),
     ("eurusd" :> Quotation(5, 900, FlatBars, 120)) @@ ("xauusd" :> Quotation(1, 150, RisingBars, 30))
        @@ ("btcusd" :> Quotation(0, 900, <<>>, 200)),
     ("btcusd" :> Quotation(2, 90, RisingBars, 200))}
TwoReports == {[scalping |-> 100, trend |-> 0, reversion |-> 0, breakout |-> 0, news |-> 0],
               [scalping |-> 0, trend |-> 60, reversion |-> 0, breakout |-> 70, news |-> 0]}

\* The messages.
TwoChannels == <<"email", "slack">>

\* The news: one calendar with an event today and one, with a zone, tomorrow; one with an
\* event of another country.
NewsAt(t, zone) == [at |-> t, relevant |-> TRUE, zoned |-> zone]
TwoCalendars == {<<NewsAt(1, FALSE), NewsAt(3, TRUE)>>,
                 <<[NewsAt(1, TRUE) EXCEPT !.relevant = FALSE], NewsAt(2, FALSE)>>}
FromTomorrow == <<3, 5>>

\* The supervisor of the monitors.
ThreeMonitors == <<"orchestrator", "failover", "health">>


VARIABLE work
Works == {"gold", "scan", "replay", "cycle", "search", "tuning", "agent", "learner", "window", "tester", "ensemble", "retrain", "signals", "regime", "cache", "view", "genes", "users", "scaling", "gate", "trust", "requests", "logins", "trades", "events", "integrity", "risk", "settings", "backup", "v6", "alerts", "notes", "records", "locks", "news", "sockets", "prices", "candles", "bridge",
          "supervisor", "features"}

WorkInit ==
    /\ work \in Works
    /\ GoldInit /\ BtInit /\ TcInit
    /\ SearchInit /\ (work # "tuning" => soBestParams = 1 /\ soThreshold = LowThreshold)
    /\ RlInit /\ (work # "agent" => rlData = [r \in 0 .. Rows - 1 |-> 1])
    /\ OlInit /\ (work # "retrain" => arRedisUp)
    /\ SgInit /\ PcInit
    /\ GeInit /\ (work # "genes" => gePool[1].genes.tp = 3)
    /\ AcInit
    /\ GuardInit
    /\ MonitorInit /\ (work # "integrity" => raFiles = [f \in SourceFiles |-> 1])
    /\ RiskInit
    /\ BackupInit
    /\ V6Init
    /\ MessagesInit
    /\ (work # "notes" => noPrefs = [email |-> TRUE, push |-> TRUE, sms |-> TRUE, quiet |-> FALSE])
    /\ (work # "alerts" => alEnabled = {})
    /\ SyncRecordsInit /\ (work \notin {"records", "locks"} => rsUp)
    /\ NewsInit
    /\ StreamInit /\ (work # "sockets" => wsMapping) /\ (work \notin {"sockets", "prices"} => wsBridge)
    /\ BridgeInit /\ (work # "bridge" => brUp /\ brKind = "mcp")
    /\ SupervisorInit
    /\ FeatureInit /\ (work # "features" => fcUp)

\* Only the variables of the named part move.
Only(name) ==
    /\ work = name /\ UNCHANGED work
    /\ IF name \in {"gold", "scan"} THEN TRUE ELSE UNCHANGED goldVars
    /\ IF name = "replay" THEN TRUE ELSE UNCHANGED btVars
    /\ IF name = "cycle" THEN TRUE ELSE UNCHANGED tcVars
    /\ IF name = "search" THEN TRUE ELSE UNCHANGED gsVars
    /\ IF name = "tuning" THEN TRUE ELSE UNCHANGED soVars
    /\ IF name = "agent" THEN TRUE ELSE UNCHANGED rlVars
    /\ IF name = "learner" THEN TRUE ELSE UNCHANGED learnerVars
    /\ IF name = "window" THEN TRUE ELSE UNCHANGED windowVars
    /\ IF name = "tester" THEN TRUE ELSE UNCHANGED testerVars
    /\ IF name = "ensemble" THEN TRUE ELSE UNCHANGED ensembleVars
    /\ IF name = "retrain" THEN TRUE ELSE UNCHANGED retrainVars
    /\ IF name = "signals" THEN TRUE ELSE UNCHANGED taskVars
    /\ IF name = "regime" THEN TRUE ELSE UNCHANGED regimeVars
    /\ IF name \in {"cache", "view"} THEN TRUE ELSE UNCHANGED pcVars
    /\ IF name = "genes" THEN TRUE ELSE UNCHANGED geVars
    /\ IF name = "users" THEN TRUE ELSE UNCHANGED userVars
    /\ IF name = "scaling" THEN TRUE ELSE UNCHANGED scalingVars
    /\ IF name \in {"gate", "trust"} THEN TRUE ELSE UNCHANGED guardVars
    /\ IF name \in {"requests", "logins", "trades", "events", "integrity"} THEN TRUE ELSE UNCHANGED monitorVars
    /\ IF name = "risk" THEN TRUE ELSE UNCHANGED riskVars
    /\ IF name = "settings" THEN TRUE ELSE UNCHANGED settingsVars
    /\ IF name = "backup" THEN TRUE ELSE UNCHANGED backupVars
    /\ IF name = "v6" THEN TRUE ELSE UNCHANGED v6Vars
    /\ IF name = "alerts" THEN TRUE ELSE UNCHANGED alertVars
    /\ IF name = "notes" THEN TRUE ELSE UNCHANGED noteVars
    /\ IF name \in {"records", "locks"} THEN TRUE ELSE UNCHANGED syncRecordVars
    /\ IF name = "news" THEN TRUE ELSE UNCHANGED newsVars
    /\ IF name \in {"sockets", "prices", "candles"} THEN TRUE ELSE UNCHANGED streamVars
    /\ IF name = "bridge" THEN TRUE ELSE UNCHANGED bridgeVars
    /\ IF name = "supervisor" THEN TRUE ELSE UNCHANGED supervisorVars
    /\ IF name = "features" THEN TRUE ELSE UNCHANGED featureVars

WorkNext ==
    \/ Only("gold") /\ AnalyseNext
    \/ Only("scan") /\ ScanNext
    \/ Only("replay") /\ BtNext
    \/ Only("cycle") /\ TcNext
    \/ Only("search") /\ OptimizerNext
    \/ Only("tuning") /\ TuningNext
    \/ Only("agent") /\ RlNext
    \/ Only("learner") /\ LearnerNext
    \/ Only("window") /\ WindowNext
    \/ Only("tester") /\ TesterNext
    \/ Only("ensemble") /\ EnsembleNext
    \/ Only("retrain") /\ RetrainNext
    \/ Only("signals") /\ TaskNext
    \/ Only("regime") /\ RegimeNext
    \/ Only("cache") /\ PcNext /\ UNCHANGED viewVars
    \/ Only("view") /\ PcNext /\ UNCHANGED taskState
    \/ Only("genes") /\ GeNext
    \/ Only("users") /\ UserNext
    \/ Only("scaling") /\ ScalingNext
    \/ Only("gate") /\ GateNext
    \/ Only("trust") /\ TrustNext
    \/ Only("requests") /\ RequestsNext
    \/ Only("logins") /\ LoginsNext
    \/ Only("trades") /\ TradesNext
    \/ Only("events") /\ SiemNext
    \/ Only("integrity") /\ RaspNext
    \/ Only("risk") /\ RiskNext
    \/ Only("settings") /\ SettingsNext
    \/ Only("backup") /\ BackupNext
    \/ Only("v6") /\ V6Next
    \/ Only("alerts") /\ AlertsNext
    \/ Only("notes") /\ NotesNext
    \/ Only("records") /\ RecordsNext
    \/ Only("locks") /\ LocksNext
    \/ Only("news") /\ NewsNext
    \/ Only("sockets") /\ SocketsNext /\ UNCHANGED <<priceVars, ingestVars>>
    \/ Only("prices") /\ PricesNext
    \/ Only("candles") /\ IngestNext
    \/ Only("bridge") /\ BridgeNext
    \/ Only("supervisor") /\ SupervisorNext
    \/ Only("features") /\ FeatureNext

workVars == <<work, goldVars, btVars, tcVars, searchVars, rlVars, olVars, sgVars, pcVars, geVars, acVars, guardVars, monitorVars, rrVars, backupVars, v6Vars, messageVars, syncRecordVars, newsVars, streamVars, bridgeVars, supervisorVars, featureVars>>

WorkSpec == WorkInit /\ [][WorkNext]_workVars

\* The type invariants of the parts.  What a behaviour does not move stays as it began, in a
\* state in which the behaviours that move it begin too: checking each part where it moves
\* checks it everywhere.
WorkTypeOK ==
    /\ work \in Works
    /\ work \in {"gold", "scan"} => GoldTypeOK
    /\ work = "replay" => BtTypeOK
    /\ work = "cycle" => TcTypeOK
    /\ work \in {"search", "tuning"} => SearchTypeOK
    /\ work = "agent" => RlTypeOK
    /\ work \in {"learner", "window", "tester", "ensemble", "retrain"} => OlTypeOK
    /\ work \in {"signals", "regime"} => SgTypeOK
    /\ work \in {"cache", "view"} => PcTypeOK
    /\ work = "genes" => GeTypeOK
    /\ work \in {"users", "scaling"} => AcTypeOK
    /\ work \in {"gate", "trust"} => GuardTypeOK
    /\ work \in {"requests", "logins", "trades", "events", "integrity"} => MonitorTypeOK
    /\ work \in {"risk", "settings"} => RiskTypeOK
    /\ work = "backup" => BackupTypeOK
    /\ work = "v6" => V6TypeOK
    /\ work \in {"alerts", "notes"} => MessagesTypeOK
    /\ work \in {"records", "locks"} => SyncRecordsTypeOK
    /\ work = "news" => NewsTypeOK
    /\ work \in {"sockets", "prices", "candles"} => StreamTypeOK
    /\ work = "bridge" => BridgeTypeOK
    /\ work = "supervisor" => SupervisorTypeOK
    /\ work = "features" => FeatureTypeOK
=============================================================================
