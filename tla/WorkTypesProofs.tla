-------------------------- MODULE WorkTypesProofs --------------------------
(***************************************************************************)
(* The type invariant of the trading work as a whole (MCWork): a behaviour *)
(* of the composition is one of each of its parts, since a step moves the  *)
(* part it belongs to and leaves the others' variables alone.  What        *)
(* WorkProofs and ServiceProofs say of the parts then holds of all.        *)
(***************************************************************************)
EXTENDS MCWork, WorkProofs, ServiceProofs

\* A step is of the part that "work" names.
LEMMA OnlyTheNamed ==
    /\ \A name \in Works : Only(name) => work = name /\ work' = work
    /\ WorkNext => \E name \in Works : Only(name)
<1>1. \A name \in Works : Only(name) => work = name /\ work' = work
  BY DEF Only
<1>2. WorkNext => \E name \in Works : Only(name)
  BY DEF WorkNext, Works
<1>3. QED
  BY <1>1, <1>2

\* For each part: a step of the work is a step of it, or leaves its variables alone.
LEMMA GoldSteps == WorkNext => GoldNext \/ UNCHANGED goldVars
<1> SUFFICES ASSUME WorkNext PROVE GoldNext \/ UNCHANGED goldVars
  OBVIOUS
<1>1. PICK name \in Works : Only(name)
  BY OnlyTheNamed
<1>2. CASE name \in {"gold", "scan"}
  BY <1>1, <1>2, OnlyTheNamed, ZenonT(40) DEF WorkNext, Works, GoldNext
<1>3. CASE name \notin {"gold", "scan"}
  BY <1>1, <1>3 DEF Only
<1>4. QED
  BY <1>2, <1>3

LEMMA BtSteps == WorkNext => BtNext \/ UNCHANGED btVars
<1> SUFFICES ASSUME WorkNext PROVE BtNext \/ UNCHANGED btVars
  OBVIOUS
<1>1. PICK name \in Works : Only(name)
  BY OnlyTheNamed
<1>2. CASE name \in {"replay"}
  BY <1>1, <1>2, OnlyTheNamed, ZenonT(40) DEF WorkNext, Works
<1>3. CASE name \notin {"replay"}
  BY <1>1, <1>3 DEF Only
<1>4. QED
  BY <1>2, <1>3

LEMMA TcSteps == WorkNext => TcNext \/ UNCHANGED tcVars
<1> SUFFICES ASSUME WorkNext PROVE TcNext \/ UNCHANGED tcVars
  OBVIOUS
<1>1. PICK name \in Works : Only(name)
  BY OnlyTheNamed
<1>2. CASE name \in {"cycle"}
  BY <1>1, <1>2, OnlyTheNamed, ZenonT(40) DEF WorkNext, Works
<1>3. CASE name \notin {"cycle"}
  BY <1>1, <1>3 DEF Only
<1>4. QED
  BY <1>2, <1>3

LEMMA SearchSteps == WorkNext => SearchNext \/ UNCHANGED searchVars
<1> SUFFICES ASSUME WorkNext PROVE SearchNext \/ UNCHANGED searchVars
  OBVIOUS
<1>1. PICK name \in Works : Only(name)
  BY OnlyTheNamed
<1>2. CASE name \in {"search", "tuning"}
  BY <1>1, <1>2, OnlyTheNamed, ZenonT(40) DEF WorkNext, Works, SearchNext
<1>3. CASE name \notin {"search", "tuning"}
  BY <1>1, <1>3 DEF Only, searchVars
<1>4. QED
  BY <1>2, <1>3

LEMMA RlSteps == WorkNext => RlNext \/ UNCHANGED rlVars
<1> SUFFICES ASSUME WorkNext PROVE RlNext \/ UNCHANGED rlVars
  OBVIOUS
<1>1. PICK name \in Works : Only(name)
  BY OnlyTheNamed
<1>2. CASE name \in {"agent"}
  BY <1>1, <1>2, OnlyTheNamed, ZenonT(40) DEF WorkNext, Works
<1>3. CASE name \notin {"agent"}
  BY <1>1, <1>3 DEF Only
<1>4. QED
  BY <1>2, <1>3

LEMMA OlSteps == WorkNext => OlNext \/ UNCHANGED olVars
<1> SUFFICES ASSUME WorkNext PROVE OlNext \/ UNCHANGED olVars
  OBVIOUS
<1>1. PICK name \in Works : Only(name)
  BY OnlyTheNamed
<1>2. CASE name \in {"learner", "window", "tester", "ensemble", "retrain"}
  <2>1. CASE name = "learner"
    <3>1. LearnerNext
      BY <1>1, <2>1, OnlyTheNamed, ZenonT(40) DEF WorkNext, Works
    <3>2. UNCHANGED <<windowVars, testerVars, ensembleVars, retrainVars>>
      BY <1>1, <2>1 DEF Only
    <3>3. QED
      BY <3>1, <3>2 DEF OlNext
  <2>2. CASE name = "window"
    <3>1. WindowNext
      BY <1>1, <2>2, OnlyTheNamed, ZenonT(40) DEF WorkNext, Works
    <3>2. UNCHANGED <<learnerVars, testerVars, ensembleVars, retrainVars>>
      BY <1>1, <2>2 DEF Only
    <3>3. QED
      BY <3>1, <3>2 DEF OlNext
  <2>3. CASE name = "tester"
    <3>1. TesterNext
      BY <1>1, <2>3, OnlyTheNamed, ZenonT(40) DEF WorkNext, Works
    <3>2. UNCHANGED <<learnerVars, windowVars, ensembleVars, retrainVars>>
      BY <1>1, <2>3 DEF Only
    <3>3. QED
      BY <3>1, <3>2 DEF OlNext
  <2>4. CASE name = "ensemble"
    <3>1. EnsembleNext
      BY <1>1, <2>4, OnlyTheNamed, ZenonT(40) DEF WorkNext, Works
    <3>2. UNCHANGED <<learnerVars, windowVars, testerVars, retrainVars>>
      BY <1>1, <2>4 DEF Only
    <3>3. QED
      BY <3>1, <3>2 DEF OlNext
  <2>5. CASE name = "retrain"
    <3>1. RetrainNext
      BY <1>1, <2>5, OnlyTheNamed, ZenonT(40) DEF WorkNext, Works
    <3>2. UNCHANGED <<learnerVars, windowVars, testerVars, ensembleVars>>
      BY <1>1, <2>5 DEF Only
    <3>3. QED
      BY <3>1, <3>2 DEF OlNext
  <2>6. QED
    BY <1>2, <2>1, <2>2, <2>3, <2>4, <2>5
<1>3. CASE name \notin {"learner", "window", "tester", "ensemble", "retrain"}
  BY <1>1, <1>3 DEF Only, olVars
<1>4. QED
  BY <1>2, <1>3

LEMMA SgSteps == WorkNext => SgNext \/ UNCHANGED sgVars
<1> SUFFICES ASSUME WorkNext PROVE SgNext \/ UNCHANGED sgVars
  OBVIOUS
<1>1. PICK name \in Works : Only(name)
  BY OnlyTheNamed
<1>2. CASE name \in {"signals", "regime"}
  BY <1>1, <1>2, OnlyTheNamed, ZenonT(40) DEF WorkNext, Works, SgNext
<1>3. CASE name \notin {"signals", "regime"}
  BY <1>1, <1>3 DEF Only, sgVars
<1>4. QED
  BY <1>2, <1>3

LEMMA PcSteps == WorkNext => PcNext \/ UNCHANGED pcVars
<1> SUFFICES ASSUME WorkNext PROVE PcNext \/ UNCHANGED pcVars
  OBVIOUS
<1>1. PICK name \in Works : Only(name)
  BY OnlyTheNamed
<1>2. CASE name \in {"cache", "view"}
  BY <1>1, <1>2, OnlyTheNamed, ZenonT(40) DEF WorkNext, Works
<1>3. CASE name \notin {"cache", "view"}
  BY <1>1, <1>3 DEF Only
<1>4. QED
  BY <1>2, <1>3

LEMMA GeSteps == WorkNext => GeNext \/ UNCHANGED geVars
<1> SUFFICES ASSUME WorkNext PROVE GeNext \/ UNCHANGED geVars
  OBVIOUS
<1>1. PICK name \in Works : Only(name)
  BY OnlyTheNamed
<1>2. CASE name \in {"genes"}
  BY <1>1, <1>2, OnlyTheNamed, ZenonT(40) DEF WorkNext, Works
<1>3. CASE name \notin {"genes"}
  BY <1>1, <1>3 DEF Only
<1>4. QED
  BY <1>2, <1>3

LEMMA AcSteps == WorkNext => AcNext \/ UNCHANGED acVars
<1> SUFFICES ASSUME WorkNext PROVE AcNext \/ UNCHANGED acVars
  OBVIOUS
<1>1. PICK name \in Works : Only(name)
  BY OnlyTheNamed
<1>2. CASE name \in {"users", "scaling"}
  BY <1>1, <1>2, OnlyTheNamed, ZenonT(40) DEF WorkNext, Works, AcNext
<1>3. CASE name \notin {"users", "scaling"}
  BY <1>1, <1>3 DEF Only, acVars
<1>4. QED
  BY <1>2, <1>3

LEMMA GuardSteps == WorkNext => GateNext \/ TrustNext \/ UNCHANGED guardVars
<1> SUFFICES ASSUME WorkNext PROVE GateNext \/ TrustNext \/ UNCHANGED guardVars
  OBVIOUS
<1>1. PICK name \in Works : Only(name)
  BY OnlyTheNamed
<1>2. CASE name \in {"gate", "trust"}
  BY <1>1, <1>2, OnlyTheNamed, ZenonT(40) DEF WorkNext, Works
<1>3. CASE name \notin {"gate", "trust"}
  BY <1>1, <1>3 DEF Only
<1>4. QED
  BY <1>2, <1>3

LEMMA MonitorSteps == WorkNext => RequestsNext \/ LoginsNext \/ TradesNext \/ SiemNext \/ RaspNext \/ UNCHANGED monitorVars
<1> SUFFICES ASSUME WorkNext PROVE RequestsNext \/ LoginsNext \/ TradesNext \/ SiemNext \/ RaspNext \/ UNCHANGED monitorVars
  OBVIOUS
<1>1. PICK name \in Works : Only(name)
  BY OnlyTheNamed
<1>2. CASE name \in {"requests", "logins", "trades", "events", "integrity"}
  BY <1>1, <1>2, OnlyTheNamed, ZenonT(40) DEF WorkNext, Works
<1>3. CASE name \notin {"requests", "logins", "trades", "events", "integrity"}
  BY <1>1, <1>3 DEF Only
<1>4. QED
  BY <1>2, <1>3

LEMMA RiskSteps == WorkNext => RiskNext \/ SettingsNext \/ UNCHANGED rrVars
<1> SUFFICES ASSUME WorkNext PROVE RiskNext \/ SettingsNext \/ UNCHANGED rrVars
  OBVIOUS
<1>1. PICK name \in Works : Only(name)
  BY OnlyTheNamed
<1>2. CASE name \in {"risk", "settings"}
  BY <1>1, <1>2, OnlyTheNamed, ZenonT(40) DEF WorkNext, Works
<1>3. CASE name \notin {"risk", "settings"}
  BY <1>1, <1>3 DEF Only, rrVars
<1>4. QED
  BY <1>2, <1>3

LEMMA BackupSteps == WorkNext => BackupNext \/ UNCHANGED backupVars
<1> SUFFICES ASSUME WorkNext PROVE BackupNext \/ UNCHANGED backupVars
  OBVIOUS
<1>1. PICK name \in Works : Only(name)
  BY OnlyTheNamed
<1>2. CASE name \in {"backup"}
  BY <1>1, <1>2, OnlyTheNamed, ZenonT(40) DEF WorkNext, Works
<1>3. CASE name \notin {"backup"}
  BY <1>1, <1>3 DEF Only
<1>4. QED
  BY <1>2, <1>3

LEMMA V6Steps == WorkNext => V6Next \/ UNCHANGED v6Vars
<1> SUFFICES ASSUME WorkNext PROVE V6Next \/ UNCHANGED v6Vars
  OBVIOUS
<1>1. PICK name \in Works : Only(name)
  BY OnlyTheNamed
<1>2. CASE name \in {"v6"}
  BY <1>1, <1>2, OnlyTheNamed, ZenonT(40) DEF WorkNext, Works
<1>3. CASE name \notin {"v6"}
  BY <1>1, <1>3 DEF Only
<1>4. QED
  BY <1>2, <1>3

LEMMA MessagesSteps == WorkNext => MessagesNext \/ UNCHANGED messageVars
<1> SUFFICES ASSUME WorkNext PROVE MessagesNext \/ UNCHANGED messageVars
  OBVIOUS
<1>1. PICK name \in Works : Only(name)
  BY OnlyTheNamed
<1>2. CASE name \in {"alerts", "notes"}
  <2>1. CASE name = "alerts"
    <3>1. AlertsNext
      BY <1>1, <2>1, OnlyTheNamed, ZenonT(40) DEF WorkNext, Works
    <3>2. UNCHANGED <<noteVars>>
      BY <1>1, <2>1 DEF Only
    <3>3. QED
      BY <3>1, <3>2 DEF MessagesNext
  <2>2. CASE name = "notes"
    <3>1. NotesNext
      BY <1>1, <2>2, OnlyTheNamed, ZenonT(40) DEF WorkNext, Works
    <3>2. UNCHANGED <<alertVars>>
      BY <1>1, <2>2 DEF Only
    <3>3. QED
      BY <3>1, <3>2 DEF MessagesNext
  <2>3. QED
    BY <1>2, <2>1, <2>2
<1>3. CASE name \notin {"alerts", "notes"}
  BY <1>1, <1>3 DEF Only, messageVars
<1>4. QED
  BY <1>2, <1>3

LEMMA SyncRecordsSteps == WorkNext => RecordsNext \/ LocksNext \/ UNCHANGED syncRecordVars
<1> SUFFICES ASSUME WorkNext PROVE RecordsNext \/ LocksNext \/ UNCHANGED syncRecordVars
  OBVIOUS
<1>1. PICK name \in Works : Only(name)
  BY OnlyTheNamed
<1>2. CASE name \in {"records", "locks"}
  BY <1>1, <1>2, OnlyTheNamed, ZenonT(40) DEF WorkNext, Works
<1>3. CASE name \notin {"records", "locks"}
  BY <1>1, <1>3 DEF Only
<1>4. QED
  BY <1>2, <1>3

LEMMA NewsSteps == WorkNext => NewsNext \/ UNCHANGED newsVars
<1> SUFFICES ASSUME WorkNext PROVE NewsNext \/ UNCHANGED newsVars
  OBVIOUS
<1>1. PICK name \in Works : Only(name)
  BY OnlyTheNamed
<1>2. CASE name \in {"news"}
  BY <1>1, <1>2, OnlyTheNamed, ZenonT(40) DEF WorkNext, Works
<1>3. CASE name \notin {"news"}
  BY <1>1, <1>3 DEF Only
<1>4. QED
  BY <1>2, <1>3

LEMMA StreamSteps == WorkNext => StreamNext \/ UNCHANGED streamVars
<1> SUFFICES ASSUME WorkNext PROVE StreamNext \/ UNCHANGED streamVars
  OBVIOUS
<1>1. PICK name \in Works : Only(name)
  BY OnlyTheNamed
<1>2. CASE name \in {"sockets", "prices", "candles"}
  BY <1>1, <1>2, OnlyTheNamed, ZenonT(40) DEF WorkNext, Works, StreamNext
<1>3. CASE name \notin {"sockets", "prices", "candles"}
  BY <1>1, <1>3 DEF Only
<1>4. QED
  BY <1>2, <1>3

LEMMA BridgeSteps == WorkNext => BridgeNext \/ UNCHANGED bridgeVars
<1> SUFFICES ASSUME WorkNext PROVE BridgeNext \/ UNCHANGED bridgeVars
  OBVIOUS
<1>1. PICK name \in Works : Only(name)
  BY OnlyTheNamed
<1>2. CASE name \in {"bridge"}
  BY <1>1, <1>2, OnlyTheNamed, ZenonT(40) DEF WorkNext, Works
<1>3. CASE name \notin {"bridge"}
  BY <1>1, <1>3 DEF Only
<1>4. QED
  BY <1>2, <1>3

LEMMA SupervisorSteps == WorkNext => SupervisorNext \/ UNCHANGED supervisorVars
<1> SUFFICES ASSUME WorkNext PROVE SupervisorNext \/ UNCHANGED supervisorVars
  OBVIOUS
<1>1. PICK name \in Works : Only(name)
  BY OnlyTheNamed
<1>2. CASE name \in {"supervisor"}
  BY <1>1, <1>2, OnlyTheNamed, ZenonT(40) DEF WorkNext, Works
<1>3. CASE name \notin {"supervisor"}
  BY <1>1, <1>3 DEF Only
<1>4. QED
  BY <1>2, <1>3

LEMMA FeatureSteps == WorkNext => FeatureNext \/ UNCHANGED featureVars
<1> SUFFICES ASSUME WorkNext PROVE FeatureNext \/ UNCHANGED featureVars
  OBVIOUS
<1>1. PICK name \in Works : Only(name)
  BY OnlyTheNamed
<1>2. CASE name \in {"features"}
  BY <1>1, <1>2, OnlyTheNamed, ZenonT(40) DEF WorkNext, Works
<1>3. CASE name \notin {"features"}
  BY <1>1, <1>3 DEF Only
<1>4. QED
  BY <1>2, <1>3

\* Each part goes its own way: the types of all of them hold because each one's do.
THEOREM WorkTypes == WorkSpec => []WorkTypeOK
<1>1. WorkSpec => [](work \in Works)
  <2>1. WorkInit => work \in Works
    BY DEF WorkInit
  <2>2. work \in Works /\ [WorkNext]_workVars => (work \in Works)'
    BY OnlyTheNamed DEF workVars
  <2>3. QED
    BY <2>1, <2>2, PTL DEF WorkSpec
<1>2. WorkSpec => []GoldTypeOK
  <2>1. WorkInit => GoldInit
    BY DEF WorkInit
  <2>2. [WorkNext]_workVars => [GoldNext]_goldVars
    BY GoldSteps DEF workVars
  <2>3. QED
    BY <2>1, <2>2, GoldTypes, PTL DEF WorkSpec, GoldSpec
<1>3. WorkSpec => []BtTypeOK
  <2>1. WorkInit => BtInit
    BY DEF WorkInit
  <2>2. [WorkNext]_workVars => [BtNext]_btVars
    BY BtSteps DEF workVars
  <2>3. QED
    BY <2>1, <2>2, ReplayTypes, PTL DEF WorkSpec, BtSpec
<1>4. WorkSpec => []TcTypeOK
  <2>1. WorkInit => TcInit
    BY DEF WorkInit
  <2>2. [WorkNext]_workVars => [TcNext]_tcVars
    BY TcSteps DEF workVars
  <2>3. QED
    BY <2>1, <2>2, CycleTypes, PTL DEF WorkSpec, TcSpec
<1>5. WorkSpec => []SearchTypeOK
  <2>1. WorkInit => SearchInit
    BY DEF WorkInit
  <2>2. [WorkNext]_workVars => [SearchNext]_searchVars
    BY SearchSteps DEF workVars
  <2>3. QED
    BY <2>1, <2>2, SearchTypes, PTL DEF WorkSpec, SearchSpec
<1>6. WorkSpec => []RlTypeOK
  <2>1. WorkInit => RlInit
    BY DEF WorkInit
  <2>2. [WorkNext]_workVars => [RlNext]_rlVars
    BY RlSteps DEF workVars
  <2>3. QED
    BY <2>1, <2>2, TrainingTypes, PTL DEF WorkSpec, RlSpec
<1>7. WorkSpec => []OlTypeOK
  <2>1. WorkInit => OlInit
    BY DEF WorkInit
  <2>2. [WorkNext]_workVars => [OlNext]_olVars
    BY OlSteps DEF workVars
  <2>3. QED
    BY <2>1, <2>2, LearningTypes, PTL DEF WorkSpec, OlSpec
<1>8. WorkSpec => []SgTypeOK
  <2>1. WorkInit => SgInit
    BY DEF WorkInit
  <2>2. [WorkNext]_workVars => [SgNext]_sgVars
    BY SgSteps DEF workVars
  <2>3. QED
    BY <2>1, <2>2, SignalTypes, PTL DEF WorkSpec, SgSpec
<1>9. WorkSpec => []PcTypeOK
  <2>1. WorkInit => PcInit
    BY DEF WorkInit
  <2>2. [WorkNext]_workVars => [PcNext]_pcVars
    BY PcSteps DEF workVars
  <2>3. QED
    BY <2>1, <2>2, CacheTypes, PTL DEF WorkSpec, PcSpec
<1>10. WorkSpec => []GeTypeOK
  <2>1. WorkInit => GeInit
    BY DEF WorkInit
  <2>2. [WorkNext]_workVars => [GeNext]_geVars
    BY GeSteps DEF workVars
  <2>3. QED
    BY <2>1, <2>2, GeneTypes, PTL DEF WorkSpec, GeSpec
<1>11. WorkSpec => []AcTypeOK
  <2>1. WorkInit => AcInit
    BY DEF WorkInit
  <2>2. [WorkNext]_workVars => [AcNext]_acVars
    BY AcSteps DEF workVars
  <2>3. QED
    BY <2>1, <2>2, AccountTypes, PTL DEF WorkSpec, AcSpec
<1>12. WorkSpec => []GuardTypeOK
  <2>1. WorkInit => GuardInit
    BY DEF WorkInit
  <2>2. [WorkNext]_workVars => [GateNext \/ TrustNext]_guardVars
    BY GuardSteps DEF workVars
  <2>3. QED
    BY <2>1, <2>2, GuardTypes, PTL DEF WorkSpec, GuardSpec
<1>13. WorkSpec => []MonitorTypeOK
  <2>1. WorkInit => MonitorInit
    BY DEF WorkInit
  <2>2. [WorkNext]_workVars => [RequestsNext \/ LoginsNext \/ TradesNext \/ SiemNext \/ RaspNext]_monitorVars
    BY MonitorSteps DEF workVars
  <2>3. QED
    BY <2>1, <2>2, MonitorTypes, PTL DEF WorkSpec, MonitorSpec
<1>14. WorkSpec => []RiskTypeOK
  <2>1. WorkInit => RiskInit
    BY DEF WorkInit
  <2>2. [WorkNext]_workVars => [RiskNext \/ SettingsNext]_rrVars
    BY RiskSteps DEF workVars
  <2>3. QED
    BY <2>1, <2>2, RiskTypes, PTL DEF WorkSpec, RiskSpec
<1>15. WorkSpec => []BackupTypeOK
  <2>1. WorkInit => BackupInit
    BY DEF WorkInit
  <2>2. [WorkNext]_workVars => [BackupNext]_backupVars
    BY BackupSteps DEF workVars
  <2>3. QED
    BY <2>1, <2>2, BackupTypes, PTL DEF WorkSpec, BackupSpec
<1>16. WorkSpec => []V6TypeOK
  <2>1. WorkInit => V6Init
    BY DEF WorkInit
  <2>2. [WorkNext]_workVars => [V6Next]_v6Vars
    BY V6Steps DEF workVars
  <2>3. QED
    BY <2>1, <2>2, V6Types, PTL DEF WorkSpec, V6Spec
<1>17. WorkSpec => []MessagesTypeOK
  <2>1. WorkInit => MessagesInit
    BY DEF WorkInit
  <2>2. [WorkNext]_workVars => [MessagesNext]_messageVars
    BY MessagesSteps DEF workVars
  <2>3. QED
    BY <2>1, <2>2, MessagesTypes, PTL DEF WorkSpec, MessagesSpec
<1>18. WorkSpec => []SyncRecordsTypeOK
  <2>1. WorkInit => SyncRecordsInit
    BY DEF WorkInit
  <2>2. [WorkNext]_workVars => [RecordsNext \/ LocksNext]_syncRecordVars
    BY SyncRecordsSteps DEF workVars
  <2>3. QED
    BY <2>1, <2>2, RecordTypes, PTL DEF WorkSpec, SyncRecordsSpec
<1>19. WorkSpec => []NewsTypeOK
  <2>1. WorkInit => NewsInit
    BY DEF WorkInit
  <2>2. [WorkNext]_workVars => [NewsNext]_newsVars
    BY NewsSteps DEF workVars
  <2>3. QED
    BY <2>1, <2>2, NewsTypes, PTL DEF WorkSpec, NewsSpec
<1>20. WorkSpec => []StreamTypeOK
  <2>1. WorkInit => StreamInit
    BY DEF WorkInit
  <2>2. [WorkNext]_workVars => [StreamNext]_streamVars
    BY StreamSteps DEF workVars
  <2>3. QED
    BY <2>1, <2>2, StreamTypes, PTL DEF WorkSpec, StreamSpec
<1>21. WorkSpec => []BridgeTypeOK
  <2>1. WorkInit => BridgeInit
    BY DEF WorkInit
  <2>2. [WorkNext]_workVars => [BridgeNext]_bridgeVars
    BY BridgeSteps DEF workVars
  <2>3. QED
    BY <2>1, <2>2, BridgeTypes, PTL DEF WorkSpec, BridgeSpec
<1>22. WorkSpec => []SupervisorTypeOK
  <2>1. WorkInit => SupervisorInit
    BY DEF WorkInit
  <2>2. [WorkNext]_workVars => [SupervisorNext]_supervisorVars
    BY SupervisorSteps DEF workVars
  <2>3. QED
    BY <2>1, <2>2, LoopsAndEvents, PTL DEF WorkSpec, SupervisorSpec
<1>23. WorkSpec => []FeatureTypeOK
  <2>1. WorkInit => FeatureInit
    BY DEF WorkInit
  <2>2. [WorkNext]_workVars => [FeatureNext]_featureVars
    BY FeatureSteps DEF workVars
  <2>3. QED
    BY <2>1, <2>2, FeaturesAreKept, PTL DEF WorkSpec, FeatureSpec
<1>24. work \in Works
         /\ GoldTypeOK
         /\ BtTypeOK
         /\ TcTypeOK
         /\ SearchTypeOK
         /\ RlTypeOK
         /\ OlTypeOK
         /\ SgTypeOK
         /\ PcTypeOK
         /\ GeTypeOK
         /\ AcTypeOK
         /\ GuardTypeOK
         /\ MonitorTypeOK
         /\ RiskTypeOK
         /\ BackupTypeOK
         /\ V6TypeOK
         /\ MessagesTypeOK
         /\ SyncRecordsTypeOK
         /\ NewsTypeOK
         /\ StreamTypeOK
         /\ BridgeTypeOK
         /\ SupervisorTypeOK
         /\ FeatureTypeOK
         => WorkTypeOK
  BY DEF WorkTypeOK
<1>25. QED
  BY <1>1, <1>2, <1>3, <1>4, <1>5, <1>6, <1>7, <1>8, <1>9, <1>10, <1>11, <1>12, <1>13, <1>14, <1>15, <1>16, <1>17, <1>18, <1>19, <1>20, <1>21, <1>22, <1>23, <1>24, PTL

=============================================================================
