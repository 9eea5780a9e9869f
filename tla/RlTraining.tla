----------------------------- MODULE RlTraining -----------------------------
(***************************************************************************)
(* ml/models/rl_agent.py: the trading environment an agent learns in, the  *)
(* experience replay of the DQN agent, the rollouts of the PPO agent, and  *)
(* the trainer that trains on the first rows, evaluates on the rest and    *)
(* then saves.  A network is the number of updates it has had.  What a     *)
(* network answers is any action; the reward's shape is left out.          *)
(***************************************************************************)
EXTENDS Integers, Sequences, FiniteSets, FiniteSetsExt

CONSTANTS
    RlPrices,            \* the closes a row may hold
    Rows, TrainRows,     \* BOUND: the rows of the data, and how many of them train
    EpisodeLength, StartMargin,
    RlBalance0, SizePercent, MaxUnits,
    Episodes, EvalEpisodes,
    ReplayCapacity, BatchSize, TargetFreq,
    RolloutLength

\* An environment needs two rows, and an episode leaves room behind its start.
ASSUME RlAssumption ==
    /\ RolloutLength \in Nat \ {0}
    /\ RlPrices \subseteq Nat \ {0} /\ Rows \in Nat \ {0} /\ TrainRows \in 0 .. Rows
    /\ EpisodeLength \in Nat \ {0} /\ StartMargin \in Nat \ {0}
    /\ RlBalance0 \in Int /\ SizePercent \in Nat /\ MaxUnits \in Nat
    /\ Episodes \in Nat \ {0} /\ EvalEpisodes \in Nat \ {0}
    /\ ReplayCapacity \in Nat /\ TargetFreq \in Nat \ {0}

VARIABLES
    rlData,              \* the closes
    rlPhase,             \* "idle", "reset", "step", "update", "scored", "saved" or "raised"
    rlAgent,             \* the agent in training
    rlTest,              \* it is being evaluated
    rlEpisode,           \* episodes finished in this phase
    rlStep, rlBalance, rlPosition, rlEntry, rlPnl,   \* the environment
    rlPeak, rlHolding,   \* the reward calculator
    rlMemory,            \* experiences in the replay memory
    rlNet, rlTarget,     \* updates of the network, and of its target copy
    rlRollout,           \* the steps collected since the last update, <<episode, row>>
    rlTaken, rlLearned,  \* steps taken in training, and steps PPO has learned from
    rlSaved              \* the agents saved

envVars == <<rlStep, rlBalance, rlPosition, rlEntry, rlPnl, rlPeak, rlHolding>>
dqnVars == <<rlMemory, rlTarget>>
ppoVars == <<rlRollout, rlLearned>>
rlVars == <<rlData, rlPhase, rlAgent, rlTest, rlEpisode, envVars, dqnVars, ppoVars,
            rlNet, rlTaken, rlSaved>>

Agents == {"dqn", "ppo"}
Actions == {"HOLD", "BUY", "SELL"}

RlInit ==
    /\ rlData \in [0 .. Rows - 1 -> RlPrices]
    /\ rlPhase = "idle" /\ rlAgent = "dqn" /\ rlTest = FALSE /\ rlEpisode = 0
    /\ rlStep = 0 /\ rlBalance = RlBalance0 /\ rlPosition = 0 /\ rlEntry = 0 /\ rlPnl = 0
    /\ rlPeak = 0 /\ rlHolding = 0
    /\ rlMemory = 0 /\ rlNet = 0 /\ rlTarget = 0 /\ rlRollout = <<>>
    /\ rlTaken = 0 /\ rlLearned = 0 /\ rlSaved = {}

-----------------------------------------------------------------------------

\* The rows of the environment: the split of the data.
FirstRow == IF rlTest THEN TrainRows ELSE 0
RowsOf(test) == IF test THEN Rows - TrainRows ELSE TrainRows
Close == rlData[FirstRow + rlStep]

\* train_and_evaluate: DQN first, PPO after it.  Fewer than two rows are refused.
TrainAgent(agent) ==
    /\ rlPhase \in {"idle", "saved"}
    /\ agent \notin rlSaved /\ (agent = "dqn" => rlSaved = {})
    /\ rlAgent' = agent /\ rlTest' = FALSE /\ rlEpisode' = 0
    /\ rlMemory' = 0 /\ rlNet' = 0 /\ rlTarget' = 0
    /\ rlRollout' = <<>> /\ rlTaken' = 0 /\ rlLearned' = 0
    /\ rlPhase' = IF RowsOf(FALSE) < 2 THEN "raised" ELSE "reset"
    /\ UNCHANGED <<rlData, envVars, rlSaved>>

\* An episode starts at any row that leaves room, or at the first.
ResetEnv ==
    /\ rlPhase = "reset"
    /\ rlStep' \in 0 .. Max({0, RowsOf(rlTest) - EpisodeLength - StartMargin})
    /\ rlBalance' = RlBalance0 /\ rlPosition' = 0 /\ rlEntry' = 0 /\ rlPnl' = 0
    /\ rlPeak' = 0 /\ rlHolding' = 0
    /\ rlPhase' = "step"
    /\ UNCHANGED <<rlData, rlAgent, rlTest, rlEpisode, dqnVars, ppoVars, rlNet, rlTaken, rlSaved>>

Trades(action) == \/ action = "BUY" /\ rlPosition <= 0
                  \/ action = "SELL" /\ rlPosition >= 0

\* A trade first closes what is held the other way, then invests a part of the balance.
Units(balance, price) == Min({MaxUnits, (balance * SizePercent) \div (100 * price)})

Account(action) ==
    IF ~Trades(action) THEN [balance |-> rlBalance, position |-> rlPosition, entry |-> rlEntry]
    ELSE LET closed == rlBalance + rlPosition * Close
             units == Max({0, Units(closed, Close)})
             side == IF action = "BUY" THEN units ELSE -units IN
         [balance |-> closed - side * Close, position |-> side,
          entry |-> IF units > 0 THEN Close ELSE rlEntry]

\* The episode length does not end an episode: the bound moves with the step.
Done(step) == step >= Min({RowsOf(rlTest) - 1, step + EpisodeLength})

StepEnv(action) ==
    LET account == Account(action)
        value == account.balance + account.position * Close IN
    /\ rlStep' = rlStep + 1
    /\ rlBalance' = account.balance /\ rlPosition' = account.position /\ rlEntry' = account.entry
    /\ rlPnl' = value - RlBalance0
    /\ rlPeak' = Max({rlPeak, value})
    /\ rlHolding' = IF action = "HOLD" THEN rlHolding + 1 ELSE 0

SyncTarget(net) == IF net % TargetFreq = 0 THEN net ELSE rlTarget

\* The experience is stored, and one gradient step made once the memory holds a batch.
Replay ==
    LET memory == Min({ReplayCapacity, rlMemory + 1})
        net == IF memory >= BatchSize THEN rlNet + 1 ELSE rlNet IN
    /\ rlMemory' = memory
    /\ rlNet' = net
    /\ rlTarget' = IF net > rlNet THEN SyncTarget(net) ELSE rlTarget

DqnStep(action) ==
    /\ rlPhase = "step" /\ ~rlTest /\ rlAgent = "dqn"
    /\ StepEnv(action)
    /\ Replay
    /\ rlTaken' = rlTaken + 1
    /\ rlPhase' = IF Done(rlStep') THEN "update" ELSE "step"
    /\ UNCHANGED <<rlData, rlAgent, rlTest, rlEpisode, ppoVars, rlSaved>>

\* Variant: a full rollout is learned from and kept.
LearnKept(rollout) ==
    /\ rlLearned' = rlLearned + Len(rollout) /\ rlNet' = rlNet + 1
    /\ rlRollout' = rollout

\* One update of the policy, from all that was collected.
Learn(rollout) ==
    /\ rlLearned' = rlLearned + Len(rollout) /\ rlNet' = rlNet + 1
    /\ rlRollout' = <<>>

\* A full rollout is learned from at once, unless the episode has just ended.
PpoStep(action) ==
    LET rollout == Append(rlRollout, <<rlEpisode, rlStep>>) IN
    /\ rlPhase = "step" /\ ~rlTest /\ rlAgent = "ppo"
    /\ StepEnv(action)
    /\ rlTaken' = rlTaken + 1
    /\ IF Len(rollout) >= RolloutLength /\ ~Done(rlStep') THEN Learn(rollout)
       ELSE rlRollout' = rollout /\ UNCHANGED <<rlNet, rlLearned>>
    /\ rlPhase' = IF Done(rlStep') THEN "update" ELSE "step"
    /\ UNCHANGED <<rlData, rlAgent, rlTest, rlEpisode, dqnVars, rlSaved>>

\* The end of a training episode: PPO learns from the rest.  After the last one the
\* evaluation's environment is made, which refuses fewer than two rows: nothing is saved.
EndEpisode ==
    LET last == rlEpisode + 1 = Episodes IN
    /\ rlPhase = "update"
    /\ IF rlRollout # <<>> THEN Learn(rlRollout) ELSE UNCHANGED <<rlRollout, rlLearned, rlNet>>
    /\ rlEpisode' = IF last THEN 0 ELSE rlEpisode + 1
    /\ rlTest' = last
    /\ rlPhase' = IF last /\ RowsOf(TRUE) < 2 THEN "raised" ELSE "reset"
    /\ UNCHANGED <<rlData, rlAgent, envVars, dqnVars, rlTaken, rlSaved>>

\* An evaluation step: the greedy action, nothing learned.
Evaluated(action) ==
    /\ rlPhase = "step" /\ rlTest
    /\ StepEnv(action)
    /\ rlEpisode' = IF Done(rlStep') THEN rlEpisode + 1 ELSE rlEpisode
    /\ rlPhase' = IF ~Done(rlStep') THEN "step"
                  ELSE IF rlEpisode + 1 = EvalEpisodes THEN "scored" ELSE "reset"
    /\ UNCHANGED <<rlData, rlAgent, rlTest, dqnVars, ppoVars, rlNet, rlTaken, rlSaved>>

SaveAgent ==
    /\ rlPhase = "scored"
    /\ rlSaved' = rlSaved \union {rlAgent}
    /\ rlPhase' = "saved"
    /\ UNCHANGED <<rlData, rlAgent, rlTest, rlEpisode, envVars, dqnVars, ppoVars, rlNet, rlTaken>>

RlNext ==
    \/ \E a \in Agents : TrainAgent(a)
    \/ ResetEnv
    \/ \E a \in Actions : DqnStep(a) \/ PpoStep(a) \/ Evaluated(a)
    \/ EndEpisode
    \/ SaveAgent

RlSpec == RlInit /\ [][RlNext]_rlVars

-----------------------------------------------------------------------------

\* PPO learns from every step exactly once, never from two episodes in one update, and
\* never from more than a rollout (rl_agent.py:783-818).
LearnedOnce ==
    /\ rlTaken = rlLearned + Len(rlRollout) \/ rlAgent = "dqn"
    /\ Len(rlRollout) <= RolloutLength
    /\ \A i \in DOMAIN rlRollout : rlRollout[i][1] = rlEpisode

\* The target network is never further behind than its update frequency (rl_agent.py:478-480).
TargetFollows == rlAgent = "dqn" => rlNet - rlTarget < TargetFreq

RlTypeOK ==
    /\ rlPhase \in {"idle", "reset", "step", "update", "scored", "saved", "raised"}
    /\ rlAgent \in Agents /\ rlTest \in BOOLEAN
    /\ rlEpisode \in 0 .. Max({Episodes, EvalEpisodes})
    /\ rlStep \in 0 .. Rows - 1
    /\ rlPosition \in -MaxUnits .. MaxUnits
    /\ rlMemory \in 0 .. ReplayCapacity
    /\ rlTarget <= rlNet
    /\ rlSaved \subseteq Agents
    /\ TargetFollows
=============================================================================
