-------------------------- MODULE KubeconfigProofs --------------------------
(***************************************************************************)
(* Kubeconfig: for any number of callers, whoever is told that the set-up  *)
(* succeeded finds it done, and no two callers of a process get different  *)
(* answers.                                                                *)
(*                                                                         *)
(* The inductive invariant says who is inside the Once, that all answers   *)
(* come after it, and how far the caller inside has come.                  *)
(***************************************************************************)
EXTENDS Kubeconfig, TLAPS

SetupStates == {"config", "token", "ca", "write", "setenv", "finish"}

(* One caller at a time is inside, and answers are given after the Once. *)
OneInside ==
    \A c \in Callers :
        /\ pc[c] \in SetupStates => once = c
        /\ pc[c] \in {"check", "ready", "error"} => once = "done"

(* What the caller inside has done, and what the end of the Once promises. *)
Configured == inCluster /\ ~setupErr => file # None /\ kubeconfig

Progress ==
    /\ \A c \in Callers :
        /\ pc[c] = "write" => read # None
        /\ pc[c] = "ca" => read # None
        /\ pc[c] = "setenv" => file # None
        /\ pc[c] = "finish" => Configured
        /\ pc[c] = "finish" /\ localErr[c] => setupErr
        /\ pc[c] \in {"do", "config", "token", "ca", "write", "setenv"} => ~localErr[c]
    /\ once = "done" => Configured

(* The answers are the shared error's. *)
Answers ==
    \A c \in Callers :
        /\ pc[c] = "ready" => ~setupErr
        /\ pc[c] = "error" => setupErr

IInv == TypeOK /\ OneInside /\ Progress /\ Answers

----------------------------------------------------------------------------
LEMMA InitInv == Init => IInv
<1> SUFFICES ASSUME Init PROVE IInv
  OBVIOUS
<1>1. TypeOK
  <2>1. 0 \in 0..MaxToken /\ 0 \in 0..0
    BY KubeconfigAssumption
  <2>2. /\ pc \in [Callers -> CallStates]
        /\ localErr \in [Callers -> BOOLEAN]
    BY DEF Init, CallStates
  <2>3. inCluster \in BOOLEAN /\ setupErr \in BOOLEAN /\ kubeconfig \in BOOLEAN
    BY Zenon DEF Init
  <2> QED
    BY <2>1, <2>2, <2>3 DEF Init, TypeOK
<1>2. OneInside /\ Progress /\ Answers
  BY KubeconfigAssumption
     DEF Init, OneInside, SetupStates, Progress, Answers
<1> QED
  BY <1>1, <1>2 DEF IInv

LEMMA CallerStep ==
    ASSUME IInv, NEW c \in Callers,
           ensureInClusterConfig(c) \/ EnterOnce(c) \/ SkipOnce(c) \/ LeaveOnce(c)
           \/ ReturnSetupErr(c) \/ Leave(c)
    PROVE  IInv'
<1> USE KubeconfigAssumption DEF IInv, From, outsideVars, resultVars, fileVars
<1>1. CASE ensureInClusterConfig(c)
  BY <1>1 DEF ensureInClusterConfig, TypeOK, CallStates, OneInside, SetupStates,
              Progress, Configured, Answers
<1>2. CASE EnterOnce(c)
  BY <1>2 DEF EnterOnce, TypeOK, CallStates, OneInside, SetupStates,
              Progress, Configured, Answers
<1>3. CASE SkipOnce(c)
  BY <1>3 DEF SkipOnce, TypeOK, CallStates, OneInside, SetupStates,
              Progress, Configured, Answers
<1>4. CASE LeaveOnce(c)
  BY <1>4 DEF LeaveOnce, TypeOK, CallStates, OneInside, SetupStates,
              Progress, Configured, Answers
<1>5. CASE ReturnSetupErr(c)
  BY <1>5 DEF ReturnSetupErr, TypeOK, CallStates, OneInside, SetupStates,
              Progress, Configured, Answers
<1>6. CASE Leave(c)
  BY <1>6 DEF Leave, TypeOK, CallStates, OneInside, SetupStates,
              Progress, Configured, Answers
<1> QED
  BY <1>1, <1>2, <1>3, <1>4, <1>5, <1>6

LEMMA SetupStep ==
    ASSUME IInv, NEW c \in Callers,
           NotInCluster(c) \/ InClusterConfig(c) \/ ReadToken(c) \/ ReadCA(c)
           \/ WriteToFile(c) \/ Setenv(c) \/ SetupFails(c)
    PROVE  IInv'
<1> USE KubeconfigAssumption DEF IInv, From, outsideVars, resultVars, fileVars
<1>1. CASE NotInCluster(c)
  BY <1>1 DEF NotInCluster, TypeOK, CallStates, OneInside, SetupStates,
              Progress, Configured, Answers
<1>2. CASE InClusterConfig(c)
  BY <1>2 DEF InClusterConfig, TypeOK, CallStates, OneInside, SetupStates,
              Progress, Configured, Answers
<1>3. CASE ReadToken(c)
  BY <1>3 DEF ReadToken, TypeOK, CallStates, OneInside, SetupStates,
              Progress, Configured, Answers
<1>4. CASE ReadCA(c)
  BY <1>4 DEF ReadCA, TypeOK, CallStates, OneInside, SetupStates,
              Progress, Configured, Answers
<1>5. CASE WriteToFile(c)
  BY <1>5 DEF WriteToFile, TypeOK, Hosts, CallStates, OneInside, SetupStates,
              Progress, Configured, Answers
<1>6. CASE Setenv(c)
  BY <1>6 DEF Setenv, TypeOK, CallStates, OneInside, SetupStates,
              Progress, Configured, Answers
<1>7. CASE SetupFails(c)
  BY <1>7 DEF SetupFails, TypeOK, CallStates, OneInside, SetupStates,
              Progress, Configured, Answers
<1> QED
  BY <1>1, <1>2, <1>3, <1>4, <1>5, <1>6, <1>7

LEMMA OutsideStep ==
    ASSUME IInv, RotateToken \/ TokenExpires \/ Restart \/ UNCHANGED vars
    PROVE  IInv'
<1> USE KubeconfigAssumption
        DEF IInv, outsideVars, resultVars, fileVars, TypeOK, OneInside,
            SetupStates, Progress, Configured, Answers
<1>1. CASE RotateToken
  BY <1>1 DEF RotateToken
<1>2. CASE TokenExpires
  BY <1>2 DEF TokenExpires
<1>3. CASE Restart
  BY <1>3 DEF Restart, CallStates
<1>4. CASE UNCHANGED vars
  BY <1>4 DEF vars
<1> QED
  BY <1>1, <1>2, <1>3, <1>4

(* The invariant holds in every state. *)
THEOREM Invariant == Spec => []IInv
<1>1. IInv /\ [Next]_vars => IInv'
  BY CallerStep, SetupStep, OutsideStep DEF Next, Step
<1> QED
  BY InitInv, <1>1, PTL DEF Spec

(* Every variable of ensureInClusterConfig keeps its type; in particular   *)
(* the kubeconfig is never written without a token.                        *)
THEOREM TypeCorrect == Spec => []TypeOK
<1>1. IInv => TypeOK
  BY DEF IInv
<1> QED
  BY Invariant, <1>1, PTL

(* Whoever is told inside a cluster that the set-up succeeded finds the    *)
(* kubeconfig written and KUBECONFIG set, for any number of concurrent     *)
(* callers of ensureInClusterConfig and any restarts.                      *)
THEOREM ReadyIsConfigured == Spec => []ReadyMeansConfigured
<1>1. IInv => ReadyMeansConfigured
  BY DEF IInv, OneInside, Progress, Configured, Answers, ReadyMeansConfigured
<1> QED
  BY Invariant, <1>1, PTL

(* No two callers of a process get different answers: kubeconfigSetupErr   *)
(* is the answer of the first to all.                                      *)
THEOREM AnswersAlwaysAgree == Spec => []AnswersAgree
<1>1. IInv => AnswersAgree
  BY DEF IInv, Answers, AnswersAgree
<1> QED
  BY Invariant, <1>1, PTL

============================================================================
