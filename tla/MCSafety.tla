------------------------------ MODULE MCSafety ------------------------------
(* Small instances for TLC of two parts that share no state and of which   *)
(* only safety is asked here: the hub with its pollers and the engine's     *)
(* voice.  In a behavior one of them moves, so the state spaces add up.     *)
EXTENDS EventHub, SpeechGate, TLC

CONSTANTS c1, c2, t1, t2, r1, r2
VARIABLE part

safetyVars == <<vars, gateVars, part>>

\* Two requests beside one turn, or two turns beside one request.
GateMoves ==
  /\ GateNext
  /\ part = "streams" => tpc'[t2] = "new"
  /\ part = "turns" => rpc'[r2] = "idle" /\ served'

SafetyInit == part \in {"events", "streams", "turns"} /\ Init /\ GateInit
SafetyNext ==
  /\ UNCHANGED part
  /\ \/ part = "events" /\ Next /\ UNCHANGED gateVars
     \/ part # "events" /\ GateMoves /\ UNCHANGED vars
SafetySpec == SafetyInit /\ [][SafetyNext]_safetyVars

Interchangeable == Permutations(Clients)
=============================================================================
