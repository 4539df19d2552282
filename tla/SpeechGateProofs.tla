-------------------------- MODULE SpeechGateProofs --------------------------
(* What SpeechGate keeps for any number of requests and turns.              *)
EXTENDS SpeechGate, TLAPS

\* The endpoint's tables hold what the threads of the requests say.
Tables ==
  /\ opening = {r \in Requests : rpc[r] = "opening"} /\ cancelled \subseteq opening
  /\ active \subseteq {r \in Requests : rpc[r] = "streaming"}

\* A request between begin_remote and end_remote is the only one, and the gate is held for it; it is
\* the gate's stream from hold_remote on.  A gate that is held is held by somebody.
OneLiving ==
  /\ ~late => /\ \A r, q \in Living : r = q
              /\ \A r \in Living : voiceOwner = "remote" /\ (rpc[r] \in {"held", "streaming"} => remote = r)
              /\ remote # NoRequest => rpc[remote] \in {"held", "streaming", "ending"}
  /\ voiceOwner = "remote" => Living # {}

\* A request told to stop, where the endpoint or the gate knew it, cannot get to a stream that is open.
ToldEnds ==
  ~late => \A r \in toldToStop \ unheard :
    /\ rpc[r] \notin {"idle", "admitted"}
    /\ rpc[r] = "opening" => r \in cancelled \/ preempted
    /\ rpc[r] \in {"begun", "holding"} => preempted
    /\ rpc[r] \in {"held", "streaming"} => r \in cut

\* The handler's flags and the flow's voice are those of a turn that will reset them.
Between(t) == tpc[t] \in {"asking", "speaking", "waiting", "voiced", "answered", "draining", "leaving"}
Flags ==
  /\ busy \/ discard => \E t \in Turns : Between(t)
  /\ voiceOwner = "local" => \E t \in Turns : tpc[t] \notin {"new", "done"}

GateInv == GateTypeOK /\ Tables /\ OneLiving /\ ToldEnds /\ Flags

\* The threads of the requests, and a cancel, keep it.
LEMMA RequestsKeep ==
  ASSUME GateInv, NEW r \in Requests,
         Admit(r) \/ RequestStep(r) \/ CancelRequest(r)
  PROVE  GateInv'
<1> USE GateAssumption DEF GateInv, GateTypeOK, Tables, OneLiving, ToldEnds, Flags, Between, Living
<1>1. CASE Admit(r)
  <2>1. GateTypeOK'
    BY <1>1 DEF Admit, RequestAt, gate, gateHistory, endpoint, handler, flow
  <2>2. Tables'
    BY <1>1 DEF Admit, RequestAt, gate, gateHistory, endpoint, handler, flow
  <2>3. OneLiving'
    BY <1>1 DEF Admit, RequestAt, gate, gateHistory, endpoint, handler, flow
  <2>4. ToldEnds'
    BY <1>1 DEF Admit, RequestAt, gate, gateHistory, endpoint, handler, flow
  <2>5. Flags'
    BY <1>1 DEF Admit, RequestAt, gate, gateHistory, endpoint, handler, flow
  <2> QED
    BY <2>1, <2>2, <2>3, <2>4, <2>5
<1>2. CASE Busy(r)
  <2>1. GateTypeOK'
    BY <1>2 DEF Busy, RequestAt, gate, gateHistory, endpoint, handler, flow
  <2>2. Tables'
    BY <1>2 DEF Busy, RequestAt, gate, gateHistory, endpoint, handler, flow
  <2>3. OneLiving'
    BY <1>2 DEF Busy, RequestAt, gate, gateHistory, endpoint, handler, flow
  <2>4. ToldEnds'
    BY <1>2 DEF Busy, RequestAt, gate, gateHistory, endpoint, handler, flow
  <2>5. Flags'
    BY <1>2 DEF Busy, RequestAt, gate, gateHistory, endpoint, handler, flow
  <2> QED
    BY <2>1, <2>2, <2>3, <2>4, <2>5
<1>3. CASE Begin(r)
  <2>1. GateTypeOK'
    BY <1>3 DEF Begin, RequestAt, gateHistory, endpoint, handler, flow
  <2>2. Tables'
    BY <1>3 DEF Begin, RequestAt, gateHistory, endpoint, handler, flow
  <2>3. OneLiving'
    BY <1>3 DEF Begin, RequestAt, gateHistory, endpoint, handler, flow
  <2>4. ToldEnds'
    BY <1>3 DEF Begin, RequestAt, gateHistory, endpoint, handler, flow
  <2>5. Flags'
    BY <1>3 DEF Begin, RequestAt, gateHistory, endpoint, handler, flow
  <2> QED
    BY <2>1, <2>2, <2>3, <2>4, <2>5
<1>4. CASE Opened(r)
  BY <1>4 DEF Opened, RequestAt, DoneOpening, gate, gateHistory, handler, flow
<1>5. CASE OpenFails(r)
  <2>1. GateTypeOK'
    BY <1>5 DEF OpenFails, RequestAt, DoneOpening, EndRemote, gate, gateHistory, handler, flow
  <2>2. Tables'
    BY <1>5 DEF OpenFails, RequestAt, DoneOpening, EndRemote, gate, gateHistory, handler, flow
  <2>3. OneLiving'
    BY <1>5 DEF OpenFails, RequestAt, DoneOpening, EndRemote, gate, gateHistory, handler, flow
  <2>4. ToldEnds'
    BY <1>5 DEF OpenFails, RequestAt, DoneOpening, EndRemote, gate, gateHistory, handler, flow
  <2>5. Flags'
    BY <1>5 DEF OpenFails, RequestAt, DoneOpening, EndRemote, gate, gateHistory, handler, flow
  <2> QED
    BY <2>1, <2>2, <2>3, <2>4, <2>5
<1>6. CASE Hold(r)
  BY <1>6 DEF Hold, RequestAt, gateHistory, endpoint, handler, flow
<1>7. CASE DropStream(r)
  <2>1. GateTypeOK'
    BY <1>7 DEF DropStream, RequestAt, EndRemote, gate, gateHistory, endpoint, handler, flow
  <2>2. Tables'
    BY <1>7 DEF DropStream, RequestAt, EndRemote, gate, gateHistory, endpoint, handler, flow
  <2>3. OneLiving'
    BY <1>7 DEF DropStream, RequestAt, EndRemote, gate, gateHistory, endpoint, handler, flow
  <2>4. ToldEnds'
    BY <1>7 DEF DropStream, RequestAt, EndRemote, gate, gateHistory, endpoint, handler, flow
  <2>5. Flags'
    BY <1>7 DEF DropStream, RequestAt, EndRemote, gate, gateHistory, endpoint, handler, flow
  <2> QED
    BY <2>1, <2>2, <2>3, <2>4, <2>5
<1>8. CASE Activate(r)
  BY <1>8 DEF Activate, RequestAt, gate, gateHistory, handler, flow
<1>9. CASE CloseBody(r)
  BY <1>9 DEF CloseBody, RequestAt, gate, gateHistory, handler, flow
<1>10. CASE Finished(r)
  <2>1. GateTypeOK'
    BY <1>10 DEF Finished, RequestAt, EndRemote, gate, gateHistory, endpoint, handler, flow
  <2>2. Tables'
    BY <1>10 DEF Finished, RequestAt, EndRemote, gate, gateHistory, endpoint, handler, flow
  <2>3. OneLiving'
    BY <1>10 DEF Finished, RequestAt, EndRemote, gate, gateHistory, endpoint, handler, flow
  <2>4. ToldEnds'
    BY <1>10 DEF Finished, RequestAt, EndRemote, gate, gateHistory, endpoint, handler, flow
  <2>5. Flags'
    BY <1>10 DEF Finished, RequestAt, EndRemote, gate, gateHistory, endpoint, handler, flow
  <2> QED
    BY <2>1, <2>2, <2>3, <2>4, <2>5
<1>11. CASE CancelRequest(r)
  BY <1>11 DEF CancelRequest, gate, handler, flow
<1>12. CASE StartOpening(r)
  BY <1>12 DEF StartOpening, RequestAt, gate, gateHistory, handler, flow
<1> QED
  BY <1>1, <1>2, <1>3, <1>4, <1>5, <1>6, <1>7, <1>8, <1>9, <1>10, <1>11, <1>12 DEF RequestStep

\* The turns keep it.
LEMMA TurnsKeep ==
  ASSUME GateInv, NEW t \in Turns,
         Dispatch(t) \/ Sentence(t) \/ TurnStep(t) \/ AnswerStep(t)
  PROVE  GateInv'
<1> USE GateAssumption DEF GateInv, GateTypeOK, Tables, OneLiving, ToldEnds, Flags, Between, Living
<1>1. CASE Dispatch(t)
  BY <1>1 DEF Dispatch, TurnAt, gate, other, gateHistory, endpoint, handler, flow
<1>2. CASE HandleTurn(t)
  <2>1. GateTypeOK'
    BY <1>2 DEF HandleTurn, TurnAt, gate, other, gateHistory, endpoint, handler, flow
  <2>2. Tables'
    BY <1>2 DEF HandleTurn, TurnAt, gate, other, gateHistory, endpoint, handler, flow
  <2>3. OneLiving'
    BY <1>2 DEF HandleTurn, TurnAt, gate, other, gateHistory, endpoint, handler, flow
  <2>4. ToldEnds'
    BY <1>2 DEF HandleTurn, TurnAt, gate, other, gateHistory, endpoint, handler, flow
  <2>5. Flags'
    BY <1>2 DEF HandleTurn, TurnAt, gate, other, gateHistory, endpoint, handler, flow
  <2> QED
    BY <2>1, <2>2, <2>3, <2>4, <2>5
<1>3. CASE Sentence(t)
  BY <1>3 DEF Sentence, TurnAt, gate, other, gateHistory, endpoint, handler, flow
<1>4. CASE AnswerEnds(t)
  BY <1>4 DEF AnswerEnds, TurnAt, gate, other, gateHistory, endpoint, handler, flow
<1>5. CASE AnswerFails(t)
  BY <1>5 DEF AnswerFails, TurnAt, gate, other, gateHistory, endpoint, handler, flow
<1>6. CASE BeginLocal(t)
  <2>1. GateTypeOK'
    BY <1>6 DEF BeginLocal, TurnAt, gate, other, gateHistory, endpoint, handler, flow
  <2>2. Tables'
    BY <1>6 DEF BeginLocal, TurnAt, gate, other, gateHistory, endpoint, handler, flow
  <2>3. OneLiving'
    BY <1>6 DEF BeginLocal, TurnAt, gate, other, gateHistory, endpoint, handler, flow
  <2>4. ToldEnds'
    <3>1. CASE remote = NoRequest
      <4>1. late \/ \A r \in Living : rpc[r] \notin {"held", "streaming"}
        BY <3>1
      <4>2. CASE voiceOwner = "remote"
        <5>1. /\ toldToStop' = toldToStop \cup Living /\ unheard' = unheard \ Living
              /\ cut \subseteq cut' /\ UNCHANGED <<late, rpc>>
          BY <4>2, <1>6 DEF BeginLocal, TurnAt, gate, other, gateHistory, endpoint, handler, flow
        <5>2. preempted'
          BY <4>2, <3>1, <1>6, Zenon DEF BeginLocal
        <5> QED
          BY <4>1, <5>1, <5>2
      <4>3. CASE voiceOwner # "remote"
        BY <4>3, <1>6 DEF BeginLocal, TurnAt, gate, other, gateHistory, endpoint, handler, flow
      <4> QED
        BY <4>2, <4>3
    <3>2. CASE remote # NoRequest
      <4>1. late \/ Living = {remote}
        BY <3>2
      <4> QED
        BY <4>1, <3>2, <1>6 DEF BeginLocal, TurnAt, gate, other, gateHistory, endpoint, handler, flow
    <3> QED
      BY <3>1, <3>2
  <2>5. Flags'
    BY <1>6 DEF BeginLocal, TurnAt, gate, other, gateHistory, endpoint, handler, flow
  <2> QED
    BY <2>1, <2>2, <2>3, <2>4, <2>5
<1>7. CASE GetVoice(t)
  BY <1>7 DEF GetVoice, TurnAt, TakeLocal, gate, other, gateHistory, endpoint, handler, flow
<1>8. CASE TakeAnyway(t)
  BY <1>8 DEF TakeAnyway, TurnAt, TakeLocal, gate, other, gateHistory, endpoint, handler, flow
<1>9. CASE Speak(t)
  BY <1>9 DEF Speak, TurnAt, gate, other, gateHistory, endpoint, handler, flow
<1>10. CASE Answered(t)
  BY <1>10 DEF Answered, TurnAt, gate, other, gateHistory, endpoint, handler, flow
<1>11. CASE Drained(t)
  BY <1>11 DEF Drained, TurnAt, EndLocal, gate, other, gateHistory, endpoint, handler, flow
<1>12. CASE Leave(t)
  <2>1. GateTypeOK'
    BY <1>12 DEF Leave, TurnAt, gate, other, gateHistory, endpoint, handler, flow
  <2>2. Tables'
    BY <1>12 DEF Leave, TurnAt, gate, other, gateHistory, endpoint, handler, flow
  <2>3. OneLiving'
    BY <1>12 DEF Leave, TurnAt, gate, other, gateHistory, endpoint, handler, flow
  <2>4. ToldEnds'
    BY <1>12 DEF Leave, TurnAt, gate, other, gateHistory, endpoint, handler, flow
  <2>5. Flags'
    BY <1>12 DEF Leave, TurnAt, gate, other, gateHistory, endpoint, handler, flow
  <2> QED
    BY <2>1, <2>2, <2>3, <2>4, <2>5
<1>13. CASE EndTurn(t)
  BY <1>13 DEF EndTurn, TurnAt, EndLocal, gate, other, gateHistory, endpoint, handler, flow
<1> QED
  BY <1>1, <1>2, <1>3, <1>4, <1>5, <1>6, <1>7, <1>8, <1>9, <1>10, <1>11, <1>12, <1>13 DEF TurnStep, AnswerStep

\* The session, the player and the end of the endpoint keep it.
LEMMA OthersKeep ==
  ASSUME GateInv, PlayedOut \/ Supersede \/ CancelStep \/ CloseEndpoint
  PROVE  GateInv'
<1> USE GateAssumption DEF GateInv, GateTypeOK, Tables, OneLiving, ToldEnds, Flags, Between, Living
<1>1. CASE CloseEndpoint
  <2>1. GateTypeOK'
    BY <1>1 DEF CloseEndpoint, gate, gateHistory, handler, flow
  <2>2. Tables'
    BY <1>1 DEF CloseEndpoint, gate, gateHistory, handler, flow
  <2>3. OneLiving'
    BY <1>1 DEF CloseEndpoint, gate, gateHistory, handler, flow
  <2>4. ToldEnds'
    BY <1>1 DEF CloseEndpoint, gate, gateHistory, handler, flow
  <2>5. Flags'
    BY <1>1 DEF CloseEndpoint, gate, gateHistory, handler, flow
  <2> QED
    BY <2>1, <2>2, <2>3, <2>4, <2>5
<1>2. CASE PlayedOut
  <2>1. GateTypeOK'
    BY <1>2 DEF PlayedOut, gate, other, gateHistory, endpoint, handler, flow
  <2>2. Tables'
    BY <1>2 DEF PlayedOut, gate, other, gateHistory, endpoint, handler, flow
  <2>3. OneLiving'
    BY <1>2 DEF PlayedOut, gate, other, gateHistory, endpoint, handler, flow
  <2>4. ToldEnds'
    BY <1>2 DEF PlayedOut, gate, other, gateHistory, endpoint, handler, flow
  <2>5. Flags'
    BY <1>2 DEF PlayedOut, gate, other, gateHistory, endpoint, handler, flow
  <2> QED
    BY <2>1, <2>2, <2>3, <2>4, <2>5
<1>3. CASE Supersede
  BY <1>3 DEF Supersede, gate, other, gateHistory, endpoint, handler, flow
<1>4. CASE MarkCancelled
  BY <1>4 DEF MarkCancelled, gate, other, gateHistory, endpoint, handler, flow
<1>5. CASE StopSpeaker
  <2>1. GateTypeOK'
    BY <1>5 DEF StopSpeaker, EndLocal, gate, other, gateHistory, endpoint, handler, flow
  <2>2. Tables'
    BY <1>5 DEF StopSpeaker, EndLocal, gate, other, gateHistory, endpoint, handler, flow
  <2>3. OneLiving'
    BY <1>5 DEF StopSpeaker, EndLocal, gate, other, gateHistory, endpoint, handler, flow
  <2>4. ToldEnds'
    BY <1>5 DEF StopSpeaker, EndLocal, gate, other, gateHistory, endpoint, handler, flow
  <2>5. Flags'
    BY <1>5 DEF StopSpeaker, EndLocal, gate, other, gateHistory, endpoint, handler, flow
  <2> QED
    BY <2>1, <2>2, <2>3, <2>4, <2>5
<1> QED
  BY <1>1, <1>2, <1>3, <1>4, <1>5 DEF CancelStep

\* No one stutters into a bad state, and it holds at the start.
THEOREM GateInvariant == GateSpec => []GateInv
<1> USE DEF GateInv, GateTypeOK, Tables, OneLiving, ToldEnds, Flags, Between, Living
<1>1. GateInit => GateInv
  BY GateAssumption DEF GateInit
<1>2. GateInv /\ [GateNext]_gateVars => GateInv'
  <2> SUFFICES ASSUME GateInv, [GateNext]_gateVars PROVE GateInv'
    OBVIOUS
  <2>1. CASE UNCHANGED gateVars
    BY <2>1 DEF gateVars, gate, gateHistory, endpoint, handler, flow
  <2>2. CASE GateNext
    BY <2>2, RequestsKeep, TurnsKeep, OthersKeep DEF GateNext
  <2> QED
    BY <2>1, <2>2
<1> QED
  BY <1>1, <1>2, PTL DEF GateSpec

\* Every variable of the gate, the endpoint and the chat handler keeps its type, and the gate only
\* knows a stream while it is held for one.
THEOREM GateTypeCorrect == GateSpec => []GateTypeOK
  BY GateInvariant, PTL DEF GateInv

\* FlowHasTheVoice, for any number of requests and turns.
THEOREM OneVoiceAtTheGate == GateSpec => []FlowHasTheVoice
<1>1. GateInv => FlowHasTheVoice
  BY DEF GateInv, OneLiving, Living, FlowHasTheVoice, Sounds
<1> QED
  BY <1>1, GateInvariant, PTL

\* StoppedStaysSilent, for any number of requests and turns.
THEOREM StopSilences == GateSpec => []StoppedStaysSilent
<1>1. GateInv => StoppedStaysSilent
  BY DEF GateInv, GateTypeOK, ToldEnds, StoppedStaysSilent, Sounds
<1> QED
  BY <1>1, GateInvariant, PTL

\* NothingLeft, for any number of requests and turns.
THEOREM EverythingIsGivenBack == GateSpec => []NothingLeft
<1>1. GateInv => NothingLeft
  BY DEF GateInv, GateTypeOK, Tables, OneLiving, Living, Flags, Between, NothingLeft
<1> QED
  BY <1>1, GateInvariant, PTL
=============================================================================
