---------------------------- MODULE MCAssistant ----------------------------
(* Small instances for TLC of three parts that share no state: the voice of *)
(* the companion, the conversations it started and their answers.  In a     *)
(* behavior one of them moves, so the state spaces add up.                  *)
EXTENDS CompanionVoice, OwnedConversations, HeldAnswers

CONSTANTS d1, c1, c2
VARIABLE part

allVars == <<voiceVars, ownedVars, answerVars, part>>

Init ==
  /\ part \in {"voice", "conversations", "asking", "flashing"}
  /\ VoiceInit /\ OwnedInit /\ AnswersInit
  /\ part # "voice" => platform = "windows"
  /\ part = "flashing" => begun = {} /\ inbox # {}
  /\ part # "flashing" => inbox = {} /\ (part = "asking" \/ begun = {})

\* Two holds of the voice, or one beside a stop and a failure.
VoiceMoves == VoiceNext /\ (holds' = 2 => failures' = 0 /\ stops' = 0)

\* Only the first process finds itself logged out, and only the first tool stops a conversation.
ConversationsMove == OwnedNext /\ process'[2] \notin {"out", "lost"} /\ call'[c2] \notin {"halting", "stopping"}

\* Two prompts to one central that may die, or one prompt and two centrals, the second in the Desktop.
AnswersMove ==
  /\ AnswersNext
  /\ part = "asking" => closing' = {} /\ hearing' = {} /\ mode'[1] = "own"
  /\ part = "flashing" => prompt'[2] = "new" /\ (status'[2] # "new" => mode'[2] = "desktop")

Next ==
  /\ UNCHANGED part
  /\ \/ part = "voice" /\ VoiceMoves /\ UNCHANGED <<ownedVars, answerVars>>
     \/ part = "conversations" /\ ConversationsMove /\ UNCHANGED <<voiceVars, answerVars>>
     \/ part \in {"asking", "flashing"} /\ AnswersMove /\ UNCHANGED <<voiceVars, ownedVars>>

\* What does not move stays in its initial state, where nothing is owed to it.
Spec == Init /\ [][Next]_allVars

\* VoiceFairness, OwnedFairness and AnswersFairness, of the part that moves.
Voice == part = "voice"
Conversing == part = "conversations"
Answering == part \in {"asking", "flashing"}
Fairness ==
  /\ WF_voiceVars(Voice /\ WorkerStep) /\ WF_voiceVars(Voice /\ Plays) /\ WF_voiceVars(Voice /\ Put)
  /\ WF_voiceVars(Voice /\ DropQueued) /\ WF_voiceVars(Voice /\ HoldEnds)
  /\ \A c \in Tools : WF_ownedVars(Conversing /\ CallStep(c))
  /\ \A p \in Processes : WF_ownedVars(Conversing /\ AllStopped(p))
  /\ WF_answerVars(Answering /\ ThreadsGoOn) /\ WF_answerVars(Answering /\ WatcherStep)
  /\ SF_answerVars(Answering /\ HandOver)
FairSpec == Spec /\ Fairness

-----------------------------------------------------------------------------

\* Type correctness of the parts; a slot is taken exactly for the calls that start a process.
TypesOK == VoiceTypeOK /\ OwnedTypeOK /\ AnswersTypeOK
=============================================================================
