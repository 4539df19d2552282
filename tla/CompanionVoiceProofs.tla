------------------------ MODULE CompanionVoiceProofs ------------------------
(***************************************************************************)
(* Proofs about CompanionVoice, the assistant's voice in the companion     *)
(* (app/companion/voice.py).                                               *)
(*                                                                         *)
(* VoiceInv holds however often the voice is held, stopped or closed: the  *)
(* types, what the worker holds where it is, and that nothing of a line    *)
(* that was stopped can sound.  OrderInv is the order of the pieces: with  *)
(* at most one hold every piece of a valid line is over, in the device, to *)
(* be said again, in the worker's hand or still waiting (Covered), and the *)
(* worker asks for a piece outside a hold only when all before it are      *)
(* settled (Ready).  A hold that ends while the worker is past its look at *)
(* the replay list settles what waits there: HeardInOrder excepts it.      *)
(***************************************************************************)
EXTENDS CompanionVoice, TLAPS, WellFoundedInduction

-----------------------------------------------------------------------------
(* Numbers.                                                                 *)

\* The quotient and the remainder of a division.
LEMMA Division ==
  ASSUME NEW a \in Nat, NEW b \in Nat \ {0}
  PROVE  a \div b \in Nat /\ (a \div b) * b <= a /\ a < (a \div b) * b + b
OBVIOUS

\* Multiplication is monotone.
LEMMA Times ==
  ASSUME NEW a \in Nat, NEW b \in Nat, NEW c \in Nat, a <= b
  PROVE  a * c <= b * c /\ a * c \in Nat
OBVIOUS

\* A set of numbers that is not empty has a least one.
LEMMA LeastIsThere ==
  ASSUME NEW S, S \in SUBSET Nat, S # {}
  PROVE  Min(S) \in S /\ \A x \in S : Min(S) <= x
<1> DEFINE R == {ss \in Nat \X Nat : ss[1] < ss[2]}
<1>1. IsWellFoundedOn(R, Nat)
  BY NatLessThanWellFounded, Zenon DEF OpToRel
<1>2. PICK m \in S : \A y \in S : <<y, m>> \notin R
  BY <1>1, WFMin, Zenon
<1>3. \A y \in S : m <= y
  <2>1. SUFFICES ASSUME NEW y \in S PROVE ~(y < m)
    OBVIOUS
  <2>2. <<y, m>> \notin R
    BY <1>2
  <2>3. <<y, m>> \in Nat \X Nat
    OBVIOUS
  <2> QED
    BY <2>2, <2>3
<1> QED
  BY <1>3 DEF Min

-----------------------------------------------------------------------------
(* Lines and their pieces.                                                  *)

\* What the assumption says of each bound.
LEMMA Constants ==
  /\ MaxLines \in Nat /\ MaxLines # 0 /\ Pieces \in Nat /\ Pieces # 0
  /\ MaxHolds \in Nat /\ MaxStops \in Nat /\ MaxFailures \in Nat
  /\ Lines = 1..MaxLines
BY VoiceAssumption DEF Lines

\* The pieces are positive numbers.
LEMMA PieceNumbers == PieceIds \subseteq Nat \ {0} /\ MaxLines * Pieces \in Nat
<1>1. MaxLines * Pieces \in Nat
  BY Constants
<1> QED
  BY <1>1 DEF PieceIds

\* The pieces of a line follow those of the line before it.
LEMMA LineBounds ==
  ASSUME NEW p \in Nat \ {0}
  PROVE  /\ LineOf(p) \in Nat \ {0}
         /\ (LineOf(p) - 1) * Pieces < p /\ p <= LineOf(p) * Pieces
<1> DEFINE q == LineOf(p)
           a == p + Pieces - 1
<1>0. Pieces \in Nat \ {0}
  BY Constants
<1>1. a \in Nat /\ q = a \div Pieces
  BY <1>0 DEF LineOf
<1>2. q \in Nat /\ q * Pieces <= a /\ a < q * Pieces + Pieces
  BY <1>0, <1>1, Division
<1>3. q # 0
  <2>1. SUFFICES ASSUME q = 0 PROVE FALSE
    OBVIOUS
  <2>2. q * Pieces = 0
    BY <2>1, <1>0
  <2> QED
    BY <2>2, <1>2, <1>0
<1>4. (q - 1) * Pieces = q * Pieces - Pieces /\ q * Pieces \in Nat
  BY <1>2, <1>0
<1> QED
  BY <1>0, <1>2, <1>3, <1>4

\* A piece belongs to one line only.
LEMMA LineIsUnique ==
  ASSUME NEW p \in Nat \ {0}, NEW n \in Nat \ {0},
         (n - 1) * Pieces < p, p <= n * Pieces
  PROVE  LineOf(p) = n
<1> DEFINE q == LineOf(p)
<1>0. Pieces \in Nat \ {0}
  BY Constants
<1>1. q \in Nat \ {0} /\ (q - 1) * Pieces < p /\ p <= q * Pieces
  BY LineBounds
<1> HIDE DEF q
<1>2. ~(q < n)
  <2>1. SUFFICES ASSUME q <= n - 1 PROVE FALSE
    BY <1>1
  <2>2. q * Pieces <= (n - 1) * Pieces /\ q * Pieces \in Nat
    BY <2>1, <1>0, <1>1, Times
  <2>3. (n - 1) * Pieces \in Nat
    BY <1>0, Times
  <2> QED
    BY <2>2, <2>3, <1>1
<1>3. ~(n < q)
  <2>1. SUFFICES ASSUME n <= q - 1 PROVE FALSE
    BY <1>1
  <2>2. n * Pieces <= (q - 1) * Pieces /\ n * Pieces \in Nat
    BY <2>1, <1>0, <1>1, Times
  <2>3. (q - 1) * Pieces \in Nat
    BY <1>0, <1>1, Times
  <2> QED
    BY <2>2, <2>3, <1>1
<1> QED
  BY <1>1, <1>2, <1>3 DEF q

\* A later piece is of the same line or of a later one.
LEMMA LinesInOrder ==
  ASSUME NEW p \in PieceIds, NEW q \in PieceIds
  PROVE  /\ LineOf(p) \in Lines
         /\ p <= q => LineOf(p) <= LineOf(q)
         /\ LineOf(p) < LineOf(q) => p < q
<1>0. Pieces \in Nat \ {0} /\ MaxLines \in Nat \ {0} /\ p \in Nat \ {0} /\ q \in Nat \ {0} /\ p <= MaxLines * Pieces
  BY Constants, PieceNumbers DEF PieceIds
<1> DEFINE m == LineOf(p)
           n == LineOf(q)
<1>1. m \in Nat \ {0} /\ (m - 1) * Pieces < p /\ p <= m * Pieces
  BY <1>0, LineBounds
<1>2. n \in Nat \ {0} /\ (n - 1) * Pieces < q /\ q <= n * Pieces
  BY <1>0, LineBounds
<1> HIDE DEF m, n
<1>3. m <= MaxLines
  <2>1. SUFFICES ASSUME MaxLines <= m - 1 PROVE FALSE
    BY <1>0, <1>1
  <2>2. MaxLines * Pieces <= (m - 1) * Pieces /\ MaxLines * Pieces \in Nat
    BY <2>1, <1>0, <1>1, Times
  <2>3. (m - 1) * Pieces \in Nat
    BY <1>0, <1>1, Times
  <2> QED
    BY <2>2, <2>3, <1>0, <1>1
<1>4. m < n => p < q
  <2>1. SUFFICES ASSUME m <= n - 1 PROVE p < q
    BY <1>1, <1>2
  <2>2. m * Pieces <= (n - 1) * Pieces /\ m * Pieces \in Nat
    BY <2>1, <1>0, <1>1, <1>2, Times
  <2>3. (n - 1) * Pieces \in Nat
    BY <1>0, <1>2, Times
  <2> QED
    BY <2>2, <2>3, <1>0, <1>1, <1>2
<1>5. n < m => q < p
  <2>1. SUFFICES ASSUME n <= m - 1 PROVE q < p
    BY <1>1, <1>2
  <2>2. n * Pieces <= (m - 1) * Pieces /\ n * Pieces \in Nat
    BY <2>1, <1>0, <1>1, <1>2, Times
  <2>3. (m - 1) * Pieces \in Nat
    BY <1>0, <1>1, Times
  <2> QED
    BY <2>2, <2>3, <1>0, <1>1, <1>2
<1>6. m \in Lines
  BY <1>1, <1>3, <1>0, Constants
<1> QED
  BY <1>0, <1>1, <1>2, <1>4, <1>5, <1>6 DEF m, n

\* The k-th piece of a line belongs to it.
LEMMA PiecesOfLine ==
  ASSUME NEW n \in Lines, NEW k \in 1..Pieces
  PROVE  /\ PieceOf(n, k) \in PieceIds /\ LineOf(PieceOf(n, k)) = n
         /\ PieceOf(n, k + 1) = PieceOf(n, k) + 1
<1>0. Pieces \in Nat \ {0} /\ MaxLines \in Nat \ {0} /\ n \in Nat \ {0} /\ n <= MaxLines /\ k \in Nat \ {0} /\ k <= Pieces
  BY Constants
<1> DEFINE z == (n - 1) * Pieces
<1>1. z \in Nat /\ n * Pieces = z + Pieces
  BY <1>0
<1>2. n * Pieces <= MaxLines * Pieces /\ MaxLines * Pieces \in Nat
  BY <1>0, Times
<1>3. PieceOf(n, k) = z + k /\ PieceOf(n, k + 1) = z + (k + 1)
  BY DEF PieceOf
<1> HIDE DEF z
<1>4. PieceOf(n, k) \in PieceIds
  BY <1>0, <1>1, <1>2, <1>3 DEF PieceIds
<1>5. LineOf(PieceOf(n, k)) = n
  <2>1. z < PieceOf(n, k) /\ PieceOf(n, k) <= n * Pieces /\ PieceOf(n, k) \in Nat \ {0}
    BY <1>0, <1>1, <1>3
  <2> QED
    BY <2>1, <1>0, LineIsUnique DEF z
<1> QED
  BY <1>0, <1>1, <1>3, <1>4, <1>5

\* Every piece of a line is one of its Pieces pieces.
LEMMA PiecesAreTheLine ==
  ASSUME NEW p \in PieceIds
  PROVE  /\ PieceOf(LineOf(p), 1) <= p /\ p <= PieceOf(LineOf(p), Pieces)
         /\ PieceOf(LineOf(p), Pieces + 1) = PieceOf(LineOf(p), Pieces) + 1
<1> DEFINE n == LineOf(p)
           z == (n - 1) * Pieces
<1>0. Pieces \in Nat \ {0} /\ p \in Nat \ {0}
  BY Constants, PieceNumbers
<1>1. n \in Nat \ {0} /\ z < p /\ p <= n * Pieces
  BY <1>0, LineBounds
<1>2. PieceOf(n, 1) = z + 1 /\ PieceOf(n, Pieces) = z + Pieces /\ PieceOf(n, Pieces + 1) = z + (Pieces + 1)
  BY DEF PieceOf
<1>3. z \in Nat /\ n * Pieces = z + Pieces
  <2> HIDE DEF n
  <2> QED BY <1>0, <1>1
<1> QED
  <2> HIDE DEF n, z
  <2>1. z + 1 <= p /\ p <= z + Pieces /\ z + (Pieces + 1) = (z + Pieces) + 1
    BY <1>0, <1>1, <1>3
  <2> QED BY <2>1, <1>2 DEF n

-----------------------------------------------------------------------------
(* The worker and the queue.                                                *)

Speaking == {"open", "opened", "streaming", "writing", "ending"}
InPiece == Speaking \cup {"again"}
InDev == {e.piece : e \in inDevice}

\* A stop forgets every line asked for until then: what is valid is a last part of them.
Suffix == \A n \in valid : \A m \in 1..asked : n <= m => m \in valid

\* The lines wait in the order they were asked for, behind the one that is said.
Queue ==
  /\ putting \in {0, asked} /\ item <= asked /\ (putting # 0 => item < putting)
  /\ \A i, j \in 1..Len(lines) : i < j /\ lines[j] # 0 => lines[i] < lines[j]
  /\ \A i \in 1..Len(lines) : lines[i] # 0 => lines[i] > item /\ lines[i] <= asked /\ (putting # 0 => lines[i] < putting)
  /\ ~gone => \A i \in 1..Len(lines) : lines[i] # 0

\* What the worker holds where it is.
Where ==
  /\ wpc \in InPiece => cur # 0
  /\ wpc \in Speaking /\ back = "" => item # 0 /\ cur = PieceOf(item, index)
  /\ wpc = "loop" \/ (wpc \in InPiece /\ back # "tail") => item # 0
  /\ wpc \in {"get", "idle", "tail"} \/ (wpc \in InPiece /\ back = "tail") => item = 0
  /\ wpc = "again" => back # ""
  /\ item # 0 => index \in 1..Pieces
  /\ noticed => wpc \in {"loop", "again"}

\* Only lines that were asked for are said.
Asked ==
  /\ wpc \in InPiece => LineOf(cur) <= asked
  /\ \A p \in replay \cup Audible \cup heard \cup InDev : LineOf(p) <= asked

\* What sounds, and what the worker can still make sound, is of a line that was not stopped.
Silent ==
  /\ StoppedIsSilent
  /\ wpc = "writing" /\ usable => LineOf(cur) \in valid

VoiceInv == VoiceTypeOK /\ Suffix /\ Queue /\ Where /\ Asked /\ Silent

QueueTypes ==
  /\ asked \in 0..MaxLines /\ putting \in 0..asked /\ valid \subseteq 1..asked /\ lines \in Seq(0..MaxLines)
CallerTypes ==
  /\ platform \in {"windows", "linux"}
  /\ hold \in {"no", "paused", "recording"} /\ spc \in {"idle", "dropping"}
  /\ holds \in 0..MaxHolds /\ stops \in 0..MaxStops /\ failures \in 0..MaxFailures
PieceTypes ==
  replay \subseteq PieceIds /\ heard \subseteq PieceIds /\ lost \subseteq PieceIds /\ unnoticed \subseteq PieceIds
Entries == [piece : PieceIds, complete : BOOLEAN]
Sounds == [piece : PieceIds, whole : BOOLEAN]
DeviceTypes == inDevice \subseteq Entries /\ audio \in Seq(Sounds)
Places == {"get", "loop", "again", "tail", "open", "opened", "streaming", "writing", "ending", "said", "idle", "ended", "dead"}
WorkerTypes ==
  /\ wpc \in Places /\ back \in {"", "loop", "tail"}
  /\ item \in 0..MaxLines /\ index \in 0..Pieces /\ cur \in PieceIds \cup {0}
Flags == output \in BOOLEAN /\ gone \in BOOLEAN /\ noticed \in BOOLEAN /\ usable \in BOOLEAN

\* The type invariant is the conjunction of the groups the lemmas use.
LEMMA TypeParts ==
  VoiceTypeOK <=> QueueTypes /\ CallerTypes /\ PieceTypes /\ DeviceTypes /\ WorkerTypes /\ Flags
BY Zenon DEF VoiceTypeOK, QueueTypes, CallerTypes, PieceTypes, DeviceTypes, WorkerTypes, Places, Flags, Entries, Sounds

\* The same in the next state.
LEMMA TypePartsNext ==
  VoiceTypeOK' <=> QueueTypes' /\ CallerTypes' /\ PieceTypes' /\ DeviceTypes' /\ WorkerTypes' /\ Flags'
BY Zenon DEF VoiceTypeOK, QueueTypes, CallerTypes, PieceTypes, DeviceTypes, WorkerTypes, Places, Flags, Entries, Sounds

\* The invariant holds at the start: nothing is asked for, nothing sounds.
LEMMA InvInit == VoiceInit => VoiceInv
<1>1. SUFFICES ASSUME VoiceInit PROVE VoiceInv
  OBVIOUS
<1>2. QueueTypes
  <2>1. asked = 0 /\ putting = 0 /\ valid = {} /\ lines = <<>>
    BY <1>1 DEF VoiceInit
  <2> QED BY <2>1, Constants DEF QueueTypes
<1>3. CallerTypes
  <2>1. /\ hold = "no" /\ spc = "idle" /\ holds = 0 /\ stops = 0 /\ failures = 0
        /\ platform \in {"windows", "linux"}
    BY <1>1 DEF VoiceInit
  <2> QED BY <2>1, Constants DEF CallerTypes
<1>4. PieceTypes 
  BY <1>1 DEF VoiceInit, PieceTypes
<1>4a. DeviceTypes 
  <2>1. inDevice = {} /\ audio = <<>>
    BY <1>1 DEF VoiceInit
  <2> QED BY <2>1 DEF DeviceTypes
<1>5. WorkerTypes
  <2>1. item = 0 /\ index = 0 /\ cur = 0 /\ wpc = "get" /\ back = ""
    BY <1>1 DEF VoiceInit
  <2>2. wpc \in Places /\ back \in {"", "loop", "tail"}
    BY <2>1 DEF Places
  <2>3. item \in 0..MaxLines /\ index \in 0..Pieces
    <3>1. item = 0 /\ index = 0
      BY <2>1
    <3> QED BY <3>1, Constants
  <2>4. cur \in PieceIds \cup {0}
    BY <2>1
  <2> QED BY <2>2, <2>3, <2>4 DEF WorkerTypes
<1>5a. Flags
  BY <1>1, Zenon DEF VoiceInit, Flags
<1>6. Suffix
  BY <1>1 DEF VoiceInit, Suffix
<1>7. Queue
  <2>1. asked = 0 /\ putting = 0 /\ valid = {} /\ lines = <<>> /\ item = 0
    BY <1>1 DEF VoiceInit
  <2> QED BY <2>1, Constants DEF Queue
<1>8. Audible = {} /\ InDev = {}
  <2>1. inDevice = {} /\ audio = <<>>
    BY <1>1 DEF VoiceInit
  <2> QED BY <2>1 DEF Audible, InDev
<1>9. Silent
  BY <1>1, <1>8 DEF VoiceInit, Silent, StoppedIsSilent
<1>10. Where
  BY <1>1 DEF VoiceInit, Where, InPiece, Speaking
<1>11. Asked
  BY <1>1, <1>8 DEF VoiceInit, Asked, InPiece, Speaking
<1> QED
  BY <1>2, <1>3, <1>4, <1>4a, <1>5, <1>5a, <1>6, <1>7, <1>9, <1>10, <1>11, TypeParts DEF VoiceInv

-----------------------------------------------------------------------------
(* The device.                                                              *)

\* An empty device is a device.
LEMMA NothingSounds == <<>> \in Seq(Sounds)
OBVIOUS

\* The numbers the worker holds are natural numbers.
LEMMA WorkerNumbers ==
  ASSUME WorkerTypes
  PROVE  item \in 0..MaxLines /\ index \in 0..Pieces
BY Zenon DEF WorkerTypes

\* What the worker takes from the queue is the sentinel or a line.
LEMMA NextLine ==
  ASSUME QueueTypes, lines # <<>>
  PROVE  /\ Len(lines) \in Nat /\ 1 \in 1..Len(lines) /\ Head(lines) = lines[1] /\ Head(lines) \in 0..MaxLines
         /\ Len(Tail(lines)) = Len(lines) - 1
         /\ \A i \in 1..Len(Tail(lines)) : i + 1 \in 1..Len(lines) /\ Tail(lines)[i] = lines[i + 1]
<1> DEFINE S == 0..MaxLines
<1>1. lines \in Seq(S)
  BY DEF QueueTypes
<1> HIDE DEF S
<1>2. Len(lines) \in Nat /\ 1 \in 1..Len(lines) /\ Head(lines) = lines[1] /\ Head(lines) \in S
  BY <1>1
<1>3. Len(Tail(lines)) = Len(lines) - 1 /\ \A i \in 1..Len(Tail(lines)) : i + 1 \in 1..Len(lines) /\ Tail(lines)[i] = lines[i + 1]
  BY <1>1
<1> QED BY <1>2, <1>3 DEF S

\* The queue is a sequence of line numbers and sentinels.
LEMMA QueueNumbers ==
  ASSUME QueueTypes
  PROVE  /\ asked \in Nat /\ asked <= MaxLines /\ putting \in Nat /\ putting <= asked
         /\ Len(lines) \in Nat /\ DOMAIN lines = 1..Len(lines)
         /\ \A i \in 1..Len(lines) : lines[i] \in Nat /\ lines[i] <= MaxLines
<1> DEFINE S == 0..MaxLines
<1>1. lines \in Seq(S) /\ asked \in Nat /\ asked <= MaxLines /\ putting \in Nat /\ putting <= asked
  BY Constants DEF QueueTypes
<1> HIDE DEF S
<1>2. Len(lines) \in Nat /\ DOMAIN lines = 1..Len(lines)
  BY <1>1
<1>3. \A i \in 1..Len(lines) : lines[i] \in S
  BY <1>1
<1> QED BY <1>1, <1>2, <1>3, Constants DEF S

\* What goes first of the pieces a hold cut is one of them, and none comes before it.
LEMMA FirstOfReplay ==
  ASSUME PieceTypes, replay # {}
  PROVE  Min(replay) \in replay /\ Min(replay) \in PieceIds /\ \A p \in replay : Min(replay) <= p
<1>1. replay \in SUBSET Nat
  BY PieceNumbers DEF PieceTypes
<1> QED
  BY <1>1, LeastIsThere DEF PieceTypes

\* A cut brings back what was not heard to its end: the piece in hand, what sounds, nothing else.
Cut == {e.piece : e \in Unheard}
HalfSaid(p) == \E e \in inDevice : e.piece = p /\ ~e.complete

\* What the device has not played to its end is listed, and what is listed is a piece.
LEMMA CutIsUnheard ==
  ASSUME DeviceTypes
  PROVE  /\ Cut \subseteq InDev /\ InDev \subseteq PieceIds /\ Audible \subseteq PieceIds
         /\ \A p \in InDev : p \in Audible => p \in Cut
         /\ \A p : HalfSaid(p) => p \in Cut
         /\ \A p : Listed(p) <=> p \in InDev
<1>1. Cut \subseteq InDev /\ InDev \subseteq PieceIds
  BY DEF Cut, Unheard, InDev, DeviceTypes, Entries
<1>2. Audible \subseteq PieceIds
  <2>1. ASSUME NEW i \in DOMAIN audio PROVE audio[i].piece \in PieceIds
    <3>1. audio[i] \in Sounds
      BY DEF DeviceTypes
    <3> QED BY <3>1 DEF Sounds
  <2> QED BY <2>1 DEF Audible
<1>3. ASSUME NEW p \in InDev, p \in Audible PROVE p \in Cut
  BY <1>3 DEF Cut, Unheard, InDev
<1>4. ASSUME NEW p, HalfSaid(p) PROVE p \in Cut
  BY <1>4 DEF Cut, Unheard, HalfSaid
<1>5. ASSUME NEW p PROVE Listed(p) <=> p \in InDev
  BY DEF Listed, InDev
<1> QED
  BY <1>1, <1>2, <1>3, <1>4, <1>5

\* What _cut_for_hold does: the device is empty, and what it had not played waits to be said again.
LEMMA CutStep ==
  ASSUME CutForHold
  PROVE  replay' = replay \cup Cut /\ inDevice' = {} /\ InDev' = {} /\ audio' = <<>> /\ Audible' = {}
<1>1. replay' = replay \cup Cut /\ inDevice' = {} /\ audio' = <<>>
  BY DEF CutForHold, Cut
<1>2. InDev' = {}
  BY <1>1 DEF InDev
<1>3. Audible' = {}
  BY <1>1 DEF Audible
<1> QED BY <1>1, <1>2, <1>3

\* Taking a piece off _in_device.
LEMMA UnlistStep ==
  ASSUME DeviceTypes, inDevice' = {e \in inDevice : e.piece # cur}
  PROVE  InDev' = InDev \ {cur} /\ inDevice' \subseteq Entries
BY DEF InDev, DeviceTypes

\* Putting a piece on _in_device.
LEMMA ListStep ==
  ASSUME DeviceTypes, cur \in PieceIds, inDevice' = inDevice \cup {[piece |-> cur, complete |-> FALSE]}
  PROVE  /\ InDev' = InDev \cup {cur} /\ inDevice' \subseteq Entries
         /\ \E e \in inDevice' : e.piece = cur /\ ~e.complete
<1> DEFINE new == [piece |-> cur, complete |-> FALSE]
<1>1. new \in Entries /\ new.piece = cur /\ new.complete = FALSE
  BY Zenon DEF Entries
<1> HIDE DEF new
<1>2. inDevice' = inDevice \cup {new}
  BY DEF new
<1>3. InDev' = InDev \cup {cur}
  BY <1>1, <1>2 DEF InDev
<1>4. inDevice' \subseteq Entries
  BY <1>1, <1>2 DEF DeviceTypes
<1>5. new \in inDevice' /\ ~new.complete
  BY <1>1, <1>2
<1> QED
  BY <1>1, <1>3, <1>4, <1>5

\* Completing a piece leaves the listed pieces the same.
LEMMA CompleteStep ==
  ASSUME DeviceTypes, inDevice' = Complete
  PROVE  InDev' = InDev /\ inDevice' \subseteq Entries
<1> DEFINE done(e) == [e EXCEPT !.complete = @ \/ e.piece = cur]
<1>1. ASSUME NEW e \in inDevice
      PROVE  done(e) \in Entries /\ done(e).piece = e.piece
  <2>1. e \in [piece : PieceIds, complete : BOOLEAN]
    BY DEF DeviceTypes, Entries
  <2>2. done(e).piece = e.piece
    BY <2>1
  <2>3. DEFINE c == e.complete \/ e.piece = cur
  <2>4. c \in BOOLEAN
    OBVIOUS
  <2>5. done(e) = [e EXCEPT !.complete = c]
    BY <2>1
  <2> HIDE DEF c
  <2>6. done(e) \in Entries
    BY <2>1, <2>4, <2>5 DEF Entries
  <2> QED BY <2>2, <2>6
<1>2. inDevice' = {done(e) : e \in inDevice}
  BY DEF Complete
<1> HIDE DEF done
<1>3. InDev' = InDev
  BY <1>1, <1>2 DEF InDev
<1>4. inDevice' \subseteq Entries
  BY <1>1, <1>2
<1> QED BY <1>3, <1>4

\* What a failure leaves alone, and what it drops.
LEMMA FailKeeps ==
  ASSUME Fail
  PROVE  /\ UNCHANGED <<platform, unnoticed, asked, putting, valid, hold, gone, spc, holds, stops>>
         /\ UNCHANGED <<lines, replay, audio, output, heard>>
         /\ inDevice' = {e \in inDevice : e.piece # cur} /\ lost \cup {cur} \subseteq lost'
         /\ failures < MaxFailures /\ failures' = failures + 1
<1>1. /\ UNCHANGED <<platform, unnoticed, asked, putting, valid, hold, gone, spc, holds, stops>>
      /\ UNCHANGED <<lines, replay, heard>>
  BY DEF Fail, kept, callers
<1>2. PICK next : Drops(next)
  BY Zenon DEF Fail, RequestFails, OutputFails, WriteFails
<1> QED BY <1>1, <1>2 DEF Drops, Unlist

\* Where a failure leads.
LEMMA FailLeads ==
  ASSUME Fail, WorkerTypes
  PROVE  /\ wpc \in {"open", "opened", "streaming", "writing"} /\ UNCHANGED <<item, index, cur, back>>
         /\ noticed' = FALSE
         /\ back = "" => wpc' = "said"
         /\ back = "loop" => wpc' \in {"said", "loop"}
         /\ back = "tail" => wpc' \in {"idle", "tail", "dead"}
         /\ wpc' = "said" => {p \in PieceIds : LineOf(p) = item /\ p >= PieceOf(item, index)} \subseteq lost'
<1>1. UNCHANGED <<item, index, cur, back>> /\ back \in {"", "loop", "tail"}
  BY DEF Fail, WorkerTypes
<1>2. CASE RequestFails
  <2>1. wpc \in {"open", "streaming"} /\ Drops(IF back = "tail" THEN "idle" ELSE "said")
    BY <1>2 DEF RequestFails
  <2> QED BY <1>1, <2>1 DEF Drops, Goto
<1>3. CASE OutputFails
  <2>1. wpc = "opened" /\ Drops(IF back = "" THEN "said" ELSE back)
    BY <1>3, Zenon DEF OutputFails, At
  <2> QED BY <1>1, <2>1 DEF Drops, Goto
<1>4. CASE WriteFails
  <2>1. wpc = "writing" /\ Drops(IF back = "tail" THEN "dead" ELSE "said")
    BY <1>4, Zenon DEF WriteFails, At
  <2> QED BY <1>1, <2>1 DEF Drops, Goto
<1> QED BY <1>2, <1>3, <1>4 DEF Fail

\* A step keeps the types of the queue and its lines.
LEMMA QueueTypesKept ==
  ASSUME QueueTypes, VoiceNext
  PROVE  QueueTypes'
<1> USE Constants
<1>1. CASE Say
  BY <1>1 DEF Say, device, worker, voiceCounts, callers, quiet, kept, At, Goto, QueueTypes
<1>2. CASE Put
  <2>1. putting' = 0 /\ putting # 0 /\ asked' = asked /\ valid' = valid /\ (lines' = lines \/ lines' = Append(lines, putting))
    BY <1>2 DEF Put
  <2>2. lines' \in Seq(0..MaxLines)
    BY <2>1 DEF QueueTypes
  <2> QED BY <2>1, <2>2 DEF QueueTypes
<1>3. CASE Pause
  BY <1>3 DEF Pause, device, worker, voiceCounts, callers, quiet, kept, At, Goto, QueueTypes
<1>4. CASE RecordingShows
  BY <1>4 DEF RecordingShows, device, worker, voiceCounts, callers, quiet, kept, At, Goto, QueueTypes
<1>5. CASE HoldEnds
  BY <1>5 DEF HoldEnds, device, worker, voiceCounts, callers, quiet, kept, At, Goto, QueueTypes
<1>6. CASE Stop
  BY <1>6 DEF Stop, device, worker, voiceCounts, callers, quiet, kept, At, Goto, QueueTypes, Forget
<1>7. CASE DropQueued
  <2>1. asked' = asked /\ putting' = putting /\ valid' = valid /\ (lines' = <<0>> \/ lines' = <<>>)
    BY <1>7 DEF DropQueued, DropQueue
  <2>2. <<0>> \in Seq(0..MaxLines) /\ <<>> \in Seq(0..MaxLines)
    OBVIOUS
  <2>3. lines' \in Seq(0..MaxLines)
    BY <2>1, <2>2, Zenon
  <2> QED BY <2>1, <2>3 DEF QueueTypes
<1>8. CASE Close
  BY <1>8 DEF Close, device, worker, voiceCounts, callers, quiet, kept, At, Goto, QueueTypes
<1>9. CASE Get
  BY <1>9 DEF Get, device, worker, voiceCounts, callers, quiet, kept, At, Goto, QueueTypes
<1>10. CASE WaitHeld
  BY <1>10 DEF WaitHeld, device, worker, voiceCounts, callers, quiet, kept, At, Goto, QueueTypes
<1>11. CASE Loop
  BY <1>11 DEF Loop, device, worker, voiceCounts, callers, quiet, kept, At, Goto, QueueTypes
<1>12. CASE HeldTail
  BY <1>12 DEF HeldTail, device, worker, voiceCounts, callers, quiet, kept, At, Goto, QueueTypes
<1>13. CASE SayAgain
  BY <1>13 DEF SayAgain, device, worker, voiceCounts, callers, quiet, kept, At, Goto, QueueTypes
<1>14. CASE Open
  BY <1>14 DEF Open, device, worker, voiceCounts, callers, quiet, kept, At, Goto, QueueTypes
<1>15. CASE List
  BY <1>15 DEF List, device, worker, voiceCounts, callers, quiet, kept, At, Goto, QueueTypes
<1>16. CASE Chunk
  BY <1>16 DEF Chunk, device, worker, voiceCounts, callers, quiet, kept, At, Goto, QueueTypes
<1>17. CASE Write
  BY <1>17 DEF Write, device, worker, voiceCounts, callers, quiet, kept, At, Goto, QueueTypes
<1>18. CASE StreamEnds
  BY <1>18 DEF StreamEnds, device, worker, voiceCounts, callers, quiet, kept, At, Goto, QueueTypes
<1>19. CASE Said
  BY <1>19 DEF Said, device, worker, voiceCounts, callers, quiet, kept, At, Goto, QueueTypes
<1>20. CASE Idle
  BY <1>20 DEF Idle, device, worker, voiceCounts, callers, quiet, kept, At, Goto, QueueTypes
<1>21. CASE Fail
  BY <1>21, FailKeeps, FailLeads DEF WorkerTypes, QueueTypes
<1>22. CASE Plays
  BY <1>22 DEF Plays, device, worker, voiceCounts, callers, quiet, kept, At, Goto, QueueTypes
<1> QED
  BY <1>1, <1>2, <1>3, <1>4, <1>5, <1>6, <1>7, <1>8, <1>9, <1>10, <1>11, <1>12, <1>13, <1>14, <1>15, <1>16, <1>17, <1>18, <1>19, <1>20, <1>21, <1>22 DEF VoiceNext, WorkerStep

\* A step keeps the types and the bounds of what the callers set.
LEMMA CallerTypesKept ==
  ASSUME CallerTypes, VoiceNext
  PROVE  CallerTypes'
<1> USE Constants
<1>1. CASE Say
  BY <1>1 DEF Say, device, worker, voiceCounts, callers, quiet, kept, At, Goto, CallerTypes
<1>2. CASE Put
  BY <1>2 DEF Put, device, worker, voiceCounts, callers, quiet, kept, At, Goto, CallerTypes
<1>3. CASE Pause
  BY <1>3 DEF Pause, device, worker, voiceCounts, callers, quiet, kept, At, Goto, CallerTypes
<1>4. CASE RecordingShows
  BY <1>4 DEF RecordingShows, device, worker, voiceCounts, callers, quiet, kept, At, Goto, CallerTypes
<1>5. CASE HoldEnds
  BY <1>5 DEF HoldEnds, device, worker, voiceCounts, callers, quiet, kept, At, Goto, CallerTypes
<1>6. CASE Stop
  BY <1>6 DEF Stop, device, worker, voiceCounts, callers, quiet, kept, At, Goto, CallerTypes
<1>7. CASE DropQueued
  BY <1>7 DEF DropQueued, device, worker, voiceCounts, callers, quiet, kept, At, Goto, CallerTypes
<1>8. CASE Close
  BY <1>8 DEF Close, device, worker, voiceCounts, callers, quiet, kept, At, Goto, CallerTypes
<1>9. CASE Get
  BY <1>9 DEF Get, device, worker, voiceCounts, callers, quiet, kept, At, Goto, CallerTypes
<1>10. CASE WaitHeld
  BY <1>10 DEF WaitHeld, device, worker, voiceCounts, callers, quiet, kept, At, Goto, CallerTypes
<1>11. CASE Loop
  BY <1>11 DEF Loop, device, worker, voiceCounts, callers, quiet, kept, At, Goto, CallerTypes
<1>12. CASE HeldTail
  BY <1>12 DEF HeldTail, device, worker, voiceCounts, callers, quiet, kept, At, Goto, CallerTypes
<1>13. CASE SayAgain
  BY <1>13 DEF SayAgain, device, worker, voiceCounts, callers, quiet, kept, At, Goto, CallerTypes
<1>14. CASE Open
  BY <1>14 DEF Open, device, worker, voiceCounts, callers, quiet, kept, At, Goto, CallerTypes
<1>15. CASE List
  BY <1>15 DEF List, device, worker, voiceCounts, callers, quiet, kept, At, Goto, CallerTypes
<1>16. CASE Chunk
  BY <1>16 DEF Chunk, device, worker, voiceCounts, callers, quiet, kept, At, Goto, CallerTypes
<1>17. CASE Write
  BY <1>17 DEF Write, device, worker, voiceCounts, callers, quiet, kept, At, Goto, CallerTypes
<1>18. CASE StreamEnds
  BY <1>18 DEF StreamEnds, device, worker, voiceCounts, callers, quiet, kept, At, Goto, CallerTypes
<1>19. CASE Said
  BY <1>19 DEF Said, device, worker, voiceCounts, callers, quiet, kept, At, Goto, CallerTypes
<1>20. CASE Idle
  BY <1>20 DEF Idle, device, worker, voiceCounts, callers, quiet, kept, At, Goto, CallerTypes
<1>21. CASE Fail
  <2>1. /\ UNCHANGED <<platform, hold, spc, holds, stops>>
        /\ failures < MaxFailures /\ failures' = failures + 1
    BY <1>21, FailKeeps
  <2> QED BY <2>1, Constants DEF CallerTypes
<1>22. CASE Plays
  BY <1>22 DEF Plays, device, worker, voiceCounts, callers, quiet, kept, At, Goto, CallerTypes
<1> QED
  BY <1>1, <1>2, <1>3, <1>4, <1>5, <1>6, <1>7, <1>8, <1>9, <1>10, <1>11, <1>12, <1>13, <1>14, <1>15, <1>16, <1>17, <1>18, <1>19, <1>20, <1>21, <1>22 DEF VoiceNext, WorkerStep

\* A step keeps the flags Boolean.
LEMMA FlagsKept ==
  ASSUME Flags, VoiceNext
  PROVE  Flags'
<1> USE Zenon
<1>1. CASE Say
  BY <1>1 DEF Say, device, worker, voiceCounts, callers, quiet, kept, At, Goto, Flags
<1>2. CASE Put
  BY <1>2 DEF Put, device, worker, voiceCounts, callers, quiet, kept, At, Goto, Flags
<1>3. CASE Pause
  BY <1>3 DEF Pause, device, worker, voiceCounts, callers, quiet, kept, At, Goto, Flags, CutForHold, Leaves, LetGo, Notice, Over, Unlist
<1>4. CASE RecordingShows
  BY <1>4 DEF RecordingShows, device, worker, voiceCounts, callers, quiet, kept, At, Goto, Flags
<1>5. CASE HoldEnds
  BY <1>5 DEF HoldEnds, device, worker, voiceCounts, callers, quiet, kept, At, Goto, Flags
<1>6. CASE Stop
  BY <1>6 DEF Stop, device, worker, voiceCounts, callers, quiet, kept, At, Goto, Flags, Forget
<1>7. CASE DropQueued
  BY <1>7 DEF DropQueued, device, worker, voiceCounts, callers, quiet, kept, At, Goto, Flags
<1>8. CASE Close
  BY <1>8 DEF Close, device, worker, voiceCounts, callers, quiet, kept, At, Goto, Flags
<1>9. CASE Get
  BY <1>9 DEF Get, device, worker, voiceCounts, callers, quiet, kept, At, Goto, Flags
<1>10. CASE WaitHeld
  BY <1>10 DEF WaitHeld, device, worker, voiceCounts, callers, quiet, kept, At, Goto, Flags, CutForHold, Leaves, LetGo, Notice, Over, Unlist
<1>11. CASE Loop
  BY <1>11 DEF Loop, device, worker, voiceCounts, callers, quiet, kept, At, Goto, Flags, TakeReplay
<1>12. CASE HeldTail
  BY <1>12 DEF HeldTail, device, worker, voiceCounts, callers, quiet, kept, At, Goto, Flags, TakeReplay
<1>13. CASE SayAgain
  BY <1>13 DEF SayAgain, device, worker, voiceCounts, callers, quiet, kept, At, Goto, Flags
<1>14. CASE Open
  BY <1>14 DEF Open, device, worker, voiceCounts, callers, quiet, kept, At, Goto, Flags, Over
<1>15. CASE List
  BY <1>15 DEF List, device, worker, voiceCounts, callers, quiet, kept, At, Goto, Flags
<1>16. CASE Chunk
  BY <1>16 DEF Chunk, device, worker, voiceCounts, callers, quiet, kept, At, Goto, Flags, CutForHold, Leaves, LetGo, Notice, Over, Unlist
<1>17. CASE Write
  BY <1>17 DEF Write, device, worker, voiceCounts, callers, quiet, kept, At, Goto, Flags
<1>18. CASE StreamEnds
  BY <1>18 DEF StreamEnds, device, worker, voiceCounts, callers, quiet, kept, At, Goto, Flags, CutForHold, Leaves, LetGo, Notice, Over, Unlist
<1>19. CASE Said
  BY <1>19 DEF Said, device, worker, voiceCounts, callers, quiet, kept, At, Goto, Flags
<1>20. CASE Idle
  BY <1>20 DEF Idle, device, worker, voiceCounts, callers, quiet, kept, At, Goto, Flags, CutForHold, Leaves, LetGo, Notice, Over, Unlist
<1>21. CASE Fail
  <2>1. gone' = gone /\ output' = output
    BY <1>21, FailKeeps
  <2>2. usable' = usable
    BY <1>21 DEF Fail
  <2>3. noticed' = FALSE
    BY <1>21, Zenon DEF Fail, RequestFails, OutputFails, WriteFails, Drops, Goto
  <2> QED BY <2>1, <2>2, <2>3 DEF Flags
<1>22. CASE Plays
  BY <1>22 DEF Plays, device, worker, voiceCounts, callers, quiet, kept, At, Goto, Flags
<1> QED
  BY <1>1, <1>2, <1>3, <1>4, <1>5, <1>6, <1>7, <1>8, <1>9, <1>10, <1>11, <1>12, <1>13, <1>14, <1>15, <1>16, <1>17, <1>18, <1>19, <1>20, <1>21, <1>22 DEF VoiceNext, WorkerStep

\* A cut puts only pieces on the replay list.
LEMMA CutTypes ==
  ASSUME PieceTypes, DeviceTypes, CutForHold
  PROVE  replay' \subseteq PieceIds
BY CutStep, CutIsUnheard DEF PieceTypes

\* A step keeps the sets of pieces sets of pieces.
LEMMA PieceTypesKept ==
  ASSUME PieceTypes, DeviceTypes, WorkerTypes, Where, VoiceNext
  PROVE  PieceTypes'
<1>1. CASE Say
  BY <1>1 DEF Say, device, worker, voiceCounts, callers, quiet, kept, At, Goto, PieceTypes
<1>2. CASE Put
  BY <1>2 DEF Put, device, worker, voiceCounts, callers, quiet, kept, At, Goto, PieceTypes
<1>3. CASE Pause
  BY <1>3, CutTypes DEF PieceTypes, Pause, quiet, kept
<1>4. CASE RecordingShows
  BY <1>4 DEF RecordingShows, device, worker, voiceCounts, callers, quiet, kept, At, Goto, PieceTypes
<1>5. CASE HoldEnds
  BY <1>5 DEF HoldEnds, device, worker, voiceCounts, callers, quiet, kept, At, Goto, PieceTypes
<1>6. CASE Stop
  BY <1>6 DEF Stop, device, worker, voiceCounts, callers, quiet, kept, At, Goto, PieceTypes, Forget
<1>7. CASE DropQueued
  BY <1>7 DEF DropQueued, device, worker, voiceCounts, callers, quiet, kept, At, Goto, PieceTypes
<1>8. CASE Close
  BY <1>8 DEF Close, device, worker, voiceCounts, callers, quiet, kept, At, Goto, PieceTypes
<1>9. CASE Get
  BY <1>9 DEF Get, device, worker, voiceCounts, callers, quiet, kept, At, Goto, PieceTypes
<1>10. CASE WaitHeld
  BY <1>10, CutTypes DEF PieceTypes, WaitHeld, quiet, kept, Notice
<1>11. CASE Loop
  BY <1>11 DEF Loop, device, worker, voiceCounts, callers, quiet, kept, At, Goto, PieceTypes, TakeReplay
<1>12. CASE HeldTail
  BY <1>12 DEF HeldTail, device, worker, voiceCounts, callers, quiet, kept, At, Goto, PieceTypes, TakeReplay
<1>13. CASE SayAgain
  BY <1>13 DEF SayAgain, device, worker, voiceCounts, callers, quiet, kept, At, Goto, PieceTypes
<1>14. CASE Open
  BY <1>14 DEF Open, device, worker, voiceCounts, callers, quiet, kept, At, Goto, PieceTypes
<1>15. CASE List
  BY <1>15 DEF List, device, worker, voiceCounts, callers, quiet, kept, At, Goto, PieceTypes
<1>16. CASE Chunk
  <2>1. heard' = heard /\ lost' = lost /\ unnoticed' = unnoticed /\ (replay' = replay \/ CutForHold)
    BY <1>16 DEF Chunk, quiet, kept
  <2> QED BY <2>1, CutTypes DEF PieceTypes
<1>17. CASE Write
  <2>1. UNCHANGED <<heard, replay, unnoticed>> /\ lost' \subseteq lost \cup {cur} /\ wpc = "writing"
    BY <1>17 DEF Write, At, quiet, kept
  <2>2. cur \in PieceIds
    BY <2>1 DEF Where, InPiece, Speaking, WorkerTypes
  <2> QED BY <2>1, <2>2 DEF PieceTypes
<1>18. CASE StreamEnds
  <2>1. heard' = heard /\ lost' = lost /\ unnoticed' = unnoticed /\ (replay' = replay \/ CutForHold)
    BY <1>18 DEF StreamEnds, quiet, kept
  <2> QED BY <2>1, CutTypes DEF PieceTypes
<1>19. CASE Said
  BY <1>19 DEF Said, device, worker, voiceCounts, callers, quiet, kept, At, Goto, PieceTypes
<1>20. CASE Idle
  <2>1. heard' = heard /\ lost' = lost /\ unnoticed' = unnoticed /\ (replay' = replay \/ CutForHold)
    BY <1>20 DEF Idle, Leaves, quiet, kept
  <2> QED BY <2>1, CutTypes DEF PieceTypes
<1>21. CASE Fail
  <2>1. cur \in PieceIds
    BY <1>21, FailKeeps, FailLeads DEF Where, InPiece, Speaking, WorkerTypes
  <2>2. heard' = heard /\ replay' = replay /\ unnoticed' = unnoticed
    BY <1>21, FailKeeps
  <2>3. PICK next : Drops(next)
    BY <1>21, Zenon DEF Fail, RequestFails, OutputFails, WriteFails
  <2>4. lost' \subseteq lost \cup {cur} \cup PieceIds
    BY <2>3 DEF Drops
  <2> QED BY <2>1, <2>2, <2>4 DEF PieceTypes
<1>22. CASE Plays
  <2>1. Head(audio) \in Sounds
    BY <1>22 DEF Plays, DeviceTypes
  <2>2. heard' \subseteq heard \cup {Head(audio).piece} /\ replay' = replay /\ lost' = lost /\ unnoticed' = unnoticed
    BY <1>22 DEF Plays, quiet, kept
  <2> QED BY <2>1, <2>2 DEF PieceTypes, Sounds
<1> QED
  BY <1>1, <1>2, <1>3, <1>4, <1>5, <1>6, <1>7, <1>8, <1>9, <1>10, <1>11, <1>12, <1>13, <1>14, <1>15, <1>16, <1>17, <1>18, <1>19, <1>20, <1>21, <1>22 DEF VoiceNext, WorkerStep

\* A step keeps the types of what the device plays and of what is listed.
LEMMA DeviceTypesKept ==
  ASSUME DeviceTypes, WorkerTypes, Where, VoiceNext
  PROVE  DeviceTypes'
<1>1. CASE Say
  BY <1>1 DEF Say, device, worker, voiceCounts, callers, quiet, kept, At, Goto, DeviceTypes
<1>2. CASE Put
  BY <1>2 DEF Put, device, worker, voiceCounts, callers, quiet, kept, At, Goto, DeviceTypes
<1>3. CASE Pause
  <2>1. CutForHold
    BY <1>3 DEF Pause
  <2>2. ASSUME CutForHold PROVE inDevice' \subseteq Entries /\ audio' \in Seq(Sounds)
    BY <2>2, CutStep
  <2> QED BY <2>1, <2>2 DEF DeviceTypes
<1>4. CASE RecordingShows
  BY <1>4 DEF RecordingShows, device, worker, voiceCounts, callers, quiet, kept, At, Goto, DeviceTypes
<1>5. CASE HoldEnds
  BY <1>5 DEF HoldEnds, device, worker, voiceCounts, callers, quiet, kept, At, Goto, DeviceTypes
<1>6. CASE Stop
  BY <1>6 DEF Stop, device, worker, voiceCounts, callers, quiet, kept, At, Goto, DeviceTypes, Forget
<1>7. CASE DropQueued
  BY <1>7 DEF DropQueued, device, worker, voiceCounts, callers, quiet, kept, At, Goto, DeviceTypes
<1>8. CASE Close
  BY <1>8 DEF Close, device, worker, voiceCounts, callers, quiet, kept, At, Goto, DeviceTypes
<1>9. CASE Get
  <2>1. (inDevice' = inDevice /\ audio' = audio) \/ (inDevice' = inDevice /\ audio' = <<>>)
    BY <1>9 DEF Get, device
  <2> QED BY <2>1, NothingSounds, Zenon DEF DeviceTypes
<1>10. CASE WaitHeld
  <2>1. CutForHold
    BY <1>10 DEF WaitHeld, Notice
  <2>2. ASSUME CutForHold PROVE inDevice' \subseteq Entries /\ audio' \in Seq(Sounds)
    BY <2>2, CutStep
  <2> QED BY <2>1, <2>2 DEF DeviceTypes
<1>11. CASE Loop
  BY <1>11 DEF Loop, device, worker, voiceCounts, callers, quiet, kept, At, Goto, DeviceTypes
<1>12. CASE HeldTail
  BY <1>12 DEF HeldTail, device, worker, voiceCounts, callers, quiet, kept, At, Goto, DeviceTypes
<1>13. CASE SayAgain
  BY <1>13 DEF SayAgain, device, worker, voiceCounts, callers, quiet, kept, At, Goto, DeviceTypes
<1>14. CASE Open
  BY <1>14 DEF Open, device, worker, voiceCounts, callers, quiet, kept, At, Goto, DeviceTypes
<1>15. CASE List
  <2>1. cur \in PieceIds
    BY <1>15 DEF List, At, Where, InPiece, Speaking, WorkerTypes
  <2>2. inDevice' \subseteq Entries
    BY <1>15, <2>1, ListStep DEF List
  <2> QED BY <1>15, <2>2 DEF List, DeviceTypes
<1>16. CASE Chunk
  <2>1. CutForHold \/ (inDevice' = inDevice /\ audio' = audio) \/ (inDevice' = {e \in inDevice : e.piece # cur} /\ audio' = audio)
    BY <1>16 DEF Chunk, Unlist, device
  <2>2. ASSUME CutForHold PROVE inDevice' \subseteq Entries /\ audio' \in Seq(Sounds)
    BY <2>2, CutStep
  <2> QED BY <2>1, <2>2, UnlistStep DEF DeviceTypes
<1>17. CASE Write
  <2>1. cur \in PieceIds
    BY <1>17 DEF Write, At, Where, InPiece, Speaking, WorkerTypes
  <2> DEFINE new == [piece |-> cur, whole |-> Listed(cur)]
  <2>2. new \in Sounds
    <3>1. Listed(cur) \in BOOLEAN
      BY DEF Listed
    <3> QED BY <2>1, <3>1 DEF Sounds
  <2>3. inDevice' = inDevice /\ (audio' = audio \/ audio' = Append(audio, new))
    BY <1>17 DEF Write
  <2> HIDE DEF new
  <2>4. Append(audio, new) \in Seq(Sounds)
    BY <2>2 DEF DeviceTypes
  <2> QED BY <2>3, <2>4, Zenon DEF DeviceTypes
<1>18. CASE StreamEnds
  <2>1. CutForHold \/ (inDevice' = Complete /\ audio' = audio) \/ (inDevice' = {e \in inDevice : e.piece # cur} /\ audio' = audio)
    BY <1>18 DEF StreamEnds, Unlist
  <2>2. ASSUME CutForHold PROVE inDevice' \subseteq Entries /\ audio' \in Seq(Sounds)
    BY <2>2, CutStep
  <2> QED BY <2>1, <2>2, UnlistStep, CompleteStep DEF DeviceTypes
<1>19. CASE Said
  BY <1>19 DEF Said, device, worker, voiceCounts, callers, quiet, kept, At, Goto, DeviceTypes
<1>20. CASE Idle
  <2>1. CutForHold \/ (inDevice' = inDevice /\ audio' = audio) \/ (inDevice' = inDevice /\ audio' = <<>>)
    BY <1>20 DEF Idle, Leaves, LetGo, device
  <2>2. ASSUME CutForHold PROVE inDevice' \subseteq Entries /\ audio' = <<>>
    BY <2>2, CutStep
  <2>3. inDevice' \subseteq Entries /\ (audio' = audio \/ audio' = <<>>)
    BY <2>1, <2>2 DEF DeviceTypes
  <2> QED BY <2>3, NothingSounds, Zenon DEF DeviceTypes
<1>21. CASE Fail
  <2>1. inDevice' = {e \in inDevice : e.piece # cur} /\ audio' = audio
    BY <1>21, FailKeeps, FailLeads DEF WorkerTypes
  <2> QED BY <2>1, UnlistStep DEF DeviceTypes
<1>22. CASE Plays
  BY <1>22 DEF Plays, device, worker, voiceCounts, callers, quiet, kept, At, Goto, DeviceTypes
<1> QED
  BY <1>1, <1>2, <1>3, <1>4, <1>5, <1>6, <1>7, <1>8, <1>9, <1>10, <1>11, <1>12, <1>13, <1>14, <1>15, <1>16, <1>17, <1>18, <1>19, <1>20, <1>21, <1>22 DEF VoiceNext, WorkerStep

\* Where a piece leads.
LEMMA OverTypes ==
  ASSUME NEW stopped \in BOOLEAN, WorkerTypes, Over(stopped), UNCHANGED <<item, cur, back>>
  PROVE  WorkerTypes'
<1>1. wpc' \in Places /\ back' \in {"", "loop", "tail"}
  BY DEF WorkerTypes, Over, Goto, Places
<1>2. index' \in 0..Pieces
  <2>1. index' = index \/ (index # Pieces /\ index' = index + 1)
    BY DEF Over
  <2> QED BY <2>1, WorkerNumbers, Constants
<1> QED BY <1>1, <1>2 DEF WorkerTypes

\* A step keeps the types of what the worker holds.
LEMMA WorkerTypesKept ==
  ASSUME QueueTypes, PieceTypes, WorkerTypes, Where, VoiceNext
  PROVE  WorkerTypes'
<1>1. CASE Say
  <2>1. UNCHANGED <<item, index, cur, back, wpc>>
    BY <1>1 DEF Say, device, worker, voiceCounts, callers, quiet, kept
  <2> QED BY <2>1 DEF WorkerTypes
<1>2. CASE Put
  <2>1. UNCHANGED <<item, index, cur, back, wpc>>
    BY <1>2 DEF Put, device, worker, voiceCounts, callers, quiet, kept
  <2> QED BY <2>1 DEF WorkerTypes
<1>3. CASE Pause
  <2>1. UNCHANGED <<item, index, cur, back, wpc>>
    BY <1>3 DEF Pause, device, worker, voiceCounts, callers, quiet, kept
  <2> QED BY <2>1 DEF WorkerTypes
<1>4. CASE RecordingShows
  <2>1. UNCHANGED <<item, index, cur, back, wpc>>
    BY <1>4 DEF RecordingShows, device, worker, voiceCounts, callers, quiet, kept
  <2> QED BY <2>1 DEF WorkerTypes
<1>5. CASE HoldEnds
  <2>1. UNCHANGED <<item, index, cur, back, wpc>>
    BY <1>5 DEF HoldEnds, device, worker, voiceCounts, callers, quiet, kept
  <2> QED BY <2>1 DEF WorkerTypes
<1>6. CASE Stop
  <2>1. UNCHANGED <<item, index, cur, back, wpc>>
    BY <1>6 DEF Stop, device, worker, voiceCounts, callers, quiet, kept
  <2> QED BY <2>1 DEF WorkerTypes
<1>7. CASE DropQueued
  <2>1. UNCHANGED <<item, index, cur, back, wpc>>
    BY <1>7 DEF DropQueued, device, worker, voiceCounts, callers, quiet, kept
  <2> QED BY <2>1 DEF WorkerTypes
<1>8. CASE Close
  <2>1. UNCHANGED <<item, index, cur, back, wpc>>
    BY <1>8 DEF Close, device, worker, voiceCounts, callers, quiet, kept
  <2> QED BY <2>1 DEF WorkerTypes
<1>9. CASE Get
  <2>1. wpc' \in Places /\ cur' = cur /\ back' = back
    BY <1>9 DEF Get, At, Goto, Places
  <2>2. (item' = item \/ (item' = Head(lines) /\ lines # <<>>)) /\ (index' = index \/ index' = 1)
    BY <1>9 DEF Get
  <2>3. item' \in 0..MaxLines
    BY <2>2, WorkerNumbers, NextLine
  <2>4. index' \in 0..Pieces
    BY <2>2, WorkerNumbers, Constants
  <2> QED BY <2>1, <2>3, <2>4 DEF WorkerTypes
<1>10. CASE WaitHeld
  <2>1. UNCHANGED <<item, index, cur, back, wpc>>
    BY <1>10 DEF WaitHeld, device, worker, voiceCounts, callers, quiet, kept
  <2> QED BY <2>1 DEF WorkerTypes
<1>11. CASE Loop
  <2>1. item' = item /\ index' = index
    BY <1>11 DEF Loop
  <2>2. wpc' \in Places /\ back' \in {"", "loop", "tail"}
    BY <1>11 DEF Loop, TakeReplay, Goto, Places, WorkerTypes
  <2>3. cur' \in PieceIds \cup {0}
    <3>1. cur' = cur \/ (replay # {} /\ cur' = Min(replay)) \/ cur' = PieceOf(item, index)
      BY <1>11 DEF Loop, TakeReplay
    <3>2. item \in Lines /\ index \in 1..Pieces
      <4>1. item # 0 /\ index \in 1..Pieces
        BY <1>11 DEF Loop, At, Where
      <4> QED BY <4>1, WorkerNumbers, Constants
    <3> QED BY <3>1, <3>2, FirstOfReplay, PiecesOfLine DEF WorkerTypes
  <2> QED BY <2>1, <2>2, <2>3 DEF WorkerTypes
<1>12. CASE HeldTail
  <2>1. item' = item /\ index' = index
    BY <1>12 DEF HeldTail
  <2>2. wpc' \in Places /\ back' \in {"", "loop", "tail"}
    BY <1>12 DEF HeldTail, TakeReplay, Goto, Places, WorkerTypes
  <2>3. cur' \in PieceIds \cup {0}
    <3>1. cur' = cur \/ (replay # {} /\ cur' = Min(replay)) \/ cur' = 0
      BY <1>12 DEF HeldTail, TakeReplay
    <3> QED BY <3>1, FirstOfReplay DEF WorkerTypes
  <2> QED BY <2>1, <2>2, <2>3 DEF WorkerTypes
<1>13. CASE SayAgain
  <2>1. UNCHANGED <<item, index, cur, back>> /\ wpc' \in {"open", back} /\ back # ""
    BY <1>13 DEF SayAgain, Goto, At, Where
  <2> QED BY <2>1 DEF WorkerTypes, Places
<1>14. CASE Open
  <2>1. UNCHANGED <<item, cur, back>> /\ (Over(TRUE) \/ Over(FALSE) \/ (wpc' = "opened" /\ index' = index))
    BY <1>14 DEF Open, Goto
  <2>2. Over(TRUE) => WorkerTypes'
    BY <2>1, OverTypes
  <2>3. Over(FALSE) => WorkerTypes'
    BY <2>1, OverTypes
  <2> QED BY <2>1, <2>2, <2>3 DEF WorkerTypes, Places
<1>15. CASE List
  <2>1. UNCHANGED <<item, index, cur, back>> /\ wpc' \in {"streaming"}
    BY <1>15 DEF List, Goto
  <2> QED BY <2>1 DEF WorkerTypes, Places
<1>16. CASE Chunk
  <2>1. UNCHANGED <<item, cur, back>> /\ (Over(TRUE) \/ Over(FALSE) \/ (wpc' = "writing" /\ index' = index))
    BY <1>16 DEF Chunk, Goto
  <2>2. Over(TRUE) => WorkerTypes'
    BY <2>1, OverTypes
  <2>3. Over(FALSE) => WorkerTypes'
    BY <2>1, OverTypes
  <2> QED BY <2>1, <2>2, <2>3 DEF WorkerTypes, Places
<1>17. CASE Write
  <2>1. UNCHANGED <<item, index, cur, back>> /\ wpc' \in {"ending"}
    BY <1>17 DEF Write, Goto
  <2> QED BY <2>1 DEF WorkerTypes, Places
<1>18. CASE StreamEnds
  <2>1. UNCHANGED <<item, cur, back>> /\ (Over(TRUE) \/ Over(FALSE) \/ (wpc' = "said" /\ index' = index))
    BY <1>18 DEF StreamEnds, Goto
  <2>2. Over(TRUE) => WorkerTypes'
    BY <2>1, OverTypes
  <2>3. Over(FALSE) => WorkerTypes'
    BY <2>1, OverTypes
  <2> QED BY <2>1, <2>2, <2>3 DEF WorkerTypes, Places
<1>19. CASE Said
  <2>1. wpc' \in {"idle", "get"} /\ back' = ""
    BY <1>19 DEF Said, Goto
  <2>2. item' = 0 /\ index' = 0 /\ cur' = 0
    BY <1>19 DEF Said
  <2>3. item' \in 0..MaxLines /\ index' \in 0..Pieces /\ cur' \in PieceIds \cup {0}
    BY <2>2, Constants
  <2> QED BY <2>1, <2>3 DEF WorkerTypes, Places
<1>20. CASE Idle
  <2>1. UNCHANGED <<item, index, cur, back>> /\ wpc' \in {"get", "tail"}
    BY <1>20 DEF Idle, Goto
  <2> QED BY <2>1 DEF WorkerTypes, Places
<1>21. CASE Fail
  <2>1. UNCHANGED <<item, index, cur, back>> /\ wpc' \in {"said", "loop", "idle", "tail", "dead"}
    BY <1>21, FailKeeps, FailLeads DEF WorkerTypes
  <2> QED BY <2>1 DEF WorkerTypes, Places
<1>22. CASE Plays
  <2>1. UNCHANGED <<item, index, cur, back, wpc>>
    BY <1>22 DEF Plays, device, worker, voiceCounts, callers, quiet, kept
  <2> QED BY <2>1 DEF WorkerTypes
<1> QED
  BY <1>1, <1>2, <1>3, <1>4, <1>5, <1>6, <1>7, <1>8, <1>9, <1>10, <1>11, <1>12, <1>13, <1>14, <1>15, <1>16, <1>17, <1>18, <1>19, <1>20, <1>21, <1>22 DEF VoiceNext, WorkerStep

\* A step keeps what is valid a last part of the lines asked for.
LEMMA SuffixKept ==
  ASSUME QueueTypes, Suffix, VoiceNext
  PROVE  Suffix'
<1>1. CASE Say
  <2>1. asked' = asked + 1 /\ valid' = valid \cup {asked'} /\ asked \in Nat /\ valid \subseteq 1..asked
    BY <1>1 DEF Say, QueueTypes
  <2> QED BY <2>1 DEF Suffix
<1>2. CASE Put
  <2>1. UNCHANGED <<asked, valid>>
    BY <1>2 DEF Put, device, worker, voiceCounts, callers, quiet, kept
  <2> QED BY <2>1 DEF Suffix
<1>3. CASE Pause
  <2>1. UNCHANGED <<asked, valid>>
    BY <1>3 DEF Pause, device, worker, voiceCounts, callers, quiet, kept
  <2> QED BY <2>1 DEF Suffix
<1>4. CASE RecordingShows
  <2>1. UNCHANGED <<asked, valid>>
    BY <1>4 DEF RecordingShows, device, worker, voiceCounts, callers, quiet, kept
  <2> QED BY <2>1 DEF Suffix
<1>5. CASE HoldEnds
  <2>1. UNCHANGED <<asked, valid>>
    BY <1>5 DEF HoldEnds, device, worker, voiceCounts, callers, quiet, kept
  <2> QED BY <2>1 DEF Suffix
<1>6. CASE Stop
  <2>1. valid' = {}
    BY <1>6 DEF Stop, Forget
  <2> QED BY <2>1 DEF Suffix
<1>7. CASE DropQueued
  <2>1. UNCHANGED <<asked, valid>>
    BY <1>7 DEF DropQueued, device, worker, voiceCounts, callers, quiet, kept
  <2> QED BY <2>1 DEF Suffix
<1>8. CASE Close
  <2>1. UNCHANGED <<asked, valid>>
    BY <1>8 DEF Close, device, worker, voiceCounts, callers, quiet, kept
  <2> QED BY <2>1 DEF Suffix
<1>9. CASE Get
  <2>1. UNCHANGED <<asked, valid>>
    BY <1>9 DEF Get, device, worker, voiceCounts, callers, quiet, kept
  <2> QED BY <2>1 DEF Suffix
<1>10. CASE WaitHeld
  <2>1. UNCHANGED <<asked, valid>>
    BY <1>10 DEF WaitHeld, device, worker, voiceCounts, callers, quiet, kept
  <2> QED BY <2>1 DEF Suffix
<1>11. CASE Loop
  <2>1. UNCHANGED <<asked, valid>>
    BY <1>11 DEF Loop, device, worker, voiceCounts, callers, quiet, kept
  <2> QED BY <2>1 DEF Suffix
<1>12. CASE HeldTail
  <2>1. UNCHANGED <<asked, valid>>
    BY <1>12 DEF HeldTail, device, worker, voiceCounts, callers, quiet, kept
  <2> QED BY <2>1 DEF Suffix
<1>13. CASE SayAgain
  <2>1. UNCHANGED <<asked, valid>>
    BY <1>13 DEF SayAgain, device, worker, voiceCounts, callers, quiet, kept
  <2> QED BY <2>1 DEF Suffix
<1>14. CASE Open
  <2>1. UNCHANGED <<asked, valid>>
    BY <1>14 DEF Open, device, worker, voiceCounts, callers, quiet, kept
  <2> QED BY <2>1 DEF Suffix
<1>15. CASE List
  <2>1. UNCHANGED <<asked, valid>>
    BY <1>15 DEF List, device, worker, voiceCounts, callers, quiet, kept
  <2> QED BY <2>1 DEF Suffix
<1>16. CASE Chunk
  <2>1. UNCHANGED <<asked, valid>>
    BY <1>16 DEF Chunk, device, worker, voiceCounts, callers, quiet, kept
  <2> QED BY <2>1 DEF Suffix
<1>17. CASE Write
  <2>1. UNCHANGED <<asked, valid>>
    BY <1>17 DEF Write, device, worker, voiceCounts, callers, quiet, kept
  <2> QED BY <2>1 DEF Suffix
<1>18. CASE StreamEnds
  <2>1. UNCHANGED <<asked, valid>>
    BY <1>18 DEF StreamEnds, device, worker, voiceCounts, callers, quiet, kept
  <2> QED BY <2>1 DEF Suffix
<1>19. CASE Said
  <2>1. UNCHANGED <<asked, valid>>
    BY <1>19 DEF Said, device, worker, voiceCounts, callers, quiet, kept
  <2> QED BY <2>1 DEF Suffix
<1>20. CASE Idle
  <2>1. UNCHANGED <<asked, valid>>
    BY <1>20 DEF Idle, device, worker, voiceCounts, callers, quiet, kept
  <2> QED BY <2>1 DEF Suffix
<1>21. CASE Fail
  <2>1. UNCHANGED <<asked, valid>>
    BY <1>21, FailKeeps, FailLeads DEF WorkerTypes
  <2> QED BY <2>1 DEF Suffix
<1>22. CASE Plays
  <2>1. UNCHANGED <<asked, valid>>
    BY <1>22 DEF Plays, device, worker, voiceCounts, callers, quiet, kept
  <2> QED BY <2>1 DEF Suffix
<1> QED
  BY <1>1, <1>2, <1>3, <1>4, <1>5, <1>6, <1>7, <1>8, <1>9, <1>10, <1>11, <1>12, <1>13, <1>14, <1>15, <1>16, <1>17, <1>18, <1>19, <1>20, <1>21, <1>22 DEF VoiceNext, WorkerStep

\* A step keeps the queue in the order of asking.
LEMMA QueueKept ==
  ASSUME QueueTypes, WorkerTypes, Where, Queue, VoiceNext
  PROVE  Queue'
<1>1. CASE Say
  <2>1. asked' = asked + 1 /\ putting = 0 /\ putting' = asked' /\ asked \in Nat /\ item \in Nat /\ item' = item /\ lines' = lines
        /\ gone' = gone
    BY <1>1, WorkerNumbers DEF Say, QueueTypes, worker
  <2>2. \A i \in 1..Len(lines) : lines[i] \in Nat
    BY QueueNumbers
  <2> QED BY <2>1, <2>2, Constants DEF Queue
<1>2. CASE Put
  <2>1. /\ putting' = 0 /\ putting # 0 /\ asked' = asked /\ item' = item /\ gone' = gone
        /\ putting = asked /\ asked \in Nat /\ item \in Nat
    BY <1>2, WorkerNumbers DEF Put, QueueTypes, worker, Queue
  <2>2. CASE gone
    <3>1. lines' = lines
      BY <1>2, <2>2 DEF Put
    <3> QED BY <2>1, <3>1 DEF Queue
  <2>3. CASE ~gone
    <3>1. lines' = Append(lines, putting) /\ lines \in Seq(0..MaxLines)
      BY <1>2, <2>3 DEF Put, QueueTypes
    <3>2. /\ Len(lines) \in Nat /\ Len(lines') = Len(lines) + 1 /\ lines'[Len(lines) + 1] = putting
          /\ \A i \in 1..Len(lines) : lines'[i] = lines[i]
      BY <3>1
    <3>3. \A i \in 1..Len(lines) : lines[i] \in Nat /\ lines[i] # 0 /\ lines[i] < putting /\ lines[i] > item /\ lines[i] <= asked
      BY <2>1, <2>3, <3>1, Constants DEF Queue
    <3>4. \A i, j \in 1..Len(lines) : i < j => lines[i] < lines[j]
      BY <3>3 DEF Queue
    <3>5. item < putting /\ item <= asked
      BY <2>1 DEF Queue
    <3>6. \A i \in 1..Len(lines') : i \in 1..Len(lines) \/ i = Len(lines) + 1
      BY <3>2
    <3>7. \A i, j \in 1..Len(lines') : i < j => lines'[i] < lines'[j]
      BY <3>2, <3>3, <3>4, <3>6
    <3>8. \A i \in 1..Len(lines') : lines'[i] > item /\ lines'[i] <= asked /\ lines'[i] # 0
      BY <2>1, <3>2, <3>3, <3>5, <3>6
    <3> QED BY <2>1, <3>5, <3>7, <3>8 DEF Queue
  <2> QED BY <2>2, <2>3
<1>3. CASE Pause
  <2>1. UNCHANGED <<asked, putting, lines, item, gone>>
    BY <1>3 DEF Pause, device, worker, voiceCounts, callers, quiet, kept
  <2> QED BY <2>1 DEF Queue
<1>4. CASE RecordingShows
  <2>1. UNCHANGED <<asked, putting, lines, item, gone>>
    BY <1>4 DEF RecordingShows, device, worker, voiceCounts, callers, quiet, kept
  <2> QED BY <2>1 DEF Queue
<1>5. CASE HoldEnds
  <2>1. UNCHANGED <<asked, putting, lines, item, gone>>
    BY <1>5 DEF HoldEnds, device, worker, voiceCounts, callers, quiet, kept
  <2> QED BY <2>1 DEF Queue
<1>6. CASE Stop
  <2>1. UNCHANGED <<asked, putting, lines, item, gone>>
    BY <1>6 DEF Stop, device, worker, voiceCounts, callers, quiet, kept
  <2> QED BY <2>1 DEF Queue
<1>7. CASE DropQueued
  <2>1. asked' = asked /\ putting' = putting /\ item' = item /\ gone' = gone
    BY <1>7 DEF DropQueued, worker
  <2>2. CASE \E i \in DOMAIN lines : lines[i] = 0
    <3>1. lines' = <<0>> /\ DOMAIN lines = 1..Len(lines)
      BY <1>7, <2>2 DEF DropQueued, DropQueue, QueueTypes
    <3>2. gone
      BY <2>2, <3>1 DEF Queue
    <3>3. Len(lines') = 1 /\ lines'[1] = 0
      BY <3>1
    <3> QED BY <2>1, <3>2, <3>3 DEF Queue
  <2>3. CASE ~\E i \in DOMAIN lines : lines[i] = 0
    <3>1. lines' = <<>>
      BY <1>7, <2>3 DEF DropQueued, DropQueue
    <3>2. Len(lines') = 0
      BY <3>1
    <3> QED BY <2>1, <3>2 DEF Queue
  <2> QED BY <2>2, <2>3
<1>8. CASE Close
  <2>1. /\ UNCHANGED <<asked, putting, item>> /\ gone' = TRUE /\ lines' = Append(lines, 0) /\ lines \in Seq(0..MaxLines)
    BY <1>8 DEF Close, worker, QueueTypes
  <2>2. /\ Len(lines) \in Nat /\ Len(lines') = Len(lines) + 1 /\ lines'[Len(lines) + 1] = 0
        /\ \A i \in 1..Len(lines) : lines'[i] = lines[i]
    BY <2>1
  <2>3. \A i \in 1..Len(lines') : i \in 1..Len(lines) \/ i = Len(lines) + 1
    BY <2>2
  <2>4. \A i, j \in 1..Len(lines') : i < j /\ lines'[j] # 0 => lines'[i] < lines'[j]
    BY <2>2, <2>3 DEF Queue
  <2>5. \A i \in 1..Len(lines') : lines'[i] # 0 => lines'[i] > item /\ lines'[i] <= asked /\ (putting # 0 => lines'[i] < putting)
    BY <2>2, <2>3 DEF Queue
  <2> QED BY <2>1, <2>4, <2>5 DEF Queue
<1>9. CASE Get
  <2> DEFINE n == Head(lines)
  <2>1. wpc = "get" /\ lines # <<>> /\ lines' = Tail(lines) /\ UNCHANGED <<asked, putting, gone>>
    BY <1>9 DEF Get, At, quiet, kept, callers
  <2>2. item' = item \/ (n # 0 /\ item' = n)
    BY <1>9 DEF Get
  <2>3. item = 0
    BY <2>1 DEF Where
  <2>4. n = lines[1] /\ n \in Nat /\ 1 \in 1..Len(lines) /\ Len(lines) \in Nat
    BY <2>1, NextLine, Constants
  <2>5. \A i \in 1..Len(lines') : i + 1 \in 1..Len(lines) /\ lines'[i] = lines[i + 1]
    BY <2>1, NextLine
  <2>6. Len(lines') \in Nat
    BY <2>1, <2>4, NextLine
  <2> HIDE DEF n
  <2>7. \A i, j \in 1..Len(lines') : i < j /\ lines'[j] # 0 => lines'[i] < lines'[j]
    BY <2>5, <2>6 DEF Queue
  <2>8. \A i \in 1..Len(lines') : lines'[i] # 0 => lines'[i] > n /\ lines'[i] > 0 /\ lines'[i] <= asked /\ (putting # 0 => lines'[i] < putting)
    <3> TAKE i \in 1..Len(lines')
    <3>1. i + 1 \in 1..Len(lines) /\ 1 < i + 1 /\ lines'[i] = lines[i + 1]
      BY <2>5, <2>6
    <3> QED BY <2>3, <2>4, <3>1 DEF Queue
  <2>9. n # 0 => n <= asked /\ (putting # 0 => n < putting)
    BY <2>4 DEF Queue
  <2>10. ~gone => \A i \in 1..Len(lines') : lines'[i] # 0
    BY <2>5 DEF Queue
  <2> QED BY <2>1, <2>2, <2>3, <2>7, <2>8, <2>9, <2>10 DEF Queue
<1>10. CASE WaitHeld
  <2>1. UNCHANGED <<asked, putting, lines, item, gone>>
    BY <1>10 DEF WaitHeld, device, worker, voiceCounts, callers, quiet, kept
  <2> QED BY <2>1 DEF Queue
<1>11. CASE Loop
  <2>1. UNCHANGED <<asked, putting, lines, item, gone>>
    BY <1>11 DEF Loop, device, worker, voiceCounts, callers, quiet, kept
  <2> QED BY <2>1 DEF Queue
<1>12. CASE HeldTail
  <2>1. UNCHANGED <<asked, putting, lines, item, gone>>
    BY <1>12 DEF HeldTail, device, worker, voiceCounts, callers, quiet, kept
  <2> QED BY <2>1 DEF Queue
<1>13. CASE SayAgain
  <2>1. UNCHANGED <<asked, putting, lines, item, gone>>
    BY <1>13 DEF SayAgain, device, worker, voiceCounts, callers, quiet, kept
  <2> QED BY <2>1 DEF Queue
<1>14. CASE Open
  <2>1. UNCHANGED <<asked, putting, lines, item, gone>>
    BY <1>14 DEF Open, device, worker, voiceCounts, callers, quiet, kept
  <2> QED BY <2>1 DEF Queue
<1>15. CASE List
  <2>1. UNCHANGED <<asked, putting, lines, item, gone>>
    BY <1>15 DEF List, device, worker, voiceCounts, callers, quiet, kept
  <2> QED BY <2>1 DEF Queue
<1>16. CASE Chunk
  <2>1. UNCHANGED <<asked, putting, lines, item, gone>>
    BY <1>16 DEF Chunk, device, worker, voiceCounts, callers, quiet, kept
  <2> QED BY <2>1 DEF Queue
<1>17. CASE Write
  <2>1. UNCHANGED <<asked, putting, lines, item, gone>>
    BY <1>17 DEF Write, device, worker, voiceCounts, callers, quiet, kept
  <2> QED BY <2>1 DEF Queue
<1>18. CASE StreamEnds
  <2>1. UNCHANGED <<asked, putting, lines, item, gone>>
    BY <1>18 DEF StreamEnds, device, worker, voiceCounts, callers, quiet, kept
  <2> QED BY <2>1 DEF Queue
<1>19. CASE Said
  <2>0. item \in Nat /\ asked \in Nat /\ putting \in Nat
    BY WorkerNumbers, QueueNumbers, Constants
  <2>1. item' = 0 /\ UNCHANGED <<asked, putting, lines, gone>>
    BY <1>19 DEF Said, quiet, kept, callers
  <2>2. \A i \in 1..Len(lines) : lines[i] \in Nat
    BY QueueNumbers
  <2> QED BY <2>0, <2>1, <2>2 DEF Queue
<1>20. CASE Idle
  <2>1. UNCHANGED <<asked, putting, lines, item, gone>>
    BY <1>20 DEF Idle, device, worker, voiceCounts, callers, quiet, kept
  <2> QED BY <2>1 DEF Queue
<1>21. CASE Fail
  <2>1. UNCHANGED <<asked, putting, lines, item, gone>>
    BY <1>21, FailKeeps, FailLeads DEF WorkerTypes
  <2> QED BY <2>1 DEF Queue
<1>22. CASE Plays
  <2>1. UNCHANGED <<asked, putting, lines, item, gone>>
    BY <1>22 DEF Plays, device, worker, voiceCounts, callers, quiet, kept
  <2> QED BY <2>1 DEF Queue
<1> QED
  BY <1>1, <1>2, <1>3, <1>4, <1>5, <1>6, <1>7, <1>8, <1>9, <1>10, <1>11, <1>12, <1>13, <1>14, <1>15, <1>16, <1>17, <1>18, <1>19, <1>20, <1>21, <1>22 DEF VoiceNext, WorkerStep

\* After a piece the worker goes on where it came from.
LEMMA OverStep ==
  ASSUME WorkerTypes, Where, wpc \in Speaking, NEW stopped \in BOOLEAN, Over(stopped), UNCHANGED <<item, cur, back>>
  PROVE  /\ Where' /\ wpc' \notin InPiece /\ noticed' = FALSE
         /\ \/ back # "" /\ wpc' = back /\ index' = index
            \/ back = "" /\ wpc' = "said" /\ index' = index /\ (stopped \/ index = Pieces)
            \/ back = "" /\ wpc' = "loop" /\ ~stopped /\ index # Pieces /\ index' = index + 1
<1>1. noticed' = FALSE
  BY DEF Over, Goto
<1>2. /\ \/ back # "" /\ wpc' = back /\ index' = index
         \/ back = "" /\ wpc' = "said" /\ index' = index /\ (stopped \/ index = Pieces)
         \/ back = "" /\ wpc' = "loop" /\ ~stopped /\ index # Pieces /\ index' = index + 1
  BY Zenon DEF Over, Goto
<1>3. index \in 0..Pieces
  BY WorkerNumbers
<1>4. back \in {"", "loop", "tail"}
  BY DEF WorkerTypes
<1>5. wpc' \in {"loop", "tail", "said"}
  BY <1>2, <1>4
<1>6. wpc' \notin InPiece /\ wpc' \notin Speaking /\ wpc' # "again"
  BY <1>5 DEF InPiece, Speaking
<1>7. item # 0 => index' \in 1..Pieces
  <2>1. item # 0 => index \in 1..Pieces
    BY DEF Where
  <2>2. index' = index \/ (index # Pieces /\ index' = index + 1)
    BY <1>2
  <2> QED BY <2>1, <2>2, Constants
<1>8. /\ wpc' = "loop" => item # 0
      /\ wpc' \in {"get", "idle", "tail"} => item = 0
  BY <1>2, <1>4 DEF Where, InPiece, Speaking
<1>9. Where'
  BY <1>1, <1>6, <1>7, <1>8 DEF Where
<1> QED BY <1>1, <1>2, <1>6, <1>9

\* A step keeps what the worker holds where it is.
LEMMA WhereKept ==
  ASSUME QueueTypes, PieceTypes, WorkerTypes, Where, VoiceNext
  PROVE  Where'
<1>1. CASE Say
  <2>1. UNCHANGED <<wpc, item, index, cur, back>> /\ noticed' = noticed
    BY <1>1 DEF Say, device, worker, voiceCounts, callers, quiet, kept
  <2> QED BY <2>1 DEF Where, InPiece, Speaking
<1>2. CASE Put
  <2>1. UNCHANGED <<wpc, item, index, cur, back>> /\ noticed' = noticed
    BY <1>2 DEF Put, device, worker, voiceCounts, callers, quiet, kept
  <2> QED BY <2>1 DEF Where, InPiece, Speaking
<1>3. CASE Pause
  <2>1. UNCHANGED <<wpc, item, index, cur, back>> /\ noticed' = noticed
    BY <1>3 DEF Pause, device, worker, voiceCounts, callers, quiet, kept
  <2> QED BY <2>1 DEF Where, InPiece, Speaking
<1>4. CASE RecordingShows
  <2>1. UNCHANGED <<wpc, item, index, cur, back>> /\ noticed' = noticed
    BY <1>4 DEF RecordingShows, device, worker, voiceCounts, callers, quiet, kept
  <2> QED BY <2>1 DEF Where, InPiece, Speaking
<1>5. CASE HoldEnds
  <2>1. UNCHANGED <<wpc, item, index, cur, back>> /\ noticed' = noticed
    BY <1>5 DEF HoldEnds, device, worker, voiceCounts, callers, quiet, kept
  <2> QED BY <2>1 DEF Where, InPiece, Speaking
<1>6. CASE Stop
  <2>1. UNCHANGED <<wpc, item, index, cur, back>> /\ noticed' = noticed
    BY <1>6 DEF Stop, device, worker, voiceCounts, callers, quiet, kept
  <2> QED BY <2>1 DEF Where, InPiece, Speaking
<1>7. CASE DropQueued
  <2>1. UNCHANGED <<wpc, item, index, cur, back>> /\ noticed' = noticed
    BY <1>7 DEF DropQueued, device, worker, voiceCounts, callers, quiet, kept
  <2> QED BY <2>1 DEF Where, InPiece, Speaking
<1>8. CASE Close
  <2>1. UNCHANGED <<wpc, item, index, cur, back>> /\ noticed' = noticed
    BY <1>8 DEF Close, device, worker, voiceCounts, callers, quiet, kept
  <2> QED BY <2>1 DEF Where, InPiece, Speaking
<1>9. CASE Get
  <2>1. wpc = "get" /\ UNCHANGED <<cur, back>> /\ lines # <<>>
    BY <1>9 DEF Get, At
  <2>2. item = 0 /\ ~noticed
    BY <2>1 DEF Where
  <2>3. \/ wpc' \in {"get", "ended"} /\ item' = item /\ ~noticed'
        \/ wpc' = "loop" /\ item' = Head(lines) /\ Head(lines) # 0 /\ index' = 1 /\ ~noticed'
    BY <1>9, <2>1, <2>2, Zenon DEF Get, Goto, At
  <2>4. 1 \in 1..Pieces
    BY Constants
  <2> QED BY <2>1, <2>2, <2>3, <2>4 DEF Where, InPiece, Speaking
<1>10. CASE WaitHeld
  <2>1. UNCHANGED <<wpc, item, index, cur, back>> /\ wpc \in {"loop", "again"}
    BY <1>10 DEF WaitHeld, At
  <2> QED BY <2>1 DEF Where, InPiece, Speaking
<1>11. CASE Loop
  <2>1. wpc = "loop" /\ item # 0 /\ index \in 1..Pieces /\ item' = item /\ index' = index
    BY <1>11 DEF Loop, At, Where
  <2>2. item \in Lines
    BY <2>1, WorkerNumbers, Constants
  <2>3. PieceOf(item, index) \in PieceIds /\ 0 \notin PieceIds
    BY <2>1, <2>2, PiecesOfLine, PieceNumbers
  <2>4. \/ replay # {} /\ wpc' = "again" /\ cur' = Min(replay) /\ back' = "loop" /\ noticed' = FALSE
        \/ wpc' = "loop" /\ noticed' = FALSE
        \/ wpc' = "open" /\ cur' = PieceOf(item, index) /\ back' = "" /\ noticed' = FALSE
        \/ wpc' = "said" /\ noticed' = FALSE
    BY <1>11, Zenon DEF Loop, TakeReplay, Goto
  <2>5. replay # {} => Min(replay) # 0
    BY <2>3, FirstOfReplay
  <2> QED BY <2>1, <2>3, <2>4, <2>5 DEF Where, InPiece, Speaking
<1>12. CASE HeldTail
  <2>1. wpc = "tail" /\ item = 0 /\ item' = item /\ index' = index
    BY <1>12 DEF HeldTail, At, Where
  <2>4. \/ replay # {} /\ wpc' = "again" /\ cur' = Min(replay) /\ back' = "tail" /\ noticed' = FALSE
        \/ wpc' = "tail" /\ noticed' = FALSE
        \/ wpc' = "idle" /\ noticed' = FALSE
    BY <1>12, Zenon DEF HeldTail, TakeReplay, Goto
  <2>5. replay # {} => Min(replay) # 0
    BY FirstOfReplay, PieceNumbers
  <2> QED BY <2>1, <2>4, <2>5 DEF Where, InPiece, Speaking
<1>13. CASE SayAgain
  <2>1. wpc = "again" /\ UNCHANGED <<item, index, cur, back>> /\ wpc' \in {"open", back} /\ noticed' = FALSE
    BY <1>13 DEF SayAgain, At, Goto
  <2>2. back \in {"loop", "tail"}
    BY <2>1 DEF Where, WorkerTypes
  <2> QED BY <2>1, <2>2 DEF Where, InPiece, Speaking
<1>14. CASE Open
  <2>1. wpc = "open" /\ UNCHANGED <<item, cur, back>>
    BY <1>14 DEF Open, At
  <2>2. Over(TRUE) \/ (wpc' = "opened" /\ index' = index /\ noticed' = FALSE)
    BY <1>14, Zenon DEF Open, Goto
  <2>3. CASE Over(TRUE)
    BY <2>1, <2>3, OverStep DEF Speaking
  <2>4. CASE wpc' = "opened" /\ index' = index /\ noticed' = FALSE
    BY <2>1, <2>4 DEF Where, InPiece, Speaking
  <2> QED BY <2>2, <2>3, <2>4
<1>15. CASE List
  <2>1. wpc = "opened" /\ wpc' = "streaming" /\ UNCHANGED <<item, index, cur, back>> /\ noticed' = FALSE
    BY <1>15 DEF List, At, Goto
  <2> QED BY <2>1 DEF Where, InPiece, Speaking
<1>16. CASE Chunk
  <2>1. wpc = "streaming" /\ UNCHANGED <<item, cur, back>>
    BY <1>16 DEF Chunk, At
  <2>2. Over(TRUE) \/ Over(FALSE) \/ (wpc' = "writing" /\ index' = index /\ noticed' = FALSE)
    BY <1>16, Zenon DEF Chunk, Goto
  <2>3. CASE Over(TRUE) \/ Over(FALSE)
    BY <2>1, <2>3, OverStep DEF Speaking
  <2>4. CASE wpc' = "writing" /\ index' = index /\ noticed' = FALSE
    BY <2>1, <2>4 DEF Where, InPiece, Speaking
  <2> QED BY <2>2, <2>3, <2>4
<1>17. CASE Write
  <2>1. wpc = "writing" /\ wpc' = "ending" /\ UNCHANGED <<item, index, cur, back>> /\ noticed' = FALSE
    BY <1>17 DEF Write, At, Goto
  <2> QED BY <2>1 DEF Where, InPiece, Speaking
<1>18. CASE StreamEnds
  <2>1. wpc = "ending" /\ UNCHANGED <<item, cur, back>>
    BY <1>18 DEF StreamEnds, At
  <2>2. Over(TRUE) \/ Over(FALSE)
    BY <1>18, Zenon DEF StreamEnds
  <2> QED BY <2>1, <2>2, OverStep DEF Speaking
<1>19. CASE Said
  <2>1. wpc' \in {"idle", "get"} /\ item' = 0 /\ noticed' = FALSE
    BY <1>19 DEF Said, Goto
  <2> QED BY <2>1 DEF Where, InPiece, Speaking
<1>20. CASE Idle
  <2>1. wpc = "idle" /\ wpc' \in {"get", "tail"} /\ item' = item /\ noticed' = FALSE
    BY <1>20 DEF Idle, At, Goto
  <2>2. item = 0
    BY <2>1 DEF Where
  <2> QED BY <2>1, <2>2 DEF Where, InPiece, Speaking
<1>21. CASE Fail
  <2>1. /\ wpc \in Speaking /\ UNCHANGED <<item, index, back>> /\ noticed' = FALSE
        /\ back = "" => wpc' = "said"
        /\ back = "loop" => wpc' \in {"said", "loop"}
        /\ back = "tail" => wpc' \in {"idle", "tail", "dead"}
        /\ back \in {"", "loop", "tail"}
    BY <1>21, FailLeads DEF WorkerTypes, Speaking
  <2>2. back = "tail" <=> item = 0
    BY <2>1 DEF Where, InPiece
  <2> QED BY <2>1, <2>2 DEF Where, InPiece, Speaking
<1>22. CASE Plays
  <2>1. UNCHANGED <<wpc, item, index, cur, back>> /\ noticed' = noticed
    BY <1>22 DEF Plays, device, worker, voiceCounts, callers, quiet, kept
  <2> QED BY <2>1 DEF Where, InPiece, Speaking
<1> QED
  BY <1>1, <1>2, <1>3, <1>4, <1>5, <1>6, <1>7, <1>8, <1>9, <1>10, <1>11, <1>12, <1>13, <1>14, <1>15, <1>16, <1>17, <1>18, <1>19, <1>20, <1>21, <1>22 DEF VoiceNext, WorkerStep

-----------------------------------------------------------------------------
(* What sounds.                                                             *)

\* The rest of what the device plays, sound by sound.
LEMMA Heard ==
  ASSUME DeviceTypes, audio # <<>>, audio' = Tail(audio)
  PROVE  /\ Head(audio) = audio[1] /\ Head(audio) \in Sounds /\ Len(audio) \in Nat /\ 1 \in 1..Len(audio)
         /\ DOMAIN audio = 1..Len(audio) /\ DOMAIN audio' = 1..Len(audio') /\ Len(audio') = Len(audio) - 1
         /\ \A i \in 1..Len(audio') : i + 1 \in 1..Len(audio) /\ audio'[i] = audio[i + 1]
BY DEF DeviceTypes

\* One more sound in the device, sound by sound.
LEMMA Written ==
  ASSUME DeviceTypes, NEW s \in Sounds, audio' = Append(audio, s)
  PROVE  /\ Len(audio) \in Nat /\ DOMAIN audio = 1..Len(audio) /\ DOMAIN audio' = 1..Len(audio') /\ Len(audio') = Len(audio) + 1
         /\ audio'[Len(audio) + 1] = s
         /\ \A i \in 1..Len(audio) : audio'[i] = audio[i]
BY DEF DeviceTypes

\* What a write gives the device.
LEMMA WriteStep ==
  ASSUME DeviceTypes, WorkerTypes, Where, Write
  PROVE  /\ cur \in PieceIds /\ wpc = "writing" /\ wpc' = "ending"
         /\ [piece |-> cur, whole |-> Listed(cur)] \in Sounds
         /\ ~usable => audio' = audio
         /\ usable => audio' = Append(audio, [piece |-> cur, whole |-> Listed(cur)])
<1>1. wpc = "writing" /\ wpc' = "ending" /\ cur \in PieceIds
  BY DEF Write, At, Goto, Where, InPiece, Speaking, WorkerTypes
<1>2. Listed(cur) \in BOOLEAN
  BY DEF Listed
<1>3. [piece |-> cur, whole |-> Listed(cur)] \in Sounds
  BY <1>1, <1>2 DEF Sounds
<1>4. audio' = IF usable THEN Append(audio, [piece |-> cur, whole |-> Listed(cur)]) ELSE audio
  BY DEF Write
<1> QED BY <1>1, <1>3, <1>4, Zenon

\* A write makes nothing audible but the piece in hand.
LEMMA WriteAudible ==
  ASSUME DeviceTypes, WorkerTypes, Where, Write
  PROVE  Audible' \subseteq Audible \cup {cur} /\ (~usable => Audible' = Audible)
<1> DEFINE s == [piece |-> cur, whole |-> Listed(cur)]
<1>1. s \in Sounds /\ s.piece = cur /\ (usable => audio' = Append(audio, s)) /\ (~usable => audio' = audio)
  BY WriteStep
<1> HIDE DEF s
<1>2. CASE ~usable
  BY <1>1, <1>2 DEF Audible
<1>3. CASE usable
  <2>1. ASSUME NEW i \in DOMAIN audio' PROVE audio'[i].piece \in Audible \cup {cur}
    <3>1. i \in 1..Len(audio) \/ i = Len(audio) + 1
      BY <1>1, <1>3, Written
    <3>2. CASE i \in 1..Len(audio)
      <4>1. audio'[i] = audio[i] /\ i \in DOMAIN audio
        BY <1>1, <1>3, <3>2, Written
      <4> QED BY <4>1 DEF Audible
    <3>3. CASE i = Len(audio) + 1
      <4>1. audio'[i] = s
        BY <1>1, <1>3, <3>3, Written
      <4> QED BY <4>1, <1>1
    <3> QED BY <3>1, <3>2, <3>3
  <2>2. Audible' \subseteq Audible \cup {cur}
    BY <2>1 DEF Audible
  <2> QED BY <2>2, <1>3
<1> QED BY <1>2, <1>3

\* Playing makes nothing audible that was not.
LEMMA PlaysAudible ==
  ASSUME DeviceTypes, Plays
  PROVE  Audible' \subseteq Audible /\ Head(audio).piece \in Audible
<1>1. audio # <<>> /\ audio' = Tail(audio)
  BY DEF Plays
<1>2. ASSUME NEW i \in DOMAIN audio' PROVE audio'[i].piece \in Audible
  <2>1. i + 1 \in DOMAIN audio /\ audio'[i] = audio[i + 1]
    BY <1>1, Heard
  <2> QED BY <2>1 DEF Audible
<1>3. 1 \in DOMAIN audio /\ Head(audio) = audio[1]
  BY <1>1, Heard
<1> QED BY <1>2, <1>3 DEF Audible

\* An empty device is silent.
LEMMA NoAudio == ASSUME audio' = <<>> PROVE Audible' = {}
BY DEF Audible

\* Nothing sounds, is listed or waits to be said again that was not in the device or in the worker's hand.
LEMMA Brought ==
  ASSUME DeviceTypes, WorkerTypes, Where, VoiceNext
  PROVE  /\ replay' \cup InDev' \subseteq replay \cup InDev \cup {p \in {cur} : wpc = "opened"}
         /\ Audible' \subseteq Audible \cup {p \in {cur} : wpc = "writing" /\ usable}
         /\ heard' \subseteq heard \cup Audible
<1>1. CASE Say
  <2>1. inDevice' = inDevice /\ audio' = audio /\ replay' = replay /\ heard' = heard
    BY <1>1 DEF Say, device, worker, voiceCounts, callers, quiet, kept
  <2> QED BY <2>1 DEF InDev, Audible
<1>2. CASE Put
  <2>1. inDevice' = inDevice /\ audio' = audio /\ replay' = replay /\ heard' = heard
    BY <1>2 DEF Put, device, worker, voiceCounts, callers, quiet, kept
  <2> QED BY <2>1 DEF InDev, Audible
<1>3. CASE Pause
  <2>1. CutForHold /\ heard' = heard
    BY <1>3 DEF Pause, Notice
  <2> QED BY <2>1, CutStep, CutIsUnheard
<1>4. CASE RecordingShows
  <2>1. inDevice' = inDevice /\ audio' = audio /\ replay' = replay /\ heard' = heard
    BY <1>4 DEF RecordingShows, device, worker, voiceCounts, callers, quiet, kept
  <2> QED BY <2>1 DEF InDev, Audible
<1>5. CASE HoldEnds
  <2>1. inDevice' = inDevice /\ audio' = audio /\ replay' = replay /\ heard' = heard
    BY <1>5 DEF HoldEnds, device, worker, voiceCounts, callers, quiet, kept
  <2> QED BY <2>1 DEF InDev, Audible
<1>6. CASE Stop
  <2>1. inDevice' = {} /\ audio' = <<>> /\ replay' = {} /\ heard' = heard
    BY <1>6 DEF Stop, Forget
  <2>2. InDev' = {} /\ Audible' = {}
    BY <2>1, NoAudio DEF InDev
  <2> QED BY <2>1, <2>2
<1>7. CASE DropQueued
  <2>1. inDevice' = inDevice /\ audio' = audio /\ replay' = replay /\ heard' = heard
    BY <1>7 DEF DropQueued, device, worker, voiceCounts, callers, quiet, kept
  <2> QED BY <2>1 DEF InDev, Audible
<1>8. CASE Close
  <2>1. inDevice' = inDevice /\ audio' = audio /\ replay' = replay /\ heard' = heard
    BY <1>8 DEF Close, device, worker, voiceCounts, callers, quiet, kept
  <2> QED BY <2>1 DEF InDev, Audible
<1>9. CASE Get
  <2>1. inDevice' = inDevice /\ (audio' = audio \/ audio' = <<>>) /\ replay' = replay /\ heard' = heard
    BY <1>9 DEF Get, device
  <2>2. InDev' = InDev /\ (Audible' = Audible \/ Audible' = {})
    BY <2>1, NoAudio DEF InDev, Audible
  <2> QED BY <2>1, <2>2
<1>10. CASE WaitHeld
  <2>1. CutForHold /\ heard' = heard
    BY <1>10 DEF WaitHeld, Notice
  <2> QED BY <2>1, CutStep, CutIsUnheard
<1>11. CASE Loop
  <2>1. inDevice' = inDevice /\ audio' = audio /\ replay' \subseteq replay /\ heard' = heard
    BY <1>11 DEF Loop, TakeReplay, device
  <2> QED BY <2>1 DEF InDev, Audible
<1>12. CASE HeldTail
  <2>1. inDevice' = inDevice /\ audio' = audio /\ replay' \subseteq replay /\ heard' = heard
    BY <1>12 DEF HeldTail, TakeReplay, device
  <2> QED BY <2>1 DEF InDev, Audible
<1>13. CASE SayAgain
  <2>1. inDevice' = inDevice /\ audio' = audio /\ replay' = replay /\ heard' = heard
    BY <1>13 DEF SayAgain, device, worker, voiceCounts, callers, quiet, kept
  <2> QED BY <2>1 DEF InDev, Audible
<1>14. CASE Open
  <2>1. inDevice' = inDevice /\ audio' = audio /\ replay' = replay /\ heard' = heard
    BY <1>14 DEF Open, device, worker, voiceCounts, callers, quiet, kept
  <2> QED BY <2>1 DEF InDev, Audible
<1>15. CASE List
  <2>1. wpc = "opened" /\ cur \in PieceIds
    BY <1>15 DEF List, At, InPiece, Speaking, Where, WorkerTypes
  <2>2. audio' = audio /\ replay' = replay /\ heard' = heard /\ InDev' = InDev \cup {cur}
    BY <1>15, <2>1, ListStep DEF List
  <2> QED BY <2>1, <2>2 DEF Audible
<1>16. CASE Chunk
  <2>1. heard' = heard /\ (CutForHold \/ (replay' = replay /\ audio' = audio /\ (inDevice' = inDevice \/ inDevice' = {e \in inDevice : e.piece # cur})))
    BY <1>16 DEF Chunk, Unlist, device
  <2>2. CASE CutForHold
    BY <2>1, <2>2, CutStep, CutIsUnheard
  <2>3. CASE replay' = replay /\ audio' = audio /\ (inDevice' = inDevice \/ inDevice' = {e \in inDevice : e.piece # cur})
    <3>1. InDev' \subseteq InDev
      BY <2>3, UnlistStep DEF InDev
    <3> QED BY <2>1, <2>3, <3>1 DEF Audible
  <2> QED BY <2>1, <2>2, <2>3
<1>17. CASE Write
  <2>1. wpc = "writing" /\ wpc \in InPiece
    BY <1>17, WriteStep DEF InPiece, Speaking
  <2>2. inDevice' = inDevice /\ replay' = replay /\ heard' = heard
    BY <1>17 DEF Write
  <2>3. InDev' = InDev
    BY <2>2 DEF InDev
  <2>4. Audible' \subseteq Audible \cup {p \in {cur} : wpc = "writing" /\ usable}
    BY <1>17, <2>1, WriteAudible
  <2> QED BY <2>1, <2>2, <2>3, <2>4
<1>18. CASE StreamEnds
  <2>1. heard' = heard /\ (CutForHold \/ (replay' = replay /\ audio' = audio /\ (inDevice' = Complete \/ inDevice' = {e \in inDevice : e.piece # cur})))
    BY <1>18 DEF StreamEnds, Unlist
  <2>2. CASE CutForHold
    BY <2>1, <2>2, CutStep, CutIsUnheard
  <2>3. CASE replay' = replay /\ audio' = audio /\ (inDevice' = Complete \/ inDevice' = {e \in inDevice : e.piece # cur})
    <3>1. InDev' \subseteq InDev
      BY <2>3, UnlistStep, CompleteStep
    <3> QED BY <2>1, <2>3, <3>1 DEF Audible
  <2> QED BY <2>1, <2>2, <2>3
<1>19. CASE Said
  <2>1. inDevice' = inDevice /\ audio' = audio /\ replay' = replay /\ heard' = heard
    BY <1>19 DEF Said, device, worker, voiceCounts, callers, quiet, kept
  <2> QED BY <2>1 DEF InDev, Audible
<1>20. CASE Idle
  <2>1. heard' = heard /\ (CutForHold \/ (replay' = replay /\ inDevice' = inDevice /\ (audio' = audio \/ audio' = <<>>)))
    BY <1>20 DEF Idle, Leaves, LetGo, device
  <2>2. CASE CutForHold
    BY <2>1, <2>2, CutStep, CutIsUnheard
  <2>3. CASE replay' = replay /\ inDevice' = inDevice /\ (audio' = audio \/ audio' = <<>>)
    <3>1. InDev' = InDev /\ Audible' \subseteq Audible
      BY <2>3, NoAudio DEF InDev, Audible
    <3> QED BY <2>1, <2>3, <3>1
  <2> QED BY <2>1, <2>2, <2>3
<1>21. CASE Fail
  <2>1. inDevice' = {e \in inDevice : e.piece # cur} /\ audio' = audio /\ replay' = replay /\ heard' = heard
    BY <1>21, FailKeeps, FailLeads DEF WorkerTypes
  <2> QED BY <2>1, UnlistStep DEF Audible
<1>22. CASE Plays
  <2>1. inDevice' = inDevice /\ replay' = replay /\ heard' \subseteq heard \cup {Head(audio).piece}
    BY <1>22 DEF Plays
  <2>2. InDev' = InDev
    BY <2>1 DEF InDev
  <2> QED BY <1>22, <2>1, <2>2, PlaysAudible
<1> QED
  BY <1>1, <1>2, <1>3, <1>4, <1>5, <1>6, <1>7, <1>8, <1>9, <1>10, <1>11, <1>12, <1>13, <1>14, <1>15, <1>16, <1>17, <1>18, <1>19, <1>20, <1>21, <1>22 DEF VoiceNext, WorkerStep

\* Where the piece in the worker's hand comes from.
LEMMA InHandComes ==
  ASSUME PieceTypes, WorkerTypes, Where, VoiceNext
  PROVE  wpc' \in InPiece =>
           \/ wpc \in InPiece /\ cur' = cur /\ (wpc = "ending" => wpc' = "ending")
           \/ wpc' = "again" /\ wpc \in {"loop", "tail"} /\ cur' \in replay
           \/ wpc' = "open" /\ wpc = "loop" /\ cur' = PieceOf(item, index)
<1>1. CASE Say
  <2>1. UNCHANGED <<wpc, cur>>
    BY <1>1 DEF Say, device, worker, voiceCounts, callers, quiet, kept
  <2> QED BY <2>1
<1>2. CASE Put
  <2>1. UNCHANGED <<wpc, cur>>
    BY <1>2 DEF Put, device, worker, voiceCounts, callers, quiet, kept
  <2> QED BY <2>1
<1>3. CASE Pause
  <2>1. UNCHANGED <<wpc, cur>>
    BY <1>3 DEF Pause, device, worker, voiceCounts, callers, quiet, kept
  <2> QED BY <2>1
<1>4. CASE RecordingShows
  <2>1. UNCHANGED <<wpc, cur>>
    BY <1>4 DEF RecordingShows, device, worker, voiceCounts, callers, quiet, kept
  <2> QED BY <2>1
<1>5. CASE HoldEnds
  <2>1. UNCHANGED <<wpc, cur>>
    BY <1>5 DEF HoldEnds, device, worker, voiceCounts, callers, quiet, kept
  <2> QED BY <2>1
<1>6. CASE Stop
  <2>1. UNCHANGED <<wpc, cur>>
    BY <1>6 DEF Stop, device, worker, voiceCounts, callers, quiet, kept
  <2> QED BY <2>1
<1>7. CASE DropQueued
  <2>1. UNCHANGED <<wpc, cur>>
    BY <1>7 DEF DropQueued, device, worker, voiceCounts, callers, quiet, kept
  <2> QED BY <2>1
<1>8. CASE Close
  <2>1. UNCHANGED <<wpc, cur>>
    BY <1>8 DEF Close, device, worker, voiceCounts, callers, quiet, kept
  <2> QED BY <2>1
<1>9. CASE Get
  <2>1. wpc' \in {"get", "loop", "ended"}
    BY <1>9 DEF Get, At, Goto
  <2> QED BY <2>1 DEF InPiece, Speaking
<1>10. CASE WaitHeld
  <2>1. UNCHANGED <<wpc, cur>>
    BY <1>10 DEF WaitHeld, device, worker, voiceCounts, callers, quiet, kept
  <2> QED BY <2>1
<1>11. CASE Loop
  <2>1. \/ wpc' = "again" /\ replay # {} /\ cur' = Min(replay) /\ wpc = "loop"
        \/ wpc' \in {"loop", "said", "tail", "idle"}
        \/ wpc' = "open" /\ cur' = PieceOf(item, index) /\ wpc = "loop"
    BY <1>11, Zenon DEF Loop, TakeReplay, Goto, At
  <2>2. CASE wpc' = "again" /\ replay # {} /\ cur' = Min(replay) /\ wpc = "loop"
    BY <2>2, FirstOfReplay
  <2>3. CASE wpc' \in {"loop", "said", "tail", "idle"}
    BY <2>3 DEF InPiece, Speaking
  <2>4. CASE wpc' = "open" /\ cur' = PieceOf(item, index) /\ wpc = "loop"
    BY <2>4
  <2> QED BY <2>1, <2>2, <2>3, <2>4
<1>12. CASE HeldTail
  <2>1. \/ wpc' = "again" /\ replay # {} /\ cur' = Min(replay) /\ wpc = "tail"
        \/ wpc' \in {"loop", "said", "tail", "idle"}
        \/ wpc' = "open" /\ cur' = PieceOf(item, index) /\ wpc = "loop"
    BY <1>12, Zenon DEF HeldTail, TakeReplay, Goto, At
  <2>2. CASE wpc' = "again" /\ replay # {} /\ cur' = Min(replay) /\ wpc = "tail"
    BY <2>2, FirstOfReplay
  <2>3. CASE wpc' \in {"loop", "said", "tail", "idle"}
    BY <2>3 DEF InPiece, Speaking
  <2>4. CASE wpc' = "open" /\ cur' = PieceOf(item, index) /\ wpc = "loop"
    BY <2>4
  <2> QED BY <2>1, <2>2, <2>3, <2>4
<1>13. CASE SayAgain
  <2>1. cur' = cur /\ wpc = "again"
    BY <1>13 DEF SayAgain, At
  <2> QED BY <2>1 DEF InPiece, Speaking
<1>14. CASE Open
  <2>1. cur' = cur /\ wpc = "open"
    BY <1>14 DEF Open, At
  <2> QED BY <2>1 DEF InPiece, Speaking
<1>15. CASE List
  <2>1. cur' = cur /\ wpc = "opened"
    BY <1>15 DEF List, At
  <2> QED BY <2>1 DEF InPiece, Speaking
<1>16. CASE Chunk
  <2>1. cur' = cur /\ wpc = "streaming"
    BY <1>16 DEF Chunk, At
  <2> QED BY <2>1 DEF InPiece, Speaking
<1>17. CASE Write
  <2>1. cur' = cur /\ wpc = "writing"
    BY <1>17 DEF Write, At
  <2> QED BY <2>1 DEF InPiece, Speaking
<1>18. CASE StreamEnds
  <2>1. wpc = "ending" /\ UNCHANGED <<item, cur, back>> /\ (Over(TRUE) \/ Over(FALSE))
    BY <1>18 DEF StreamEnds, At
  <2>2. wpc' \notin InPiece
    BY <2>1, OverStep DEF Speaking
  <2> QED BY <2>2
<1>19. CASE Said
  <2>1. wpc' \in {"get", "idle"}
    BY <1>19 DEF Said, At, Goto
  <2> QED BY <2>1 DEF InPiece, Speaking
<1>20. CASE Idle
  <2>1. wpc' \in {"get", "tail"}
    BY <1>20 DEF Idle, At, Goto
  <2> QED BY <2>1 DEF InPiece, Speaking
<1>21. CASE Fail
  <2>1. wpc' \in {"said", "loop", "idle", "tail", "dead"}
    BY <1>21, FailKeeps, FailLeads DEF WorkerTypes
  <2> QED BY <2>1 DEF InPiece, Speaking
<1>22. CASE Plays
  <2>1. UNCHANGED <<wpc, cur>>
    BY <1>22 DEF Plays, device, worker, voiceCounts, callers, quiet, kept
  <2> QED BY <2>1
<1> QED
  BY <1>1, <1>2, <1>3, <1>4, <1>5, <1>6, <1>7, <1>8, <1>9, <1>10, <1>11, <1>12, <1>13, <1>14, <1>15, <1>16, <1>17, <1>18, <1>19, <1>20, <1>21, <1>22 DEF VoiceNext, WorkerStep

\* No step takes back that a line was asked for.
LEMMA AskedGrows == ASSUME QueueTypes, VoiceNext PROVE asked <= asked'
<1>1. CASE Say
  BY <1>1, QueueNumbers DEF Say
<1>2. CASE Put
  <2>1. asked' = asked
    BY <1>2 DEF Put, device, worker, voiceCounts, callers, quiet, kept
  <2> QED BY <2>1, QueueNumbers
<1>3. CASE Pause
  <2>1. asked' = asked
    BY <1>3 DEF Pause, device, worker, voiceCounts, callers, quiet, kept
  <2> QED BY <2>1, QueueNumbers
<1>4. CASE RecordingShows
  <2>1. asked' = asked
    BY <1>4 DEF RecordingShows, device, worker, voiceCounts, callers, quiet, kept
  <2> QED BY <2>1, QueueNumbers
<1>5. CASE HoldEnds
  <2>1. asked' = asked
    BY <1>5 DEF HoldEnds, device, worker, voiceCounts, callers, quiet, kept
  <2> QED BY <2>1, QueueNumbers
<1>6. CASE Stop
  <2>1. asked' = asked
    BY <1>6 DEF Stop, device, worker, voiceCounts, callers, quiet, kept
  <2> QED BY <2>1, QueueNumbers
<1>7. CASE DropQueued
  <2>1. asked' = asked
    BY <1>7 DEF DropQueued, device, worker, voiceCounts, callers, quiet, kept
  <2> QED BY <2>1, QueueNumbers
<1>8. CASE Close
  <2>1. asked' = asked
    BY <1>8 DEF Close, device, worker, voiceCounts, callers, quiet, kept
  <2> QED BY <2>1, QueueNumbers
<1>9. CASE Get
  <2>1. asked' = asked
    BY <1>9 DEF Get, device, worker, voiceCounts, callers, quiet, kept
  <2> QED BY <2>1, QueueNumbers
<1>10. CASE WaitHeld
  <2>1. asked' = asked
    BY <1>10 DEF WaitHeld, device, worker, voiceCounts, callers, quiet, kept
  <2> QED BY <2>1, QueueNumbers
<1>11. CASE Loop
  <2>1. asked' = asked
    BY <1>11 DEF Loop, device, worker, voiceCounts, callers, quiet, kept
  <2> QED BY <2>1, QueueNumbers
<1>12. CASE HeldTail
  <2>1. asked' = asked
    BY <1>12 DEF HeldTail, device, worker, voiceCounts, callers, quiet, kept
  <2> QED BY <2>1, QueueNumbers
<1>13. CASE SayAgain
  <2>1. asked' = asked
    BY <1>13 DEF SayAgain, device, worker, voiceCounts, callers, quiet, kept
  <2> QED BY <2>1, QueueNumbers
<1>14. CASE Open
  <2>1. asked' = asked
    BY <1>14 DEF Open, device, worker, voiceCounts, callers, quiet, kept
  <2> QED BY <2>1, QueueNumbers
<1>15. CASE List
  <2>1. asked' = asked
    BY <1>15 DEF List, device, worker, voiceCounts, callers, quiet, kept
  <2> QED BY <2>1, QueueNumbers
<1>16. CASE Chunk
  <2>1. asked' = asked
    BY <1>16 DEF Chunk, device, worker, voiceCounts, callers, quiet, kept
  <2> QED BY <2>1, QueueNumbers
<1>17. CASE Write
  <2>1. asked' = asked
    BY <1>17 DEF Write, device, worker, voiceCounts, callers, quiet, kept
  <2> QED BY <2>1, QueueNumbers
<1>18. CASE StreamEnds
  <2>1. asked' = asked
    BY <1>18 DEF StreamEnds, device, worker, voiceCounts, callers, quiet, kept
  <2> QED BY <2>1, QueueNumbers
<1>19. CASE Said
  <2>1. asked' = asked
    BY <1>19 DEF Said, device, worker, voiceCounts, callers, quiet, kept
  <2> QED BY <2>1, QueueNumbers
<1>20. CASE Idle
  <2>1. asked' = asked
    BY <1>20 DEF Idle, device, worker, voiceCounts, callers, quiet, kept
  <2> QED BY <2>1, QueueNumbers
<1>21. CASE Fail
  <2>1. asked' = asked
    BY <1>21, FailKeeps, FailLeads DEF WorkerTypes
  <2> QED BY <2>1, QueueNumbers
<1>22. CASE Plays
  <2>1. asked' = asked
    BY <1>22 DEF Plays, device, worker, voiceCounts, callers, quiet, kept
  <2> QED BY <2>1, QueueNumbers
<1> QED
  BY <1>1, <1>2, <1>3, <1>4, <1>5, <1>6, <1>7, <1>8, <1>9, <1>10, <1>11, <1>12, <1>13, <1>14, <1>15, <1>16, <1>17, <1>18, <1>19, <1>20, <1>21, <1>22 DEF VoiceNext, WorkerStep

\* The next piece of the line in hand belongs to it.
LEMMA OwnPiece ==
  ASSUME WorkerTypes, Where, item # 0
  PROVE  /\ item \in Lines /\ index \in 1..Pieces
         /\ PieceOf(item, index) \in PieceIds /\ LineOf(PieceOf(item, index)) = item
<1>1. index \in 1..Pieces
  BY DEF Where
<1>2. item \in Lines
  BY WorkerNumbers, Constants
<1> QED BY <1>1, <1>2, PiecesOfLine

\* A step says only lines that were asked for.
LEMMA AskedKept ==
  ASSUME QueueTypes, PieceTypes, DeviceTypes, WorkerTypes, Where, Queue, Asked, VoiceNext,
         wpc \in InPiece => cur \in PieceIds
  PROVE  Asked'
<1>0. \A p \in PieceIds : LineOf(p) \in Nat
  BY LinesInOrder, Constants
<1>1. \A p \in PieceIds : LineOf(p) <= asked => LineOf(p) <= asked'
  <2>1. asked \in Nat /\ asked' \in Nat /\ asked <= asked'
    BY AskedGrows, QueueNumbers, QueueTypesKept, Constants DEF QueueTypes
  <2> QED BY <1>0, <2>1
<1>2. /\ replay \subseteq PieceIds /\ heard \subseteq PieceIds /\ InDev \subseteq PieceIds /\ Audible \subseteq PieceIds
  BY CutIsUnheard DEF PieceTypes
<1>3. \A p \in replay \cup Audible \cup heard \cup InDev \cup {q \in {cur} : wpc \in InPiece} : LineOf(p) <= asked'
  BY <1>1, <1>2 DEF Asked
<1>4. \A p \in (replay \cup Audible \cup heard \cup InDev)' : LineOf(p) <= asked'
  <2>0. {p \in {cur} : (wpc = "writing" /\ usable) \/ wpc = "opened"} \subseteq {q \in {cur} : wpc \in InPiece}
    BY DEF InPiece, Speaking
  <2>1. (replay \cup Audible \cup heard \cup InDev)' \subseteq replay \cup Audible \cup heard \cup InDev \cup {q \in {cur} : wpc \in InPiece}
    BY <2>0, Brought
  <2> QED BY <2>1, <1>3
<1>5. wpc' \in InPiece' => LineOf(cur') <= asked'
  <2>1. SUFFICES ASSUME wpc' \in InPiece PROVE LineOf(cur') <= asked'
    BY DEF InPiece, Speaking
  <2>2. CASE wpc \in InPiece /\ cur' = cur
    BY <2>2, <1>3
  <2>3. CASE cur' \in replay
    BY <2>3, <1>3
  <2>4. CASE wpc = "loop" /\ cur' = PieceOf(item, index)
    <3>1. item # 0
      BY <2>4 DEF Where
    <3>2. cur' \in PieceIds /\ LineOf(cur') = item /\ item <= asked
      BY <2>4, <3>1, OwnPiece DEF Queue
    <3> QED BY <3>2, <1>1
  <2> QED BY <2>1, <2>2, <2>3, <2>4, InHandComes
<1> QED BY <1>4, <1>5 DEF Asked

\* A step keeps the worker from writing to a usable output for a line that was stopped.
LEMMA UsableKept ==
  ASSUME QueueTypes, WorkerTypes, Where, Asked, Silent, VoiceNext
  PROVE  wpc' = "writing" /\ usable' => LineOf(cur') \in valid'
<1> USE DEF Silent
<1>1. CASE Say
  <2>1. UNCHANGED <<gone, usable, cur, wpc>> /\ valid' = valid \cup {asked + 1}
    BY <1>1 DEF Say, worker
  <2>2. cur \in PieceIds /\ LineOf(cur) <= asked => LineOf(cur) # asked + 1
    BY LinesInOrder, QueueNumbers, Constants
  <2>3. wpc \in {"streaming", "writing"} => LineOf(cur) # asked + 1
    <3>1. wpc \in {"streaming", "writing"} => cur \in PieceIds
      BY DEF Where, InPiece, Speaking, WorkerTypes
    <3> QED BY <2>2, <3>1 DEF Asked, InPiece, Speaking
  <2> QED BY <2>1, <2>3
<1>2. CASE Put
  <2>1. UNCHANGED <<valid, gone, usable, cur, wpc>>
    BY <1>2 DEF Put, device, worker, voiceCounts, callers, quiet, kept
  <2> QED BY <2>1
<1>3. CASE Pause
  <2>1. UNCHANGED <<valid, gone, cur, wpc>>
    BY <1>3 DEF Pause
  <2>2. usable' => usable
    BY <1>3, Zenon DEF Pause, CutForHold
  <2> QED BY <2>1, <2>2
<1>4. CASE RecordingShows
  <2>1. UNCHANGED <<valid, gone, usable, cur, wpc>>
    BY <1>4 DEF RecordingShows, device, worker, voiceCounts, callers, quiet, kept
  <2> QED BY <2>1
<1>5. CASE HoldEnds
  <2>1. UNCHANGED <<valid, gone, usable, cur, wpc>>
    BY <1>5 DEF HoldEnds, device, worker, voiceCounts, callers, quiet, kept
  <2> QED BY <2>1
<1>6. CASE Stop
  <2>1. valid' = {}
    BY <1>6 DEF Stop, Forget
  <2>2. ~usable'
    BY <1>6, Zenon DEF Stop, Forget
  <2> QED BY <2>1, <2>2
<1>7. CASE DropQueued
  <2>1. UNCHANGED <<valid, gone, usable, cur, wpc>>
    BY <1>7 DEF DropQueued, device, worker, voiceCounts, callers, quiet, kept
  <2> QED BY <2>1
<1>8. CASE Close
  <2>1. UNCHANGED <<valid, usable, cur, wpc>> /\ gone' = TRUE
    BY <1>8 DEF Close, worker
  <2> QED BY <2>1
<1>9. CASE Get
  <2>1. wpc' \in {"get", "loop", "ended"} /\ valid' = valid
    BY <1>9 DEF Get, At, Goto, quiet, kept, callers, TakeReplay
  <2> QED BY <2>1
<1>10. CASE WaitHeld
  <2>1. UNCHANGED <<valid, gone, cur, wpc>>
    BY <1>10 DEF WaitHeld, quiet, callers
  <2>2. usable' => usable
    BY <1>10, Zenon DEF WaitHeld, Notice, CutForHold
  <2> QED BY <2>1, <2>2
<1>11. CASE Loop
  <2>1. wpc' \in {"loop", "again", "open", "said"} /\ valid' = valid
    BY <1>11 DEF Loop, At, Goto, quiet, kept, callers, TakeReplay
  <2> QED BY <2>1
<1>12. CASE HeldTail
  <2>1. wpc' \in {"tail", "again", "idle"} /\ valid' = valid
    BY <1>12 DEF HeldTail, At, Goto, quiet, kept, callers, TakeReplay
  <2> QED BY <2>1
<1>13. CASE SayAgain
  <2>1. wpc' \in {"open", back} /\ valid' = valid /\ back \in {"", "loop", "tail"}
    BY <1>13 DEF SayAgain, Goto, quiet, kept, callers, WorkerTypes
  <2> QED BY <2>1
<1>14. CASE Open
  <2>1. wpc \in Speaking /\ UNCHANGED <<item, cur, back, valid>> /\ (Over(TRUE) \/ Over(FALSE) \/ wpc' = "opened")
    BY <1>14 DEF Open, At, Speaking, quiet, kept, callers, Goto
  <2>2. Over(TRUE) \/ Over(FALSE) => wpc' \notin InPiece
    BY <2>1, OverStep
  <2> QED BY <2>1, <2>2 DEF InPiece, Speaking
<1>15. CASE List
  <2>1. wpc' = "streaming"
    BY <1>15 DEF List, Goto
  <2> QED BY <2>1
<1>16. CASE Chunk
  <2>1. wpc \in Speaking /\ UNCHANGED <<item, cur, back, valid>> /\ (Over(TRUE) \/ Over(FALSE) \/ (wpc' = "writing" /\ LineOf(cur) \in valid))
    BY <1>16 DEF Chunk, At, Speaking, quiet, kept, callers, Current, Goto
  <2>2. Over(TRUE) \/ Over(FALSE) => wpc' \notin InPiece
    BY <2>1, OverStep
  <2> QED BY <2>1, <2>2 DEF InPiece, Speaking
<1>17. CASE Write
  <2>1. wpc' \in {"ending"} /\ valid' = valid
    BY <1>17 DEF Write, At, Goto, quiet, kept, callers, TakeReplay
  <2> QED BY <2>1
<1>18. CASE StreamEnds
  <2>1. wpc \in Speaking /\ UNCHANGED <<item, cur, back, valid>> /\ (Over(TRUE) \/ Over(FALSE))
    BY <1>18 DEF StreamEnds, At, Speaking, quiet, kept, callers, Goto
  <2>2. Over(TRUE) \/ Over(FALSE) => wpc' \notin InPiece
    BY <2>1, OverStep
  <2> QED BY <2>1, <2>2 DEF InPiece, Speaking
<1>19. CASE Said
  <2>1. wpc' \in {"get", "idle"} /\ valid' = valid
    BY <1>19 DEF Said, At, Goto, quiet, kept, callers, TakeReplay
  <2> QED BY <2>1
<1>20. CASE Idle
  <2>1. wpc' \in {"get", "tail"} /\ valid' = valid
    BY <1>20 DEF Idle, At, Goto, quiet, kept, callers, TakeReplay
  <2> QED BY <2>1
<1>21. CASE Fail
  <2>1. wpc' \in {"said", "loop", "idle", "tail", "dead"} /\ valid' = valid
    BY <1>21, FailKeeps, FailLeads DEF WorkerTypes
  <2> QED BY <2>1
<1>22. CASE Plays
  <2>1. UNCHANGED <<valid, gone, usable, cur, wpc>>
    BY <1>22 DEF Plays, device, worker, voiceCounts, callers, quiet, kept
  <2> QED BY <2>1
<1> QED
  BY <1>1, <1>2, <1>3, <1>4, <1>5, <1>6, <1>7, <1>8, <1>9, <1>10, <1>11, <1>12, <1>13, <1>14, <1>15, <1>16, <1>17, <1>18, <1>19, <1>20, <1>21, <1>22 DEF VoiceNext, WorkerStep

\* Only stop() takes a line out of the current generation, and it empties the device.
LEMMA ValidStays ==
  ASSUME TRUE, VoiceNext
  PROVE  valid \subseteq valid' \/ (valid' = {} /\ Audible' = {})
<1>1. CASE Say
  BY <1>1 DEF Say
<1>2. CASE Put
  <2>1. valid' = valid
    BY <1>2 DEF Put, device, worker, voiceCounts, callers, quiet, kept
  <2> QED BY <2>1
<1>3. CASE Pause
  <2>1. valid' = valid
    BY <1>3 DEF Pause, device, worker, voiceCounts, callers, quiet, kept
  <2> QED BY <2>1
<1>4. CASE RecordingShows
  <2>1. valid' = valid
    BY <1>4 DEF RecordingShows, device, worker, voiceCounts, callers, quiet, kept
  <2> QED BY <2>1
<1>5. CASE HoldEnds
  <2>1. valid' = valid
    BY <1>5 DEF HoldEnds, device, worker, voiceCounts, callers, quiet, kept
  <2> QED BY <2>1
<1>6. CASE Stop
  <2>1. valid' = {} /\ audio' = <<>>
    BY <1>6 DEF Stop, Forget
  <2> QED BY <2>1, NoAudio
<1>7. CASE DropQueued
  <2>1. valid' = valid
    BY <1>7 DEF DropQueued, device, worker, voiceCounts, callers, quiet, kept
  <2> QED BY <2>1
<1>8. CASE Close
  <2>1. valid' = valid
    BY <1>8 DEF Close, device, worker, voiceCounts, callers, quiet, kept
  <2> QED BY <2>1
<1>9. CASE Get
  <2>1. valid' = valid
    BY <1>9 DEF Get, device, worker, voiceCounts, callers, quiet, kept
  <2> QED BY <2>1
<1>10. CASE WaitHeld
  <2>1. valid' = valid
    BY <1>10 DEF WaitHeld, device, worker, voiceCounts, callers, quiet, kept
  <2> QED BY <2>1
<1>11. CASE Loop
  <2>1. valid' = valid
    BY <1>11 DEF Loop, device, worker, voiceCounts, callers, quiet, kept
  <2> QED BY <2>1
<1>12. CASE HeldTail
  <2>1. valid' = valid
    BY <1>12 DEF HeldTail, device, worker, voiceCounts, callers, quiet, kept
  <2> QED BY <2>1
<1>13. CASE SayAgain
  <2>1. valid' = valid
    BY <1>13 DEF SayAgain, device, worker, voiceCounts, callers, quiet, kept
  <2> QED BY <2>1
<1>14. CASE Open
  <2>1. valid' = valid
    BY <1>14 DEF Open, device, worker, voiceCounts, callers, quiet, kept
  <2> QED BY <2>1
<1>15. CASE List
  <2>1. valid' = valid
    BY <1>15 DEF List, device, worker, voiceCounts, callers, quiet, kept
  <2> QED BY <2>1
<1>16. CASE Chunk
  <2>1. valid' = valid
    BY <1>16 DEF Chunk, device, worker, voiceCounts, callers, quiet, kept
  <2> QED BY <2>1
<1>17. CASE Write
  <2>1. valid' = valid
    BY <1>17 DEF Write, device, worker, voiceCounts, callers, quiet, kept
  <2> QED BY <2>1
<1>18. CASE StreamEnds
  <2>1. valid' = valid
    BY <1>18 DEF StreamEnds, device, worker, voiceCounts, callers, quiet, kept
  <2> QED BY <2>1
<1>19. CASE Said
  <2>1. valid' = valid
    BY <1>19 DEF Said, device, worker, voiceCounts, callers, quiet, kept
  <2> QED BY <2>1
<1>20. CASE Idle
  <2>1. valid' = valid
    BY <1>20 DEF Idle, device, worker, voiceCounts, callers, quiet, kept
  <2> QED BY <2>1
<1>21. CASE Fail
  <2>1. valid' = valid
    BY <1>21, FailKeeps, FailLeads DEF WorkerTypes
  <2> QED BY <2>1
<1>22. CASE Plays
  <2>1. valid' = valid
    BY <1>22 DEF Plays, device, worker, voiceCounts, callers, quiet, kept
  <2> QED BY <2>1
<1> QED
  BY <1>1, <1>2, <1>3, <1>4, <1>5, <1>6, <1>7, <1>8, <1>9, <1>10, <1>11, <1>12, <1>13, <1>14, <1>15, <1>16, <1>17, <1>18, <1>19, <1>20, <1>21, <1>22 DEF VoiceNext, WorkerStep

\* A step keeps what sounds to lines that were not stopped.
LEMMA SilentKept ==
  ASSUME QueueTypes, DeviceTypes, WorkerTypes, Where, Asked, Silent, VoiceNext
  PROVE  Silent'
<1>1. StoppedIsSilent'
  <2>1. CASE valid' = {} /\ Audible' = {}
    BY <2>1 DEF StoppedIsSilent
  <2>2. CASE valid \subseteq valid'
    <3>1. \A p \in Audible \cup {q \in {cur} : wpc = "writing" /\ usable} : LineOf(p) \in valid
      BY DEF Silent, StoppedIsSilent
    <3> QED BY <2>2, <3>1, Brought DEF StoppedIsSilent
  <2> QED BY <2>1, <2>2, ValidStays
<1> QED BY <1>1, UsableKept, Zenon DEF Silent

\* Every step keeps the invariant.
LEMMA InvKept ==
  ASSUME VoiceInv, VoiceNext
  PROVE  VoiceInv'
<1>1. /\ QueueTypes /\ CallerTypes /\ PieceTypes /\ DeviceTypes /\ WorkerTypes /\ Flags
      /\ Suffix /\ Queue /\ Where /\ Asked /\ Silent
  BY TypeParts DEF VoiceInv
<1>2. wpc \in InPiece => cur \in PieceIds
  BY <1>1 DEF Where, WorkerTypes
<1>3. VoiceTypeOK'
  BY <1>1, QueueTypesKept, CallerTypesKept, PieceTypesKept, DeviceTypesKept, WorkerTypesKept, FlagsKept, TypePartsNext
<1>4. Suffix' /\ Queue' /\ Where' /\ Asked' /\ Silent'
  BY <1>1, <1>2, SuffixKept, QueueKept, WhereKept, AskedKept, SilentKept
<1> QED
  BY <1>3, <1>4 DEF VoiceInv

\* So does a step that changes nothing.
LEMMA InvStutters == ASSUME VoiceInv, UNCHANGED voiceVars PROVE VoiceInv'
<1>1. /\ UNCHANGED <<asked, putting, lines, valid, hold, replay, inDevice, output, audio, gone>>
      /\ UNCHANGED <<wpc, item, index, cur, back, noticed, usable, spc, heard, lost, holds, stops, failures>>
      /\ UNCHANGED <<platform, unnoticed>>
  BY DEF voiceVars, device, worker, voiceCounts
<1>2. VoiceTypeOK'
  <2>1. QueueTypes /\ CallerTypes /\ PieceTypes /\ DeviceTypes /\ WorkerTypes /\ Flags
    BY TypeParts DEF VoiceInv
  <2>2. QueueTypes' /\ CallerTypes' /\ PieceTypes'
    BY <1>1, <2>1 DEF QueueTypes, CallerTypes, PieceTypes
  <2>3. DeviceTypes' /\ WorkerTypes'
    BY <1>1, <2>1 DEF DeviceTypes, WorkerTypes
  <2>4. Flags'
    BY <1>1, <2>1, Zenon DEF Flags
  <2> QED BY <2>2, <2>3, <2>4, TypePartsNext
<1>3. Suffix' /\ Queue'
  BY <1>1 DEF VoiceInv, Suffix, Queue
<1>4. Audible' = Audible /\ InDev' = InDev
  BY <1>1 DEF Audible, InDev
<1>5. Where' /\ Asked'
  BY <1>1, <1>4 DEF VoiceInv, Where, Asked, InPiece, Speaking
<1>6. Silent'
  BY <1>1, <1>4 DEF VoiceInv, Silent, StoppedIsSilent
<1> QED BY <1>2, <1>3, <1>5, <1>6 DEF VoiceInv

\* Type correctness: whatever is said, held, stopped or closed, the variables keep their types and bounds.
THEOREM VoiceTypeCorrect == VoiceSpec => []VoiceTypeOK
<1>1. VoiceInit => VoiceInv
  BY InvInit
<1>2. VoiceInv /\ [VoiceNext]_voiceVars => VoiceInv'
  BY InvKept, InvStutters
<1>3. VoiceInv => VoiceTypeOK
  BY DEF VoiceInv
<1> QED
  BY <1>1, <1>2, <1>3, PTL DEF VoiceSpec

\* Once stop() returns, nothing that was said before it sounds: a device that stop() emptied is not
\* written to again for a line of an older generation (voice.py: stop, _speak_piece).
THEOREM SilentAfterStop == VoiceSpec => []StoppedIsSilent
<1>1. VoiceInit => VoiceInv
  BY InvInit
<1>2. VoiceInv /\ [VoiceNext]_voiceVars => VoiceInv'
  BY InvKept, InvStutters
<1>3. VoiceInv => StoppedIsSilent
  BY DEF VoiceInv, Silent
<1> QED
  BY <1>1, <1>2, <1>3, PTL DEF VoiceSpec

-----------------------------------------------------------------------------
(* The order of the pieces.                                                 *)

\* The pieces of the lines no stop has forgotten.
Due == {p \in PieceIds : LineOf(p) \in valid}
\* The pieces the order does not wait for: over, or left behind by a hold that ended unnoticed; with those
\* that will be over once the device has played what it has.
Done == heard \cup lost \cup unnoticed
Whole == {audio[i].piece : i \in {j \in DOMAIN audio : audio[j].whole}}
Settled == Done \cup Whole

\* The pieces still to be asked for: of the line that is said, and of those that wait.
NextIndex == IF wpc \in Speaking /\ back = "" THEN index + 1 ELSE index
Rest == {p \in PieceIds : item # 0 /\ wpc # "said" /\ LineOf(p) = item /\ PieceOf(item, NextIndex) <= p}
Queued == {p \in PieceIds : LineOf(p) = putting \/ \E i \in 1..Len(lines) : lines[i] = LineOf(p)}
Ahead == Rest \cup Queued

\* The piece the worker has not given to the device yet; everything that was asked for or is to be again.
Hands == {"again", "open", "opened", "streaming", "writing"}
InHand == {p \in {cur} : wpc \in Hands}
Spoken == replay \cup InDev \cup InHand

Before(p) == \A d \in Due : d < p => d \in Settled

\* Before the one hold nothing is said again; in it nothing but what it cut.
Phase ==
  /\ holds = 0 => hold = "no" /\ replay = {} /\ (wpc \in Speaking => back = "") /\ wpc \notin {"again", "tail"}
  /\ Holding /\ ~gone /\ wpc \in Speaking => back = ""
  /\ Holding /\ ~gone /\ wpc \in {"again", "tail"} => InDev = {}

Older == item # 0 => \A p \in Spoken \cap Due : LineOf(p) <= item
InOrder == \A p \in Spoken \cap Due : \A a \in Ahead : p < a
AgainFirst == wpc = "again" => \A p \in replay \cap Due : cur <= p

\* What the device has is listed, and so is the piece in hand, unless a cut has put it on the replay list.
SoundsListed == Whole \subseteq InDev \cup Done
HandListed == wpc \in {"streaming", "writing"} /\ cur \in Due => cur \in replay \/ HalfSaid(cur)

\* Nothing is forgotten.
Covered == Due \subseteq Settled \cup replay \cup Ahead \cup InHand

\* Outside a hold a piece is asked for when all before it are said.
Ready == ~Holding /\ wpc \in {"open", "opened", "streaming"} => Before(cur)

\* The device has the pieces in order.
SoundsInOrder ==
  \A i \in DOMAIN audio : audio[i].whole =>
    \A d \in Due : d < audio[i].piece => d \in Done \/ \E j \in 1..i - 1 : audio[j].whole /\ audio[j].piece = d
NextInOrder == wpc = "writing" /\ cur \in InDev => Before(cur)
DoneInOrder == \A q \in heard : \A p \in Due : p < q => p \in Done

LiveInv == Older /\ InOrder /\ AgainFirst /\ SoundsListed /\ HandListed /\ Covered /\ Ready
OrderInv == holds <= 1 => Phase /\ SoundsInOrder /\ NextInOrder /\ DoneInOrder /\ (~gone => LiveInv)

\* The holds are counted up only.
LEMMA HoldsGrow == ASSUME CallerTypes, VoiceNext PROVE holds <= holds'
<1>0. holds \in Nat
  BY Constants DEF CallerTypes
<1>1. CASE Say
  <2>1. holds' = holds
    BY <1>1 DEF Say, device, worker, voiceCounts, callers, quiet, kept
  <2> QED BY <2>1, <1>0
<1>2. CASE Put
  <2>1. holds' = holds
    BY <1>2 DEF Put, device, worker, voiceCounts, callers, quiet, kept
  <2> QED BY <2>1, <1>0
<1>3. CASE Pause
  <2>1. holds' = holds + 1
    BY <1>3 DEF Pause
  <2> QED BY <2>1, <1>0
<1>4. CASE RecordingShows
  <2>1. holds' = holds \/ holds' = holds + 1
    BY <1>4 DEF RecordingShows
  <2> QED BY <2>1, <1>0
<1>5. CASE HoldEnds
  <2>1. holds' = holds
    BY <1>5 DEF HoldEnds, device, worker, voiceCounts, callers, quiet, kept
  <2> QED BY <2>1, <1>0
<1>6. CASE Stop
  <2>1. holds' = holds
    BY <1>6 DEF Stop, device, worker, voiceCounts, callers, quiet, kept
  <2> QED BY <2>1, <1>0
<1>7. CASE DropQueued
  <2>1. holds' = holds
    BY <1>7 DEF DropQueued, device, worker, voiceCounts, callers, quiet, kept
  <2> QED BY <2>1, <1>0
<1>8. CASE Close
  <2>1. holds' = holds
    BY <1>8 DEF Close, device, worker, voiceCounts, callers, quiet, kept
  <2> QED BY <2>1, <1>0
<1>9. CASE Get
  <2>1. holds' = holds
    BY <1>9 DEF Get, device, worker, voiceCounts, callers, quiet, kept
  <2> QED BY <2>1, <1>0
<1>10. CASE WaitHeld
  <2>1. holds' = holds
    BY <1>10 DEF WaitHeld, device, worker, voiceCounts, callers, quiet, kept
  <2> QED BY <2>1, <1>0
<1>11. CASE Loop
  <2>1. holds' = holds
    BY <1>11 DEF Loop, device, worker, voiceCounts, callers, quiet, kept
  <2> QED BY <2>1, <1>0
<1>12. CASE HeldTail
  <2>1. holds' = holds
    BY <1>12 DEF HeldTail, device, worker, voiceCounts, callers, quiet, kept
  <2> QED BY <2>1, <1>0
<1>13. CASE SayAgain
  <2>1. holds' = holds
    BY <1>13 DEF SayAgain, device, worker, voiceCounts, callers, quiet, kept
  <2> QED BY <2>1, <1>0
<1>14. CASE Open
  <2>1. holds' = holds
    BY <1>14 DEF Open, device, worker, voiceCounts, callers, quiet, kept
  <2> QED BY <2>1, <1>0
<1>15. CASE List
  <2>1. holds' = holds
    BY <1>15 DEF List, device, worker, voiceCounts, callers, quiet, kept
  <2> QED BY <2>1, <1>0
<1>16. CASE Chunk
  <2>1. holds' = holds
    BY <1>16 DEF Chunk, device, worker, voiceCounts, callers, quiet, kept
  <2> QED BY <2>1, <1>0
<1>17. CASE Write
  <2>1. holds' = holds
    BY <1>17 DEF Write, device, worker, voiceCounts, callers, quiet, kept
  <2> QED BY <2>1, <1>0
<1>18. CASE StreamEnds
  <2>1. holds' = holds
    BY <1>18 DEF StreamEnds, device, worker, voiceCounts, callers, quiet, kept
  <2> QED BY <2>1, <1>0
<1>19. CASE Said
  <2>1. holds' = holds
    BY <1>19 DEF Said, device, worker, voiceCounts, callers, quiet, kept
  <2> QED BY <2>1, <1>0
<1>20. CASE Idle
  <2>1. holds' = holds
    BY <1>20 DEF Idle, device, worker, voiceCounts, callers, quiet, kept
  <2> QED BY <2>1, <1>0
<1>21. CASE Fail
  <2>1. holds' = holds
    BY <1>21, FailKeeps, FailLeads DEF WorkerTypes
  <2> QED BY <2>1, <1>0
<1>22. CASE Plays
  <2>1. holds' = holds
    BY <1>22 DEF Plays, device, worker, voiceCounts, callers, quiet, kept
  <2> QED BY <2>1, <1>0
<1> QED
  BY <1>1, <1>2, <1>3, <1>4, <1>5, <1>6, <1>7, <1>8, <1>9, <1>10, <1>11, <1>12, <1>13, <1>14, <1>15, <1>16, <1>17, <1>18, <1>19, <1>20, <1>21, <1>22 DEF VoiceNext, WorkerStep

\* A closed voice stays closed.
LEMMA GoneStays == ASSUME VoiceNext PROVE gone => gone'
<1>1. CASE Say
  <2>1. gone' = gone
    BY <1>1 DEF Say, device, worker, voiceCounts, callers, quiet, kept
  <2> QED BY <2>1
<1>2. CASE Put
  <2>1. gone' = gone
    BY <1>2 DEF Put, device, worker, voiceCounts, callers, quiet, kept
  <2> QED BY <2>1
<1>3. CASE Pause
  <2>1. gone' = gone
    BY <1>3 DEF Pause, device, worker, voiceCounts, callers, quiet, kept
  <2> QED BY <2>1
<1>4. CASE RecordingShows
  <2>1. gone' = gone
    BY <1>4 DEF RecordingShows, device, worker, voiceCounts, callers, quiet, kept
  <2> QED BY <2>1
<1>5. CASE HoldEnds
  <2>1. gone' = gone
    BY <1>5 DEF HoldEnds, device, worker, voiceCounts, callers, quiet, kept
  <2> QED BY <2>1
<1>6. CASE Stop
  <2>1. gone' = gone
    BY <1>6 DEF Stop, device, worker, voiceCounts, callers, quiet, kept
  <2> QED BY <2>1
<1>7. CASE DropQueued
  <2>1. gone' = gone
    BY <1>7 DEF DropQueued, device, worker, voiceCounts, callers, quiet, kept
  <2> QED BY <2>1
<1>8. CASE Close
  <2>1. gone' = TRUE
    BY <1>8 DEF Close
  <2> QED BY <2>1
<1>9. CASE Get
  <2>1. gone' = gone
    BY <1>9 DEF Get, device, worker, voiceCounts, callers, quiet, kept
  <2> QED BY <2>1
<1>10. CASE WaitHeld
  <2>1. gone' = gone
    BY <1>10 DEF WaitHeld, device, worker, voiceCounts, callers, quiet, kept
  <2> QED BY <2>1
<1>11. CASE Loop
  <2>1. gone' = gone
    BY <1>11 DEF Loop, device, worker, voiceCounts, callers, quiet, kept
  <2> QED BY <2>1
<1>12. CASE HeldTail
  <2>1. gone' = gone
    BY <1>12 DEF HeldTail, device, worker, voiceCounts, callers, quiet, kept
  <2> QED BY <2>1
<1>13. CASE SayAgain
  <2>1. gone' = gone
    BY <1>13 DEF SayAgain, device, worker, voiceCounts, callers, quiet, kept
  <2> QED BY <2>1
<1>14. CASE Open
  <2>1. gone' = gone
    BY <1>14 DEF Open, device, worker, voiceCounts, callers, quiet, kept
  <2> QED BY <2>1
<1>15. CASE List
  <2>1. gone' = gone
    BY <1>15 DEF List, device, worker, voiceCounts, callers, quiet, kept
  <2> QED BY <2>1
<1>16. CASE Chunk
  <2>1. gone' = gone
    BY <1>16 DEF Chunk, device, worker, voiceCounts, callers, quiet, kept
  <2> QED BY <2>1
<1>17. CASE Write
  <2>1. gone' = gone
    BY <1>17 DEF Write, device, worker, voiceCounts, callers, quiet, kept
  <2> QED BY <2>1
<1>18. CASE StreamEnds
  <2>1. gone' = gone
    BY <1>18 DEF StreamEnds, device, worker, voiceCounts, callers, quiet, kept
  <2> QED BY <2>1
<1>19. CASE Said
  <2>1. gone' = gone
    BY <1>19 DEF Said, device, worker, voiceCounts, callers, quiet, kept
  <2> QED BY <2>1
<1>20. CASE Idle
  <2>1. gone' = gone
    BY <1>20 DEF Idle, device, worker, voiceCounts, callers, quiet, kept
  <2> QED BY <2>1
<1>21. CASE Fail
  <2>1. gone' = gone
    BY <1>21, FailKeeps, FailLeads DEF WorkerTypes
  <2> QED BY <2>1
<1>22. CASE Plays
  <2>1. gone' = gone
    BY <1>22 DEF Plays, device, worker, voiceCounts, callers, quiet, kept
  <2> QED BY <2>1
<1> QED
  BY <1>1, <1>2, <1>3, <1>4, <1>5, <1>6, <1>7, <1>8, <1>9, <1>10, <1>11, <1>12, <1>13, <1>14, <1>15, <1>16, <1>17, <1>18, <1>19, <1>20, <1>21, <1>22 DEF VoiceNext, WorkerStep

\* A line becomes valid by being asked for, and stays so until a stop forgets all of them.
LEMMA ValidStep ==
  ASSUME VoiceNext
  PROVE  \/ valid' = valid
         \/ Stop /\ valid' = {}
         \/ Say /\ valid' = valid \cup {asked + 1}
<1>1. CASE Say
  <2>1. valid' = valid \cup {asked + 1} /\ asked' = asked + 1 /\ putting = 0 /\ putting' = asked'
    BY <1>1 DEF Say
  <2> QED BY <2>1, <1>1
<1>2. CASE Put
  <2>1. valid' = valid
    BY <1>2 DEF Put, device, worker, voiceCounts, callers, quiet, kept
  <2> QED BY <2>1
<1>3. CASE Pause
  <2>1. valid' = valid
    BY <1>3 DEF Pause, device, worker, voiceCounts, callers, quiet, kept
  <2> QED BY <2>1
<1>4. CASE RecordingShows
  <2>1. valid' = valid
    BY <1>4 DEF RecordingShows, device, worker, voiceCounts, callers, quiet, kept
  <2> QED BY <2>1
<1>5. CASE HoldEnds
  <2>1. valid' = valid
    BY <1>5 DEF HoldEnds, device, worker, voiceCounts, callers, quiet, kept
  <2> QED BY <2>1
<1>6. CASE Stop
  BY <1>6 DEF Stop, Forget
<1>7. CASE DropQueued
  <2>1. valid' = valid
    BY <1>7 DEF DropQueued, device, worker, voiceCounts, callers, quiet, kept
  <2> QED BY <2>1
<1>8. CASE Close
  <2>1. valid' = valid
    BY <1>8 DEF Close, device, worker, voiceCounts, callers, quiet, kept
  <2> QED BY <2>1
<1>9. CASE Get
  <2>1. valid' = valid
    BY <1>9 DEF Get, device, worker, voiceCounts, callers, quiet, kept
  <2> QED BY <2>1
<1>10. CASE WaitHeld
  <2>1. valid' = valid
    BY <1>10 DEF WaitHeld, device, worker, voiceCounts, callers, quiet, kept
  <2> QED BY <2>1
<1>11. CASE Loop
  <2>1. valid' = valid
    BY <1>11 DEF Loop, device, worker, voiceCounts, callers, quiet, kept
  <2> QED BY <2>1
<1>12. CASE HeldTail
  <2>1. valid' = valid
    BY <1>12 DEF HeldTail, device, worker, voiceCounts, callers, quiet, kept
  <2> QED BY <2>1
<1>13. CASE SayAgain
  <2>1. valid' = valid
    BY <1>13 DEF SayAgain, device, worker, voiceCounts, callers, quiet, kept
  <2> QED BY <2>1
<1>14. CASE Open
  <2>1. valid' = valid
    BY <1>14 DEF Open, device, worker, voiceCounts, callers, quiet, kept
  <2> QED BY <2>1
<1>15. CASE List
  <2>1. valid' = valid
    BY <1>15 DEF List, device, worker, voiceCounts, callers, quiet, kept
  <2> QED BY <2>1
<1>16. CASE Chunk
  <2>1. valid' = valid
    BY <1>16 DEF Chunk, device, worker, voiceCounts, callers, quiet, kept
  <2> QED BY <2>1
<1>17. CASE Write
  <2>1. valid' = valid
    BY <1>17 DEF Write, device, worker, voiceCounts, callers, quiet, kept
  <2> QED BY <2>1
<1>18. CASE StreamEnds
  <2>1. valid' = valid
    BY <1>18 DEF StreamEnds, device, worker, voiceCounts, callers, quiet, kept
  <2> QED BY <2>1
<1>19. CASE Said
  <2>1. valid' = valid
    BY <1>19 DEF Said, device, worker, voiceCounts, callers, quiet, kept
  <2> QED BY <2>1
<1>20. CASE Idle
  <2>1. valid' = valid
    BY <1>20 DEF Idle, device, worker, voiceCounts, callers, quiet, kept
  <2> QED BY <2>1
<1>21. CASE Fail
  <2>1. valid' = valid
    BY <1>21, FailKeeps, FailLeads DEF WorkerTypes
  <2> QED BY <2>1
<1>22. CASE Plays
  <2>1. valid' = valid
    BY <1>22 DEF Plays, device, worker, voiceCounts, callers, quiet, kept
  <2> QED BY <2>1
<1> QED
  BY <1>1, <1>2, <1>3, <1>4, <1>5, <1>6, <1>7, <1>8, <1>9, <1>10, <1>11, <1>12, <1>13, <1>14, <1>15, <1>16, <1>17, <1>18, <1>19, <1>20, <1>21, <1>22 DEF VoiceNext, WorkerStep

\* Only a new line makes pieces due.
LEMMA DueStep ==
  ASSUME QueueTypes, VoiceNext
  PROVE  \A p \in Due' : p \in PieceIds /\ (p \in Due \/ (Say /\ LineOf(p) = asked + 1))
BY ValidStep DEF Due

\* Outside speak() a piece that is due was due before.
LEMMA OldDue ==
  ASSUME QueueTypes, VoiceNext, NEW p \in Due', LineOf(p) <= asked
  PROVE  p \in Due
<1>1. LineOf(p) # asked + 1
  BY QueueNumbers, DueStep, LinesInOrder, Constants
<1> QED BY <1>1, DueStep

\* A piece of a line that was asked for comes before those of a new line.
LEMMA NewLineIsLast ==
  ASSUME QueueTypes, NEW p \in PieceIds, NEW q \in PieceIds, LineOf(p) <= asked, LineOf(q) = asked + 1
  PROVE  p < q
<1>1. LineOf(p) < LineOf(q)
  BY QueueNumbers, LinesInOrder, Constants
<1> QED BY <1>1, LinesInOrder

-----------------------------------------------------------------------------
(* What is over stays over.                                                 *)

\* A whole sound is a sound.
LEMMA WholeIsAudible == ASSUME DeviceTypes PROVE Whole \subseteq Audible /\ Whole \subseteq PieceIds
<1>1. Whole \subseteq Audible
  BY DEF Whole, Audible
<1> QED BY <1>1, CutIsUnheard

\* An empty device has no whole sound.
LEMMA NoWhole == ASSUME audio' = <<>> PROVE Whole' = {}
BY DEF Whole

\* Playing moves the first whole sound to the pieces heard.
LEMMA PlaysWhole ==
  ASSUME DeviceTypes, Plays
  PROVE  /\ Whole' \subseteq Whole /\ Whole \subseteq Whole' \cup heard' /\ heard \subseteq heard'
         /\ \A q \in heard' : q \in heard \/ (q = audio[1].piece /\ audio[1].whole /\ 1 \in DOMAIN audio)
<1>1. audio # <<>> /\ audio' = Tail(audio)
  BY DEF Plays
<1>2. /\ Head(audio) = audio[1] /\ 1 \in DOMAIN audio /\ DOMAIN audio = 1..Len(audio) /\ Len(audio) \in Nat
      /\ DOMAIN audio' = 1..Len(audio') /\ Len(audio') = Len(audio) - 1
      /\ \A i \in 1..Len(audio') : i + 1 \in 1..Len(audio) /\ audio'[i] = audio[i + 1]
  BY <1>1, Heard
<1>3. heard' = IF audio[1].whole THEN heard \cup {audio[1].piece} ELSE heard
  BY <1>2 DEF Plays
<1>4. Whole' \subseteq Whole
  <2>1. ASSUME NEW i \in DOMAIN audio', audio'[i].whole PROVE audio'[i].piece \in Whole
    <3>1. i + 1 \in DOMAIN audio /\ audio'[i] = audio[i + 1]
      BY <1>2
    <3> QED BY <2>1, <3>1 DEF Whole
  <2> QED BY <2>1 DEF Whole
<1>5. Whole \subseteq Whole' \cup heard'
  <2>1. ASSUME NEW i \in DOMAIN audio, audio[i].whole PROVE audio[i].piece \in Whole' \cup heard'
    <3>1. CASE i = 1
      BY <1>3, <2>1, <3>1
    <3>2. CASE i # 1
      <4>1. i - 1 \in DOMAIN audio' /\ (i - 1) + 1 = i
        BY <1>2, <3>2
      <4>2. audio'[i - 1] = audio[i]
        BY <4>1, <1>2
      <4> QED BY <2>1, <4>1, <4>2 DEF Whole
    <3> QED BY <3>1, <3>2
  <2> QED BY <2>1 DEF Whole
<1> QED BY <1>2, <1>3, <1>4, <1>5

\* A write adds the piece in hand to the whole sounds if it is still listed.
LEMMA WriteWhole ==
  ASSUME DeviceTypes, WorkerTypes, Where, Write
  PROVE  /\ Whole \subseteq Whole' /\ Whole' \subseteq Whole \cup {p \in {cur} : cur \in InDev}
         /\ usable /\ cur \in InDev => cur \in Whole'
<1> DEFINE s == [piece |-> cur, whole |-> Listed(cur)]
<1>1. s \in Sounds /\ s.piece = cur /\ (usable => audio' = Append(audio, s)) /\ (~usable => audio' = audio)
  BY WriteStep
<1>2. s.whole <=> cur \in InDev
  BY CutIsUnheard
<1> HIDE DEF s
<1>3. CASE ~usable
  BY <1>1, <1>3 DEF Whole
<1>4. CASE usable
  <2>1. /\ Len(audio) \in Nat /\ DOMAIN audio = 1..Len(audio) /\ DOMAIN audio' = 1..Len(audio') /\ Len(audio') = Len(audio) + 1
        /\ audio'[Len(audio) + 1] = s /\ \A i \in 1..Len(audio) : audio'[i] = audio[i]
    BY <1>1, <1>4, Written
  <2>2. Whole \subseteq Whole'
    <3>1. ASSUME NEW i \in DOMAIN audio, audio[i].whole PROVE audio[i].piece \in Whole'
      <4>1. i \in DOMAIN audio' /\ audio'[i] = audio[i]
        BY <2>1
      <4> QED BY <3>1, <4>1 DEF Whole
    <3> QED BY <3>1 DEF Whole
  <2>3. Whole' \subseteq Whole \cup {p \in {cur} : cur \in InDev}
    <3>1. ASSUME NEW i \in DOMAIN audio', audio'[i].whole PROVE audio'[i].piece \in Whole \cup {p \in {cur} : cur \in InDev}
      <4>1. (i \in DOMAIN audio /\ audio'[i] = audio[i]) \/ audio'[i] = s
        BY <2>1
      <4> QED BY <1>1, <1>2, <3>1, <4>1 DEF Whole
    <3> QED BY <3>1 DEF Whole
  <2>4. cur \in InDev => cur \in Whole'
    <3>1. Len(audio) + 1 \in DOMAIN audio'
      BY <2>1
    <3> QED BY <1>1, <1>2, <2>1, <3>1 DEF Whole
  <2> QED BY <2>2, <2>3, <2>4
<1> QED BY <1>3, <1>4

\* A cut takes from the device only what it lists to be said again.
LEMMA CutSettled ==
  ASSUME DeviceTypes, SoundsListed, CutForHold, heard' = heard, lost' = lost /\ unnoticed' = unnoticed
  PROVE  Settled \subseteq Settled' \cup replay'
<1>1. Whole \subseteq Audible /\ (\A p \in InDev : p \in Audible => p \in Cut)
  BY WholeIsAudible, CutIsUnheard
<1>2. Whole \subseteq Cut \cup Done
  BY <1>1 DEF SoundsListed
<1>3. Cut \subseteq replay' /\ Done' = Done
  BY CutStep DEF Done
<1> QED BY <1>2, <1>3 DEF Settled

\* A piece that is over stays so, or is said again, or a stop has forgotten it.
LEMMA SettledStep ==
  ASSUME QueueTypes, DeviceTypes, WorkerTypes, Where, Queue, SoundsListed, VoiceNext, ~gone'
  PROVE  Settled \cap Due' \subseteq Settled' \cup replay'
<1>1. CASE Say
  <2>1. audio' = audio /\ heard' = heard /\ lost \subseteq lost' /\ unnoticed \subseteq unnoticed'
    BY <1>1 DEF Say, device, worker, voiceCounts, callers, quiet, kept
  <2> QED BY <2>1 DEF Settled, Done, Whole
<1>2. CASE Put
  <2>1. audio' = audio /\ heard' = heard /\ lost \subseteq lost' /\ unnoticed \subseteq unnoticed'
    BY <1>2 DEF Put, device, worker, voiceCounts, callers, quiet, kept
  <2> QED BY <2>1 DEF Settled, Done, Whole
<1>3. CASE Pause
  <2>1. heard' = heard /\ lost' = lost /\ unnoticed' = unnoticed /\ (CutForHold \/ audio' = audio)
    BY <1>3 DEF Pause, device, Notice, quiet, kept, callers
  <2>2. CASE CutForHold
    BY <2>1, <2>2, CutSettled
  <2>3. CASE audio' = audio
    BY <2>1, <2>3 DEF Settled, Done, Whole
  <2> QED BY <2>1, <2>2, <2>3
<1>4. CASE RecordingShows
  <2>1. audio' = audio /\ heard' = heard /\ lost \subseteq lost' /\ unnoticed \subseteq unnoticed'
    BY <1>4 DEF RecordingShows, device, worker, voiceCounts, callers, quiet, kept
  <2> QED BY <2>1 DEF Settled, Done, Whole
<1>5. CASE HoldEnds
  <2>1. audio' = audio /\ heard' = heard /\ lost \subseteq lost' /\ unnoticed \subseteq unnoticed'
    BY <1>5 DEF HoldEnds, device, worker, voiceCounts, callers, quiet, kept
  <2> QED BY <2>1 DEF Settled, Done, Whole
<1>6. CASE Stop
  <2>1. Due' = {}
    BY <1>6 DEF Stop, Forget, Due
  <2> QED BY <2>1
<1>7. CASE DropQueued
  <2>1. audio' = audio /\ heard' = heard /\ lost \subseteq lost' /\ unnoticed \subseteq unnoticed'
    BY <1>7 DEF DropQueued, device, worker, voiceCounts, callers, quiet, kept
  <2> QED BY <2>1 DEF Settled, Done, Whole
<1>8. CASE Close
  <2>1. audio' = audio /\ heard' = heard /\ lost \subseteq lost' /\ unnoticed \subseteq unnoticed'
    BY <1>8 DEF Close, device, worker, voiceCounts, callers, quiet, kept
  <2> QED BY <2>1 DEF Settled, Done, Whole
<1>9. CASE Get
  <2>1. heard' = heard /\ lost' = lost /\ unnoticed' = unnoticed /\ lines # <<>>
    BY <1>9 DEF Get, quiet, kept, callers
  <2>2. Head(lines) # 0
    <3>1. ~gone /\ 1 \in 1..Len(lines) /\ Head(lines) = lines[1]
      BY <2>1, GoneStays, NextLine
    <3> QED BY <3>1 DEF Queue
  <2>3. audio' = audio
    BY <1>9, <2>2 DEF Get, device
  <2> QED BY <2>1, <2>3 DEF Settled, Done, Whole
<1>10. CASE WaitHeld
  <2>1. heard' = heard /\ lost' = lost /\ unnoticed' = unnoticed /\ (CutForHold \/ audio' = audio)
    BY <1>10 DEF WaitHeld, device, Notice, quiet, kept, callers
  <2>2. CASE CutForHold
    BY <2>1, <2>2, CutSettled
  <2>3. CASE audio' = audio
    BY <2>1, <2>3 DEF Settled, Done, Whole
  <2> QED BY <2>1, <2>2, <2>3
<1>11. CASE Loop
  <2>1. audio' = audio /\ heard' = heard /\ lost \subseteq lost' /\ unnoticed \subseteq unnoticed'
    BY <1>11 DEF Loop, device, worker, voiceCounts, callers, quiet, kept
  <2> QED BY <2>1 DEF Settled, Done, Whole
<1>12. CASE HeldTail
  <2>1. audio' = audio /\ heard' = heard /\ lost \subseteq lost' /\ unnoticed \subseteq unnoticed'
    BY <1>12 DEF HeldTail, device, worker, voiceCounts, callers, quiet, kept
  <2> QED BY <2>1 DEF Settled, Done, Whole
<1>13. CASE SayAgain
  <2>1. audio' = audio /\ heard' = heard /\ lost \subseteq lost' /\ unnoticed \subseteq unnoticed'
    BY <1>13 DEF SayAgain, device, worker, voiceCounts, callers, quiet, kept
  <2> QED BY <2>1 DEF Settled, Done, Whole
<1>14. CASE Open
  <2>1. audio' = audio /\ heard' = heard /\ lost \subseteq lost' /\ unnoticed \subseteq unnoticed'
    BY <1>14 DEF Open, device, worker, voiceCounts, callers, quiet, kept
  <2> QED BY <2>1 DEF Settled, Done, Whole
<1>15. CASE List
  <2>1. audio' = audio /\ heard' = heard /\ lost \subseteq lost' /\ unnoticed \subseteq unnoticed'
    BY <1>15 DEF List, device, worker, voiceCounts, callers, quiet, kept
  <2> QED BY <2>1 DEF Settled, Done, Whole
<1>16. CASE Chunk
  <2>1. heard' = heard /\ lost' = lost /\ unnoticed' = unnoticed /\ (CutForHold \/ audio' = audio)
    BY <1>16 DEF Chunk, device, Notice, quiet, kept, callers
  <2>2. CASE CutForHold
    BY <2>1, <2>2, CutSettled
  <2>3. CASE audio' = audio
    BY <2>1, <2>3 DEF Settled, Done, Whole
  <2> QED BY <2>1, <2>2, <2>3
<1>17. CASE Write
  <2>1. heard' = heard /\ lost \subseteq lost' /\ unnoticed' = unnoticed
    BY <1>17 DEF Write, quiet, kept
  <2>2. Whole \subseteq Whole'
    BY <1>17, WriteWhole
  <2> QED BY <2>1, <2>2 DEF Settled, Done
<1>18. CASE StreamEnds
  <2>1. heard' = heard /\ lost' = lost /\ unnoticed' = unnoticed /\ (CutForHold \/ audio' = audio)
    BY <1>18 DEF StreamEnds, device, Notice, quiet, kept, callers
  <2>2. CASE CutForHold
    BY <2>1, <2>2, CutSettled
  <2>3. CASE audio' = audio
    BY <2>1, <2>3 DEF Settled, Done, Whole
  <2> QED BY <2>1, <2>2, <2>3
<1>19. CASE Said
  <2>1. audio' = audio /\ heard' = heard /\ lost \subseteq lost' /\ unnoticed \subseteq unnoticed'
    BY <1>19 DEF Said, device, worker, voiceCounts, callers, quiet, kept
  <2> QED BY <2>1 DEF Settled, Done, Whole
<1>20. CASE Idle
  <2>0. ~gone
    BY GoneStays
  <2>1. /\ heard' = heard /\ lost' = lost /\ unnoticed' = unnoticed
        /\ CutForHold \/ audio' = audio \/ (Unheard = {} /\ audio' = <<>>)
    BY <1>20, <2>0 DEF Idle, Leaves, LetGo, device, quiet, kept, callers
  <2>2. CASE CutForHold
    BY <2>1, <2>2, CutSettled
  <2>3. CASE audio' = audio
    BY <2>1, <2>3 DEF Settled, Done, Whole
  <2>4. CASE Unheard = {} /\ audio' = <<>>
    <3>1. Cut = {}
      BY <2>4 DEF Cut
    <3>2. Whole \subseteq Done
      BY <3>1, WholeIsAudible, CutIsUnheard DEF SoundsListed
    <3> QED BY <2>1, <3>2 DEF Settled, Done
  <2> QED BY <2>1, <2>2, <2>3, <2>4
<1>21. CASE Fail
  <2>1. audio' = audio /\ heard' = heard /\ lost \subseteq lost' /\ unnoticed \subseteq unnoticed'
    BY <1>21, FailKeeps, FailLeads DEF WorkerTypes
  <2> QED BY <2>1 DEF Settled, Done, Whole
<1>22. CASE Plays
  <2>1. lost' = lost /\ unnoticed' = unnoticed
    BY <1>22 DEF Plays, quiet, kept, callers
  <2> QED BY <1>22, <2>1, PlaysWhole DEF Settled, Done, quiet, kept, callers
<1> QED
  BY <1>1, <1>2, <1>3, <1>4, <1>5, <1>6, <1>7, <1>8, <1>9, <1>10, <1>11, <1>12, <1>13, <1>14, <1>15, <1>16, <1>17, <1>18, <1>19, <1>20, <1>21, <1>22 DEF VoiceNext, WorkerStep

\* What waits to be said again stays, or is taken in hand.
LEMMA ReplayStep ==
  ASSUME VoiceNext, ~gone'
  PROVE  replay \cap Due' \subseteq replay' \cup InHand'
<1>1. CASE Say
  <2>1. replay' = replay
    BY <1>1 DEF Say, device, worker, voiceCounts, callers, quiet, kept
  <2> QED BY <2>1
<1>2. CASE Put
  <2>1. replay' = replay
    BY <1>2 DEF Put, device, worker, voiceCounts, callers, quiet, kept
  <2> QED BY <2>1
<1>3. CASE Pause
  <2>1. replay' = replay \cup Cut
    BY <1>3, CutStep DEF Pause, Notice
  <2> QED BY <2>1
<1>4. CASE RecordingShows
  <2>1. replay' = replay
    BY <1>4 DEF RecordingShows, device, worker, voiceCounts, callers, quiet, kept
  <2> QED BY <2>1
<1>5. CASE HoldEnds
  <2>1. replay' = replay
    BY <1>5 DEF HoldEnds, device, worker, voiceCounts, callers, quiet, kept
  <2> QED BY <2>1
<1>6. CASE Stop
  <2>1. Due' = {}
    BY <1>6 DEF Stop, Forget, Due
  <2> QED BY <2>1
<1>7. CASE DropQueued
  <2>1. replay' = replay
    BY <1>7 DEF DropQueued, device, worker, voiceCounts, callers, quiet, kept
  <2> QED BY <2>1
<1>8. CASE Close
  <2>1. replay' = replay
    BY <1>8 DEF Close, device, worker, voiceCounts, callers, quiet, kept
  <2> QED BY <2>1
<1>9. CASE Get
  <2>1. replay' = replay
    BY <1>9 DEF Get, device, worker, voiceCounts, callers, quiet, kept
  <2> QED BY <2>1
<1>10. CASE WaitHeld
  <2>1. replay' = replay \cup Cut
    BY <1>10, CutStep DEF WaitHeld, Notice
  <2> QED BY <2>1
<1>11. CASE Loop
  <2>1. \/ replay' = replay
        \/ replay # {} /\ replay' = replay \ {Min(replay)} /\ wpc' = "again" /\ cur' = Min(replay)
        \/ replay # {} /\ replay' = replay \ {Min(replay)} /\ ~Current(LineOf(Min(replay))) /\ valid' = valid
    BY <1>11, Zenon DEF Loop, TakeReplay, Goto, quiet, kept, callers
  <2>2. ~gone
    BY GoneStays
  <2> QED BY <2>1, <2>2 DEF InHand, Hands, Current, Due
<1>12. CASE HeldTail
  <2>1. \/ replay' = replay
        \/ replay # {} /\ replay' = replay \ {Min(replay)} /\ wpc' = "again" /\ cur' = Min(replay)
        \/ replay # {} /\ replay' = replay \ {Min(replay)} /\ ~Current(LineOf(Min(replay))) /\ valid' = valid
    BY <1>12, Zenon DEF HeldTail, TakeReplay, Goto, quiet, kept, callers
  <2>2. ~gone
    BY GoneStays
  <2> QED BY <2>1, <2>2 DEF InHand, Hands, Current, Due
<1>13. CASE SayAgain
  <2>1. replay' = replay
    BY <1>13 DEF SayAgain, device, worker, voiceCounts, callers, quiet, kept
  <2> QED BY <2>1
<1>14. CASE Open
  <2>1. replay' = replay
    BY <1>14 DEF Open, device, worker, voiceCounts, callers, quiet, kept
  <2> QED BY <2>1
<1>15. CASE List
  <2>1. replay' = replay
    BY <1>15 DEF List, device, worker, voiceCounts, callers, quiet, kept
  <2> QED BY <2>1
<1>16. CASE Chunk
  <2>1. CutForHold \/ replay' = replay
    BY <1>16 DEF Chunk
  <2> QED BY <2>1, CutStep
<1>17. CASE Write
  <2>1. replay' = replay
    BY <1>17 DEF Write, device, worker, voiceCounts, callers, quiet, kept
  <2> QED BY <2>1
<1>18. CASE StreamEnds
  <2>1. CutForHold \/ replay' = replay
    BY <1>18 DEF StreamEnds
  <2> QED BY <2>1, CutStep
<1>19. CASE Said
  <2>1. replay' = replay
    BY <1>19 DEF Said, device, worker, voiceCounts, callers, quiet, kept
  <2> QED BY <2>1
<1>20. CASE Idle
  <2>1. CutForHold \/ replay' = replay
    BY <1>20 DEF Idle, Leaves
  <2> QED BY <2>1, CutStep
<1>21. CASE Fail
  <2>1. replay' = replay
    BY <1>21, FailKeeps, FailLeads DEF WorkerTypes
  <2> QED BY <2>1
<1>22. CASE Plays
  <2>1. replay' = replay
    BY <1>22 DEF Plays, device, worker, voiceCounts, callers, quiet, kept
  <2> QED BY <2>1
<1> QED
  BY <1>1, <1>2, <1>3, <1>4, <1>5, <1>6, <1>7, <1>8, <1>9, <1>10, <1>11, <1>12, <1>13, <1>14, <1>15, <1>16, <1>17, <1>18, <1>19, <1>20, <1>21, <1>22 DEF VoiceNext, WorkerStep

\* The piece in hand goes to the device, or is said again, or it is lost.
LEMMA HandStep ==
  ASSUME DeviceTypes, WorkerTypes, Where, Silent, HandListed, VoiceNext, ~gone'
  PROVE  InHand \cap Due' \subseteq InHand' \cup Settled' \cup replay'
<1>1. CASE Say
  <2>1. UNCHANGED <<wpc, cur>>
    BY <1>1 DEF Say, device, worker, voiceCounts, callers, quiet, kept
  <2> QED BY <2>1 DEF InHand, Hands
<1>2. CASE Put
  <2>1. UNCHANGED <<wpc, cur>>
    BY <1>2 DEF Put, device, worker, voiceCounts, callers, quiet, kept
  <2> QED BY <2>1 DEF InHand, Hands
<1>3. CASE Pause
  <2>1. UNCHANGED <<wpc, cur>>
    BY <1>3 DEF Pause, device, worker, voiceCounts, callers, quiet, kept
  <2> QED BY <2>1 DEF InHand, Hands
<1>4. CASE RecordingShows
  <2>1. UNCHANGED <<wpc, cur>>
    BY <1>4 DEF RecordingShows, device, worker, voiceCounts, callers, quiet, kept
  <2> QED BY <2>1 DEF InHand, Hands
<1>5. CASE HoldEnds
  <2>1. UNCHANGED <<wpc, cur>>
    BY <1>5 DEF HoldEnds, device, worker, voiceCounts, callers, quiet, kept
  <2> QED BY <2>1 DEF InHand, Hands
<1>6. CASE Stop
  <2>1. UNCHANGED <<wpc, cur>>
    BY <1>6 DEF Stop, device, worker, voiceCounts, callers, quiet, kept
  <2> QED BY <2>1 DEF InHand, Hands
<1>7. CASE DropQueued
  <2>1. UNCHANGED <<wpc, cur>>
    BY <1>7 DEF DropQueued, device, worker, voiceCounts, callers, quiet, kept
  <2> QED BY <2>1 DEF InHand, Hands
<1>8. CASE Close
  <2>1. UNCHANGED <<wpc, cur>>
    BY <1>8 DEF Close, device, worker, voiceCounts, callers, quiet, kept
  <2> QED BY <2>1 DEF InHand, Hands
<1>9. CASE Get
  <2>1. wpc = "get"
    BY <1>9 DEF Get, At
  <2> QED BY <2>1 DEF InHand, Hands
<1>10. CASE WaitHeld
  <2>1. UNCHANGED <<wpc, cur>>
    BY <1>10 DEF WaitHeld, device, worker, voiceCounts, callers, quiet, kept
  <2> QED BY <2>1 DEF InHand, Hands
<1>11. CASE Loop
  <2>1. wpc = "loop"
    BY <1>11 DEF Loop, At
  <2> QED BY <2>1 DEF InHand, Hands
<1>12. CASE HeldTail
  <2>1. wpc = "tail"
    BY <1>12 DEF HeldTail, At
  <2> QED BY <2>1 DEF InHand, Hands
<1>13. CASE SayAgain
  <2>1. cur' = cur /\ (wpc' = "open" \/ ~Current(LineOf(cur))) /\ valid' = valid /\ ~gone
    BY <1>13, GoneStays, Zenon DEF SayAgain, Goto, quiet, kept, callers
  <2> QED BY <2>1 DEF InHand, Hands, Current, Due
<1>14. CASE Open
  <2>1. cur' = cur /\ (wpc' = "opened" \/ LineOf(cur) \notin valid) /\ valid' = valid
    BY <1>14, Zenon DEF Open, Goto, quiet, kept, callers
  <2> QED BY <2>1 DEF InHand, Hands, Due
<1>15. CASE List
  <2>1. cur' = cur /\ wpc' = "streaming"
    BY <1>15 DEF List, Goto
  <2> QED BY <2>1 DEF InHand, Hands
<1>16. CASE Chunk
  <2>1. cur' = cur /\ wpc = "streaming" /\ (wpc' = "writing" \/ ~Current(LineOf(cur)) \/ CutForHold) /\ valid' = valid /\ ~gone
    BY <1>16, GoneStays, Zenon DEF Chunk, At, Goto, quiet, kept, callers
  <2>2. CASE wpc' = "writing"
    BY <2>1, <2>2 DEF InHand, Hands
  <2>3. CASE ~Current(LineOf(cur))
    BY <2>1, <2>3 DEF InHand, Current, Due
  <2>4. CASE CutForHold
    <3>1. Due' = Due
      BY <2>1 DEF Due
    <3>2. cur \in Due => cur \in replay'
      BY <2>1, <2>4, CutStep, CutIsUnheard DEF HandListed
    <3> QED BY <3>1, <3>2 DEF InHand
  <2> QED BY <2>1, <2>2, <2>3, <2>4
<1>17. CASE Write
  <2>1. cur' = cur /\ wpc = "writing" /\ valid' = valid /\ replay' = replay /\ ~gone
    BY <1>17, GoneStays DEF Write, At, quiet, kept, callers
  <2>2. Due' = Due
    BY <2>1 DEF Due
  <2>3. cur \in Due => cur \in replay' \cup Whole' \cup lost'
    <3>1. SUFFICES ASSUME cur \in Due, cur \notin replay PROVE cur \in Whole' \cup lost'
      BY <2>1
    <3>2. ~usable => {p \in {cur} : Listed(p)} \subseteq lost'
      BY <1>17 DEF Write
    <3>3. cur \in InDev
      BY <2>1, <3>1 DEF HandListed, HalfSaid, InDev
    <3>4. Listed(cur)
      BY <3>3 DEF Listed, InDev
    <3> QED BY <1>17, <3>2, <3>3, <3>4, WriteWhole
  <2> QED BY <2>2, <2>3 DEF InHand, Settled, Done
<1>18. CASE StreamEnds
  <2>1. wpc = "ending"
    BY <1>18 DEF StreamEnds, At
  <2> QED BY <2>1 DEF InHand, Hands
<1>19. CASE Said
  <2>1. wpc = "said"
    BY <1>19 DEF Said, At
  <2> QED BY <2>1 DEF InHand, Hands
<1>20. CASE Idle
  <2>1. wpc = "idle"
    BY <1>20 DEF Idle, At
  <2> QED BY <2>1 DEF InHand, Hands
<1>21. CASE Fail
  <2>1. cur \in lost'
    BY <1>21, FailKeeps, FailLeads DEF WorkerTypes
  <2> QED BY <2>1 DEF InHand, Settled, Done
<1>22. CASE Plays
  <2>1. UNCHANGED <<wpc, cur>>
    BY <1>22 DEF Plays, device, worker, voiceCounts, callers, quiet, kept
  <2> QED BY <2>1 DEF InHand, Hands
<1> QED
  BY <1>1, <1>2, <1>3, <1>4, <1>5, <1>6, <1>7, <1>8, <1>9, <1>10, <1>11, <1>12, <1>13, <1>14, <1>15, <1>16, <1>17, <1>18, <1>19, <1>20, <1>21, <1>22 DEF VoiceNext, WorkerStep

-----------------------------------------------------------------------------
(* What is still to come.                                                   *)

\* The pieces still to come of a line depend on the line, the next index and the place of the worker only.
LEMMA RestSame ==
  ASSUME item' = item, NextIndex' = NextIndex, wpc # "said" <=> wpc' # "said"
  PROVE  Rest' = Rest
BY DEF Rest

\* The pieces behind the one in hand.
LEMMA NextPiece ==
  ASSUME WorkerTypes, Where, item # 0
  PROVE  PieceOf(item, index + 1) = PieceOf(item, index) + 1 /\ PieceOf(item, index) \in Nat
<1>1. item \in Lines /\ index \in 1..Pieces
  BY OwnPiece
<1> QED BY <1>1, PiecesOfLine, PieceNumbers

\* After the last piece of a line there is no other.
LEMMA LastPiece ==
  ASSUME WorkerTypes, Where, item # 0, index = Pieces, NextIndex = index + 1
  PROVE  Rest = {}
<1>1. SUFFICES ASSUME NEW p \in Rest PROVE FALSE
  OBVIOUS
<1>2. p \in PieceIds /\ LineOf(p) = item /\ PieceOf(item, Pieces + 1) <= p
  BY <1>1 DEF Rest
<1>3. p <= PieceOf(item, Pieces) /\ PieceOf(item, Pieces + 1) = PieceOf(item, Pieces) + 1
  BY <1>2, PiecesAreTheLine
<1>4. PieceOf(item, Pieces) \in Nat /\ p \in Nat
  <2>1. PieceOf(item, index) \in PieceIds
    BY OwnPiece
  <2> QED BY <1>2, <2>1, PieceNumbers
<1> QED BY <1>2, <1>3, <1>4

\* How an outcome of _speak_piece changes the pieces still to come.
LEMMA OverRest ==
  ASSUME WorkerTypes, Where, wpc \in Speaking, NEW stopped \in BOOLEAN, Over(stopped), UNCHANGED <<item, cur, back, valid>>,
         stopped => LineOf(cur) \notin valid
  PROVE  Rest' \subseteq Rest /\ Rest \cap Due' \subseteq Rest'
<1>1. /\ wpc' \notin InPiece
      /\ \/ back # "" /\ wpc' = back /\ index' = index
         \/ back = "" /\ wpc' = "said" /\ index' = index /\ (stopped \/ index = Pieces)
         \/ back = "" /\ wpc' = "loop" /\ ~stopped /\ index # Pieces /\ index' = index + 1
  BY OverStep
<1>2. wpc # "said" /\ wpc' \notin Speaking
  BY <1>1 DEF Speaking, InPiece
<1>3. CASE back # "" /\ wpc' = back /\ index' = index
  <2>1. wpc' # "said"
    BY <1>3 DEF WorkerTypes
  <2>2. NextIndex' = NextIndex
    BY <1>2, <1>3 DEF NextIndex, Speaking
  <2> QED BY <1>2, <2>1, <2>2, RestSame
<1>4. CASE back = "" /\ wpc' = "said" /\ index' = index /\ (stopped \/ index = Pieces)
  <2>1. Rest' = {}
    BY <1>4 DEF Rest
  <2>2. item # 0 /\ cur = PieceOf(item, index) /\ LineOf(cur) = item /\ NextIndex = index + 1
    BY <1>4, OwnPiece DEF Where, NextIndex
  <2>3. CASE stopped
    BY <2>1, <2>2, <2>3 DEF Rest, Due
  <2>4. CASE index = Pieces
    BY <2>1, <2>2, <2>4, LastPiece
  <2> QED BY <1>4, <2>3, <2>4
<1>5. CASE back = "" /\ wpc' = "loop" /\ ~stopped /\ index # Pieces /\ index' = index + 1
  <2>1. NextIndex' = NextIndex
    BY <1>2, <1>5 DEF NextIndex, Speaking
  <2> QED BY <1>2, <1>5, <2>1, RestSame
<1> QED BY <1>1, <1>3, <1>4, <1>5

\* The line in hand: its next piece is taken in hand, the others stay to come, unless it is lost or stopped.
LEMMA RestStep ==
  ASSUME QueueTypes, WorkerTypes, Where, VoiceNext, ~gone'
  PROVE  /\ Rest' \subseteq Rest \cup {p \in Queued : wpc = "get" /\ LineOf(p) = Head(lines) /\ LineOf(p) = item'}
         /\ Rest \cap Due' \subseteq Rest' \cup InHand' \cup lost'
         /\ wpc = "loop" /\ wpc' = "open" => \A a \in Rest' : PieceOf(item, index) < a
<1>1. CASE Say
  <2>1. UNCHANGED <<wpc, item, index, back>>
    BY <1>1 DEF Say, device, worker, voiceCounts, callers, quiet, kept
  <2>2. NextIndex' = NextIndex
    BY <2>1 DEF NextIndex, Speaking
  <2> QED BY <2>1, <2>2, RestSame
<1>2. CASE Put
  <2>1. UNCHANGED <<wpc, item, index, back>>
    BY <1>2 DEF Put, device, worker, voiceCounts, callers, quiet, kept
  <2>2. NextIndex' = NextIndex
    BY <2>1 DEF NextIndex, Speaking
  <2> QED BY <2>1, <2>2, RestSame
<1>3. CASE Pause
  <2>1. UNCHANGED <<wpc, item, index, back>>
    BY <1>3 DEF Pause, device, worker, voiceCounts, callers, quiet, kept
  <2>2. NextIndex' = NextIndex
    BY <2>1 DEF NextIndex, Speaking
  <2> QED BY <2>1, <2>2, RestSame
<1>4. CASE RecordingShows
  <2>1. UNCHANGED <<wpc, item, index, back>>
    BY <1>4 DEF RecordingShows, device, worker, voiceCounts, callers, quiet, kept
  <2>2. NextIndex' = NextIndex
    BY <2>1 DEF NextIndex, Speaking
  <2> QED BY <2>1, <2>2, RestSame
<1>5. CASE HoldEnds
  <2>1. UNCHANGED <<wpc, item, index, back>>
    BY <1>5 DEF HoldEnds, device, worker, voiceCounts, callers, quiet, kept
  <2>2. NextIndex' = NextIndex
    BY <2>1 DEF NextIndex, Speaking
  <2> QED BY <2>1, <2>2, RestSame
<1>6. CASE Stop
  <2>1. UNCHANGED <<wpc, item, index, back>>
    BY <1>6 DEF Stop, device, worker, voiceCounts, callers, quiet, kept
  <2>2. NextIndex' = NextIndex
    BY <2>1 DEF NextIndex, Speaking
  <2> QED BY <2>1, <2>2, RestSame
<1>7. CASE DropQueued
  <2>1. UNCHANGED <<wpc, item, index, back>>
    BY <1>7 DEF DropQueued, device, worker, voiceCounts, callers, quiet, kept
  <2>2. NextIndex' = NextIndex
    BY <2>1 DEF NextIndex, Speaking
  <2> QED BY <2>1, <2>2, RestSame
<1>8. CASE Close
  <2>1. UNCHANGED <<wpc, item, index, back>>
    BY <1>8 DEF Close, device, worker, voiceCounts, callers, quiet, kept
  <2>2. NextIndex' = NextIndex
    BY <2>1 DEF NextIndex, Speaking
  <2> QED BY <2>1, <2>2, RestSame
<1>9. CASE Get
  <2>1. wpc = "get" /\ lines # <<>> /\ back' = back
    BY <1>9 DEF Get, At
  <2>2. item = 0
    BY <2>1 DEF Where
  <2>3. Rest = {}
    BY <2>2 DEF Rest
  <2>4. CASE item' = 0
    BY <2>1, <2>3, <2>4 DEF Rest
  <2>5. CASE item' # 0
    <3>1. item' = Head(lines)
      BY <1>9, <2>2, <2>5 DEF Get
    <3>2. Head(lines) = lines[1] /\ 1 \in 1..Len(lines)
      BY <2>1, NextLine
    <3>3. \A p \in Rest' : p \in Queued /\ LineOf(p) = Head(lines) /\ LineOf(p) = item'
      BY <3>1, <3>2 DEF Rest, Queued
    <3> QED BY <2>1, <2>3, <3>3
  <2> QED BY <2>4, <2>5
<1>10. CASE WaitHeld
  <2>1. UNCHANGED <<wpc, item, index, back>>
    BY <1>10 DEF WaitHeld, device, worker, voiceCounts, callers, quiet, kept
  <2>2. NextIndex' = NextIndex
    BY <2>1 DEF NextIndex, Speaking
  <2> QED BY <2>1, <2>2, RestSame
<1>11. CASE Loop
  <2>1. wpc = "loop" /\ item # 0 /\ index \in 1..Pieces /\ item' = item /\ index' = index /\ valid' = valid /\ ~gone
    BY <1>11, GoneStays DEF Loop, At, Where, quiet, kept, callers
  <2>2. \/ wpc' \in {"again", "loop"}
        \/ wpc' = "open" /\ cur' = PieceOf(item, index) /\ back' = ""
        \/ wpc' = "said" /\ ~Current(item)
    BY <1>11, Zenon DEF Loop, TakeReplay, Goto
  <2>3. NextIndex = index
    BY <2>1 DEF NextIndex, Speaking
  <2>4. CASE wpc' \in {"again", "loop"}
    <3>1. NextIndex' = NextIndex
      BY <2>1, <2>3, <2>4 DEF NextIndex, Speaking
    <3> QED BY <2>1, <2>4, <3>1, RestSame
  <2>5. CASE wpc' = "open" /\ cur' = PieceOf(item, index) /\ back' = ""
    <3>1. NextIndex' = index + 1
      BY <2>1, <2>5 DEF NextIndex, Speaking
    <3>2. PieceOf(item, index + 1) = PieceOf(item, index) + 1 /\ PieceOf(item, index) \in Nat
      BY <2>1, NextPiece
    <3>3. Rest = {p \in PieceIds : LineOf(p) = item /\ PieceOf(item, index) <= p}
      BY <2>1, <2>3 DEF Rest
    <3>4. Rest' = {p \in PieceIds : LineOf(p) = item /\ PieceOf(item, index) + 1 <= p}
      BY <2>1, <2>5, <3>1, <3>2 DEF Rest
    <3>5. \A p \in PieceIds : p \in Nat /\ (PieceOf(item, index) <= p <=> (PieceOf(item, index) + 1 <= p \/ p = PieceOf(item, index)))
      BY <3>2, PieceNumbers
    <3>6. Rest' \subseteq Rest /\ (\A a \in Rest' : PieceOf(item, index) < a)
      BY <3>2, <3>3, <3>4, <3>5
    <3>7. \A p \in Rest : p \in Rest' \/ p = PieceOf(item, index)
      BY <3>3, <3>4, <3>5
    <3>8. InHand' = {PieceOf(item, index)}
      BY <2>5 DEF InHand, Hands
    <3> QED BY <3>6, <3>7, <3>8
  <2>6. CASE wpc' = "said" /\ ~Current(item)
    <3>1. Rest' = {} /\ Rest \cap Due' = {}
      BY <2>1, <2>6 DEF Rest, Due, Current
    <3> QED BY <2>6, <3>1
  <2> QED BY <2>2, <2>4, <2>5, <2>6
<1>12. CASE HeldTail
  <2>1. item = 0 /\ item' = item /\ wpc = "tail"
    BY <1>12 DEF HeldTail, At, Where
  <2> QED BY <2>1 DEF Rest
<1>13. CASE SayAgain
  <2>1. wpc = "again" /\ UNCHANGED <<item, index, back>> /\ wpc' \in {"open", back} /\ back # "" /\ back \in {"", "loop", "tail"}
    BY <1>13 DEF SayAgain, At, Goto, Where, WorkerTypes
  <2>2. NextIndex' = NextIndex /\ wpc' # "said"
    BY <2>1 DEF NextIndex, Speaking
  <2> QED BY <2>1, <2>2, RestSame
<1>14. CASE Open
  <2>1. wpc = "open" /\ UNCHANGED <<item, cur, back, valid>>
    BY <1>14 DEF Open, At, quiet, kept, callers
  <2>2. (Over(TRUE) /\ LineOf(cur) \notin valid) \/ (wpc' = "opened" /\ index' = index)
    BY <1>14, Zenon DEF Open, Goto
  <2>3. CASE Over(TRUE) /\ LineOf(cur) \notin valid
    <3>1. wpc \in Speaking
      BY <2>1 DEF Speaking
    <3> QED BY <2>1, <2>3, <3>1, OverRest
  <2>4. CASE wpc' = "opened" /\ index' = index
    <3>1. NextIndex' = NextIndex
      BY <2>1, <2>4 DEF NextIndex, Speaking
    <3> QED BY <2>1, <2>4, <3>1, RestSame
  <2> QED BY <2>2, <2>3, <2>4
<1>15. CASE List
  <2>1. wpc = "opened" /\ wpc' = "streaming" /\ UNCHANGED <<item, index, back>>
    BY <1>15 DEF List, At, Goto
  <2>2. NextIndex' = NextIndex
    BY <2>1 DEF NextIndex, Speaking
  <2> QED BY <2>1, <2>2, RestSame
<1>16. CASE Chunk
  <2>1. wpc = "streaming" /\ wpc \in Speaking /\ UNCHANGED <<item, cur, back, valid>> /\ ~gone
    BY <1>16, GoneStays DEF Chunk, At, quiet, kept, callers, Speaking
  <2>2. (Over(TRUE) /\ ~Current(LineOf(cur))) \/ Over(FALSE) \/ (wpc' = "writing" /\ index' = index)
    BY <1>16, Zenon DEF Chunk, Goto
  <2>3. CASE Over(TRUE) /\ ~Current(LineOf(cur))
    <3>1. LineOf(cur) \notin valid
      BY <2>1, <2>3 DEF Current
    <3> QED BY <2>1, <2>3, <3>1, OverRest
  <2>4. CASE Over(FALSE)
    BY <2>1, <2>4, OverRest
  <2>5. CASE wpc' = "writing" /\ index' = index
    <3>1. NextIndex' = NextIndex
      BY <2>1, <2>5 DEF NextIndex, Speaking
    <3> QED BY <2>1, <2>5, <3>1, RestSame
  <2> QED BY <2>2, <2>3, <2>4, <2>5
<1>17. CASE Write
  <2>1. wpc = "writing" /\ wpc' = "ending" /\ UNCHANGED <<item, index, back>>
    BY <1>17 DEF Write, At, Goto
  <2>2. NextIndex' = NextIndex
    BY <2>1 DEF NextIndex, Speaking
  <2> QED BY <2>1, <2>2, RestSame
<1>18. CASE StreamEnds
  <2>1. wpc = "ending" /\ wpc \in Speaking /\ UNCHANGED <<item, cur, back, valid>> /\ ~gone
    BY <1>18, GoneStays DEF StreamEnds, At, quiet, kept, callers, Speaking
  <2>2. (Over(TRUE) /\ ~Current(LineOf(cur))) \/ Over(FALSE)
    BY <1>18, Zenon DEF StreamEnds, Goto
  <2>3. CASE Over(TRUE) /\ ~Current(LineOf(cur))
    <3>1. LineOf(cur) \notin valid
      BY <2>1, <2>3 DEF Current
    <3> QED BY <2>1, <2>3, <3>1, OverRest
  <2>4. CASE Over(FALSE)
    BY <2>1, <2>4, OverRest
  <2> QED BY <2>2, <2>3, <2>4
<1>19. CASE Said
  <2>1. wpc = "said" /\ item' = 0
    BY <1>19 DEF Said, At
  <2>2. Rest = {} /\ Rest' = {}
    BY <2>1 DEF Rest
  <2> QED BY <2>1, <2>2
<1>20. CASE Idle
  <2>1. item = 0 /\ item' = item /\ wpc = "idle"
    BY <1>20 DEF Idle, At, Where
  <2> QED BY <2>1 DEF Rest
<1>21. CASE Fail
  <2>1. /\ wpc \in Speaking /\ UNCHANGED <<item, index, back>>
        /\ back = "" => wpc' = "said"
        /\ back = "loop" => wpc' \in {"said", "loop"}
        /\ back \in {"", "loop", "tail"}
        /\ wpc' = "said" => {p \in PieceIds : LineOf(p) = item /\ p >= PieceOf(item, index)} \subseteq lost'
    BY <1>21, FailLeads DEF WorkerTypes, Speaking
  <2>2. back = "tail" <=> item = 0
    BY <2>1 DEF Where, InPiece
  <2>3. CASE wpc' = "loop" /\ back = "loop"
    <3>1. NextIndex' = NextIndex /\ wpc # "said"
      BY <2>1, <2>3 DEF NextIndex, Speaking
    <3> QED BY <2>1, <2>3, <3>1, RestSame
  <2>4. CASE back = "tail"
    BY <2>1, <2>2, <2>4 DEF Rest
  <2>5. CASE wpc' = "said" /\ back # "tail"
    <3>1. item # 0
      BY <2>2, <2>5
    <3>2. PieceOf(item, index + 1) = PieceOf(item, index) + 1 /\ PieceOf(item, index) \in Nat
      BY <3>1, NextPiece
    <3>3. \A p \in Rest : p \in PieceIds /\ p \in Nat /\ LineOf(p) = item /\ PieceOf(item, NextIndex) <= p
      BY PieceNumbers DEF Rest
    <3>4. NextIndex \in {index, index + 1}
      BY DEF NextIndex
    <3>5. \A p \in Rest : p >= PieceOf(item, index)
      BY <3>2, <3>3, <3>4
    <3>6. Rest \subseteq lost'
      BY <2>1, <2>5, <3>3, <3>5
    <3>7. Rest' = {}
      BY <2>5 DEF Rest
    <3> QED BY <2>1, <2>5, <3>6, <3>7
  <2> QED BY <2>1, <2>3, <2>4, <2>5
<1>22. CASE Plays
  <2>1. UNCHANGED <<wpc, item, index, back>>
    BY <1>22 DEF Plays, device, worker, voiceCounts, callers, quiet, kept
  <2>2. NextIndex' = NextIndex
    BY <2>1 DEF NextIndex, Speaking
  <2> QED BY <2>1, <2>2, RestSame
<1> QED
  BY <1>1, <1>2, <1>3, <1>4, <1>5, <1>6, <1>7, <1>8, <1>9, <1>10, <1>11, <1>12, <1>13, <1>14, <1>15, <1>16, <1>17, <1>18, <1>19, <1>20, <1>21, <1>22 DEF VoiceNext, WorkerStep

\* The lines that wait: the first is taken in hand, the others stay, unless they are lost or stopped.
LEMMA QueuedStep ==
  ASSUME QueueTypes, WorkerTypes, Where, Queue, VoiceNext, ~gone'
  PROVE  /\ \A p \in Queued' : p \in Queued \/ (Say /\ p \in PieceIds /\ LineOf(p) = asked + 1)
         /\ Queued \cap Due' \subseteq Queued' \cup Rest' \cup lost'
<1>1. CASE Say
  <2>1. putting = 0 /\ putting' = asked + 1 /\ lines' = lines
    BY <1>1 DEF Say
  <2>2. \A p \in PieceIds : LineOf(p) # 0
    BY LinesInOrder, Constants
  <2> QED BY <1>1, <2>1, <2>2 DEF Queued
<1>2. CASE Put
  <2>1. putting # 0 /\ putting' = 0 /\ lines' = Append(lines, putting) /\ wpc' = wpc
    BY <1>2, GoneStays DEF Put, worker
  <2>2. /\ Len(lines) \in Nat /\ Len(lines') = Len(lines) + 1 /\ lines'[Len(lines) + 1] = putting
        /\ \A i \in 1..Len(lines) : lines'[i] = lines[i]
    BY <2>1 DEF QueueTypes
  <2>3. \A p \in PieceIds : LineOf(p) # 0
    BY LinesInOrder, Constants
  <2>4. ASSUME NEW p \in Queued PROVE p \in Queued'
    <3>1. CASE LineOf(p) = putting
      <4>1. Len(lines) + 1 \in 1..Len(lines')
        BY <2>2
      <4> QED BY <3>1, <2>2, <4>1 DEF Queued
    <3>2. CASE \E i \in 1..Len(lines) : lines[i] = LineOf(p)
      <4>1. PICK i \in 1..Len(lines) : lines[i] = LineOf(p)
        BY <3>2
      <4>2. i \in 1..Len(lines') /\ lines'[i] = LineOf(p)
        BY <2>2, <4>1
      <4> QED BY <4>2 DEF Queued
    <3> QED BY <3>1, <3>2 DEF Queued
  <2>5. ASSUME NEW p \in Queued' PROVE p \in Queued
    <3>1. p \in PieceIds /\ LineOf(p) # 0
      BY <2>3 DEF Queued
    <3>2. PICK i \in 1..Len(lines') : lines'[i] = LineOf(p)
      BY <2>1, <3>1 DEF Queued
    <3>3. i \in 1..Len(lines) \/ i = Len(lines) + 1
      BY <2>2
    <3> QED BY <2>2, <3>1, <3>2, <3>3 DEF Queued
  <2>6. Queued' \subseteq Queued /\ Queued \subseteq Queued'
    BY <2>4, <2>5
  <2> QED BY <2>6, <1>2
<1>3. CASE Pause
  <2>1. UNCHANGED <<putting, lines>>
    BY <1>3 DEF Pause, device, worker, voiceCounts, callers, quiet, kept
  <2> QED BY <2>1 DEF Queued
<1>4. CASE RecordingShows
  <2>1. UNCHANGED <<putting, lines>>
    BY <1>4 DEF RecordingShows, device, worker, voiceCounts, callers, quiet, kept
  <2> QED BY <2>1 DEF Queued
<1>5. CASE HoldEnds
  <2>1. UNCHANGED <<putting, lines>>
    BY <1>5 DEF HoldEnds, device, worker, voiceCounts, callers, quiet, kept
  <2> QED BY <2>1 DEF Queued
<1>6. CASE Stop
  <2>1. UNCHANGED <<putting, lines>>
    BY <1>6 DEF Stop, device, worker, voiceCounts, callers, quiet, kept
  <2> QED BY <2>1 DEF Queued
<1>7. CASE DropQueued
  <2>1. putting' = putting /\ lost' = lost \cup {p \in PieceIds : \E i \in DOMAIN lines : lines[i] = LineOf(p)}
    BY <1>7 DEF DropQueued, quiet, kept, callers
  <2>2. DOMAIN lines = 1..Len(lines) /\ \A i \in 1..Len(lines) : lines[i] # 0
    BY GoneStays, QueueNumbers DEF Queue
  <2>3. lines' = <<>>
    BY <1>7, <2>2 DEF DropQueued, DropQueue
  <2>4. Len(lines') = 0
    BY <2>3
  <2> QED BY <2>1, <2>2, <2>4 DEF Queued
<1>8. CASE Close
  <2> QED BY <1>8 DEF Close
<1>9. CASE Get
  <2> DEFINE n == Head(lines)
  <2>1. wpc = "get" /\ lines # <<>> /\ lines' = Tail(lines) /\ putting' = putting /\ valid' = valid /\ ~gone
    BY <1>9, GoneStays DEF Get, At, quiet, kept, callers
  <2>2. /\ n = lines[1] /\ 1 \in 1..Len(lines) /\ Len(lines) \in Nat /\ Len(lines') = Len(lines) - 1
        /\ \A i \in 1..Len(lines') : i + 1 \in 1..Len(lines) /\ lines'[i] = lines[i + 1]
    BY <2>1, NextLine
  <2>3. n # 0
    BY <2>1, <2>2 DEF Queue
  <2>4. IF n \in valid THEN item' = n /\ wpc' = "loop" /\ index' = 1 ELSE TRUE
    BY <1>9, <2>1, <2>3 DEF Get, Goto, Current
  <2> HIDE DEF n
  <2>5. Queued' \subseteq Queued
    <3>1. ASSUME NEW p \in Queued' PROVE p \in Queued
      <4>1. CASE LineOf(p) = putting
        BY <4>1, <2>1 DEF Queued
      <4>2. CASE \E i \in 1..Len(lines') : lines'[i] = LineOf(p)
        BY <4>2, <2>2 DEF Queued
      <4> QED BY <4>1, <4>2, <2>1 DEF Queued
    <3> QED BY <3>1
  <2>6. ASSUME NEW p \in Queued, p \in Due', p \notin Queued' PROVE p \in Rest'
    <3>1. p \in PieceIds /\ LineOf(p) # putting /\ LineOf(p) \in valid
      BY <2>1, <2>6 DEF Queued, Due
    <3>2. PICK i \in 1..Len(lines) : lines[i] = LineOf(p)
      BY <2>6, <3>1 DEF Queued
    <3>3. i = 1
      <4>1. SUFFICES ASSUME i # 1 PROVE FALSE
        OBVIOUS
      <4>2. i - 1 \in 1..Len(lines') /\ (i - 1) + 1 = i
        BY <2>2, <4>1
      <4>3. lines'[i - 1] = LineOf(p)
        BY <2>2, <3>2, <4>2
      <4> QED BY <2>6, <3>1, <4>2, <4>3 DEF Queued
    <3>4. LineOf(p) = n /\ n \in valid
      BY <2>2, <3>1, <3>2, <3>3
    <3>5. item' = n /\ wpc' = "loop" /\ index' = 1
      BY <2>4, <3>4
    <3>6. NextIndex' = 1
      BY <3>5 DEF NextIndex, Speaking
    <3>7. PieceOf(n, 1) <= p
      BY <3>1, <3>4, PiecesAreTheLine
    <3> QED BY <2>3, <3>1, <3>4, <3>5, <3>6, <3>7 DEF Rest
  <2> QED BY <1>9, <2>5, <2>6
<1>10. CASE WaitHeld
  <2>1. UNCHANGED <<putting, lines>>
    BY <1>10 DEF WaitHeld, device, worker, voiceCounts, callers, quiet, kept
  <2> QED BY <2>1 DEF Queued
<1>11. CASE Loop
  <2>1. UNCHANGED <<putting, lines>>
    BY <1>11 DEF Loop, device, worker, voiceCounts, callers, quiet, kept
  <2> QED BY <2>1 DEF Queued
<1>12. CASE HeldTail
  <2>1. UNCHANGED <<putting, lines>>
    BY <1>12 DEF HeldTail, device, worker, voiceCounts, callers, quiet, kept
  <2> QED BY <2>1 DEF Queued
<1>13. CASE SayAgain
  <2>1. UNCHANGED <<putting, lines>>
    BY <1>13 DEF SayAgain, device, worker, voiceCounts, callers, quiet, kept
  <2> QED BY <2>1 DEF Queued
<1>14. CASE Open
  <2>1. UNCHANGED <<putting, lines>>
    BY <1>14 DEF Open, device, worker, voiceCounts, callers, quiet, kept
  <2> QED BY <2>1 DEF Queued
<1>15. CASE List
  <2>1. UNCHANGED <<putting, lines>>
    BY <1>15 DEF List, device, worker, voiceCounts, callers, quiet, kept
  <2> QED BY <2>1 DEF Queued
<1>16. CASE Chunk
  <2>1. UNCHANGED <<putting, lines>>
    BY <1>16 DEF Chunk, device, worker, voiceCounts, callers, quiet, kept
  <2> QED BY <2>1 DEF Queued
<1>17. CASE Write
  <2>1. UNCHANGED <<putting, lines>>
    BY <1>17 DEF Write, device, worker, voiceCounts, callers, quiet, kept
  <2> QED BY <2>1 DEF Queued
<1>18. CASE StreamEnds
  <2>1. UNCHANGED <<putting, lines>>
    BY <1>18 DEF StreamEnds, device, worker, voiceCounts, callers, quiet, kept
  <2> QED BY <2>1 DEF Queued
<1>19. CASE Said
  <2>1. UNCHANGED <<putting, lines>>
    BY <1>19 DEF Said, device, worker, voiceCounts, callers, quiet, kept
  <2> QED BY <2>1 DEF Queued
<1>20. CASE Idle
  <2>1. UNCHANGED <<putting, lines>>
    BY <1>20 DEF Idle, device, worker, voiceCounts, callers, quiet, kept
  <2> QED BY <2>1 DEF Queued
<1>21. CASE Fail
  <2>1. UNCHANGED <<putting, lines>>
    BY <1>21, FailKeeps, FailLeads DEF WorkerTypes
  <2> QED BY <2>1 DEF Queued
<1>22. CASE Plays
  <2>1. UNCHANGED <<putting, lines>>
    BY <1>22 DEF Plays, device, worker, voiceCounts, callers, quiet, kept
  <2> QED BY <2>1 DEF Queued
<1> QED
  BY <1>1, <1>2, <1>3, <1>4, <1>5, <1>6, <1>7, <1>8, <1>9, <1>10, <1>11, <1>12, <1>13, <1>14, <1>15, <1>16, <1>17, <1>18, <1>19, <1>20, <1>21, <1>22 DEF VoiceNext, WorkerStep

\* speak() makes the pieces of the new line wait.
LEMMA SayQueues == ASSUME Say PROVE \A p \in PieceIds : LineOf(p) = asked + 1 => p \in Queued'
<1>1. putting' = asked + 1
  BY DEF Say
<1> QED BY <1>1 DEF Queued

-----------------------------------------------------------------------------
(* The order is kept, while the voice is not closed.                        *)

\* Nothing is spoken that was not, but the piece the worker takes next.
LEMMA SpokenStep ==
  ASSUME PieceTypes, DeviceTypes, WorkerTypes, Where, VoiceNext
  PROVE  \A p \in Spoken' : p \in Spoken \/ (wpc = "loop" /\ wpc' = "open" /\ p = PieceOf(item, index))
<1>1. replay' \cup InDev' \subseteq Spoken
  <2>1. {p \in {cur} : wpc = "opened"} \subseteq InHand
    BY DEF InHand, Hands
  <2> QED BY <2>1, Brought DEF Spoken
<1>2. ASSUME NEW p \in InHand' PROVE p \in Spoken \/ (wpc = "loop" /\ wpc' = "open" /\ p = PieceOf(item, index))
  <2>1. p = cur' /\ wpc' \in Hands
    BY DEF InHand, Hands
  <2>2. wpc' \in InPiece /\ wpc' # "ending"
    BY <2>1 DEF Hands, InPiece, Speaking
  <2>3. CASE wpc \in InPiece /\ cur' = cur /\ (wpc = "ending" => wpc' = "ending")
    <3>1. wpc \in Hands
      BY <2>2, <2>3 DEF Hands, InPiece, Speaking
    <3> QED BY <2>1, <2>3, <3>1 DEF InHand, Spoken
  <2>4. CASE cur' \in replay
    BY <2>1, <2>4 DEF Spoken
  <2>5. CASE wpc' = "open" /\ wpc = "loop" /\ cur' = PieceOf(item, index)
    BY <2>1, <2>5
  <2> QED BY <2>2, <2>3, <2>4, <2>5, InHandComes
<1> QED BY <1>1, <1>2 DEF Spoken

\* What was asked for at the engine is of a line that was asked for.
LEMMA SpokenIsAsked ==
  ASSUME PieceTypes, DeviceTypes, WorkerTypes, Where, Asked
  PROVE  \A p \in Spoken : p \in PieceIds /\ LineOf(p) <= asked
<1>1. \A p \in replay \cup InDev : p \in PieceIds /\ LineOf(p) <= asked
  BY CutIsUnheard DEF Asked, PieceTypes
<1>2. \A p \in InHand : p \in PieceIds /\ LineOf(p) <= asked
  <2>1. wpc \in Hands => wpc \in InPiece
    BY DEF Hands, InPiece, Speaking
  <2>2. wpc \in InPiece => cur \in PieceIds
    BY DEF Where, WorkerTypes
  <2> QED BY <2>1, <2>2 DEF Asked, InHand
<1> QED BY <1>1, <1>2 DEF Spoken

\* What waits stays, or is taken in hand, or is over.
LEMMA AheadStep ==
  ASSUME QueueTypes, WorkerTypes, Where, Queue, VoiceNext, ~gone'
  PROVE  /\ \A a \in Ahead' : a \in PieceIds /\ (a \in Ahead \/ (Say /\ LineOf(a) = asked + 1))
         /\ Ahead \cap Due' \subseteq Ahead' \cup InHand' \cup lost'
<1>1. \A a \in Ahead' : a \in PieceIds
  BY DEF Ahead, Rest, Queued
<1> QED BY <1>1, RestStep, QueuedStep DEF Ahead

\* A step forgets no piece of a valid line.
LEMMA CoveredKept ==
  ASSUME QueueTypes, DeviceTypes, WorkerTypes, Where, Queue, Silent, SoundsListed, HandListed, Covered, VoiceNext, ~gone'
  PROVE  Covered'
<1>1. SUFFICES ASSUME NEW p \in Due' PROVE p \in (Settled \cup replay \cup Ahead \cup InHand)'
  BY DEF Covered
<1>2. CASE p \in Due
  <2>1. p \in Settled \/ p \in replay \/ p \in Ahead \/ p \in InHand
    BY <1>2 DEF Covered
  <2>2. p \in lost' => p \in Settled'
    BY DEF Settled, Done
  <2> QED BY <2>1, <2>2, SettledStep, ReplayStep, AheadStep, HandStep
<1>3. CASE Say /\ LineOf(p) = asked + 1 /\ p \in PieceIds
  BY <1>3, SayQueues DEF Ahead
<1> QED BY <1>2, <1>3, DueStep

\* A step keeps everything asked for before everything that waits.
LEMMA InOrderKept ==
  ASSUME QueueTypes, PieceTypes, DeviceTypes, WorkerTypes, Where, Queue, Asked, InOrder, VoiceNext, ~gone'
  PROVE  InOrder'
<1>1. SUFFICES ASSUME NEW p \in Spoken', p \in Due', NEW a \in Ahead' PROVE p < a
  BY DEF InOrder
<1>2. p \in PieceIds /\ a \in PieceIds
  BY <1>1, AheadStep DEF Due
<1>3. CASE p \in Spoken
  <2>1. LineOf(p) <= asked
    BY <1>3, SpokenIsAsked
  <2>2. p \in Due
    BY <1>1, <2>1, <1>2, OldDue
  <2>3. CASE a \in Ahead
    BY <1>3, <2>2, <2>3 DEF InOrder
  <2>4. CASE LineOf(a) = asked + 1
    BY <1>2, <2>1, <2>4, NewLineIsLast
  <2> QED BY <2>3, <2>4, AheadStep
<1>4. CASE wpc = "loop" /\ wpc' = "open" /\ p = PieceOf(item, index)
  <2>1. CASE a \in Rest'
    BY <1>4, <2>1, RestStep
  <2>2. CASE a \in Queued'
    <3>0. item # 0
      BY <1>4 DEF Where
    <3>1. item # 0 /\ item \in Nat
      BY <3>0, WorkerNumbers, Constants
    <3>2. LineOf(p) = item /\ LineOf(a) \in Nat /\ item <= asked /\ LineOf(a) # 0
      BY <1>2, <1>4, <3>1, OwnPiece, LinesInOrder, Constants DEF Queue
    <3>3. a \in Queued \/ LineOf(a) = asked + 1
      BY <2>2, QueuedStep
    <3>4. item < LineOf(a)
      <4>1. CASE LineOf(a) = asked + 1
        BY <3>1, <3>2, <4>1, QueueNumbers
      <4>2. CASE LineOf(a) = putting
        BY <3>2, <4>2 DEF Queue
      <4>3. CASE \E i \in 1..Len(lines) : lines[i] = LineOf(a)
        <5>1. PICK i \in 1..Len(lines) : lines[i] = LineOf(a)
          BY <4>3
        <5> QED BY <3>1, <3>2, <5>1 DEF Queue
      <4> QED BY <3>3, <4>1, <4>2, <4>3 DEF Queued
    <3> QED BY <1>2, <3>2, <3>4, LinesInOrder
  <2> QED BY <2>1, <2>2 DEF Ahead
<1> QED BY <1>3, <1>4, SpokenStep

\* A new line is the one that was waited for, or the one in hand goes on.
LEMMA ItemStep ==
  ASSUME QueueTypes, WorkerTypes, Where, Queue, VoiceNext, ~gone', item' # 0
  PROVE  item' = item \/ (Get /\ item' = Head(lines) /\ item' \in valid /\ lines # <<>> /\ item' \in Lines)
<1>1. CASE Say
  <2>1. item' = item
    BY <1>1 DEF Say, device, worker, voiceCounts, callers, quiet, kept
  <2> QED BY <2>1
<1>2. CASE Put
  <2>1. item' = item
    BY <1>2 DEF Put, device, worker, voiceCounts, callers, quiet, kept
  <2> QED BY <2>1
<1>3. CASE Pause
  <2>1. item' = item
    BY <1>3 DEF Pause, device, worker, voiceCounts, callers, quiet, kept
  <2> QED BY <2>1
<1>4. CASE RecordingShows
  <2>1. item' = item
    BY <1>4 DEF RecordingShows, device, worker, voiceCounts, callers, quiet, kept
  <2> QED BY <2>1
<1>5. CASE HoldEnds
  <2>1. item' = item
    BY <1>5 DEF HoldEnds, device, worker, voiceCounts, callers, quiet, kept
  <2> QED BY <2>1
<1>6. CASE Stop
  <2>1. item' = item
    BY <1>6 DEF Stop, device, worker, voiceCounts, callers, quiet, kept
  <2> QED BY <2>1
<1>7. CASE DropQueued
  <2>1. item' = item
    BY <1>7 DEF DropQueued, device, worker, voiceCounts, callers, quiet, kept
  <2> QED BY <2>1
<1>8. CASE Close
  <2>1. item' = item
    BY <1>8 DEF Close, device, worker, voiceCounts, callers, quiet, kept
  <2> QED BY <2>1
<1>9. CASE Get
  <2>1. wpc = "get" /\ lines # <<>> /\ (item' = item \/ (item' = Head(lines) /\ Current(Head(lines))))
    BY <1>9 DEF Get, At
  <2>2. item = 0
    BY <2>1 DEF Where
  <2>3. Head(lines) \in 0..MaxLines
    BY <2>1, NextLine
  <2> QED BY <1>9, <2>1, <2>2, <2>3, Constants DEF Current
<1>10. CASE WaitHeld
  <2>1. item' = item
    BY <1>10 DEF WaitHeld, device, worker, voiceCounts, callers, quiet, kept
  <2> QED BY <2>1
<1>11. CASE Loop
  <2>1. item' = item
    BY <1>11 DEF Loop, device, worker, voiceCounts, callers, quiet, kept
  <2> QED BY <2>1
<1>12. CASE HeldTail
  <2>1. item' = item
    BY <1>12 DEF HeldTail, device, worker, voiceCounts, callers, quiet, kept
  <2> QED BY <2>1
<1>13. CASE SayAgain
  <2>1. item' = item
    BY <1>13 DEF SayAgain, device, worker, voiceCounts, callers, quiet, kept
  <2> QED BY <2>1
<1>14. CASE Open
  <2>1. item' = item
    BY <1>14 DEF Open, device, worker, voiceCounts, callers, quiet, kept
  <2> QED BY <2>1
<1>15. CASE List
  <2>1. item' = item
    BY <1>15 DEF List, device, worker, voiceCounts, callers, quiet, kept
  <2> QED BY <2>1
<1>16. CASE Chunk
  <2>1. item' = item
    BY <1>16 DEF Chunk, device, worker, voiceCounts, callers, quiet, kept
  <2> QED BY <2>1
<1>17. CASE Write
  <2>1. item' = item
    BY <1>17 DEF Write, device, worker, voiceCounts, callers, quiet, kept
  <2> QED BY <2>1
<1>18. CASE StreamEnds
  <2>1. item' = item
    BY <1>18 DEF StreamEnds, device, worker, voiceCounts, callers, quiet, kept
  <2> QED BY <2>1
<1>19. CASE Said
  <2>1. item' = 0
    BY <1>19 DEF Said
  <2> QED BY <2>1
<1>20. CASE Idle
  <2>1. item' = item
    BY <1>20 DEF Idle, device, worker, voiceCounts, callers, quiet, kept
  <2> QED BY <2>1
<1>21. CASE Fail
  <2>1. item' = item
    BY <1>21, FailKeeps, FailLeads DEF WorkerTypes
  <2> QED BY <2>1
<1>22. CASE Plays
  <2>1. item' = item
    BY <1>22 DEF Plays, device, worker, voiceCounts, callers, quiet, kept
  <2> QED BY <2>1
<1> QED
  BY <1>1, <1>2, <1>3, <1>4, <1>5, <1>6, <1>7, <1>8, <1>9, <1>10, <1>11, <1>12, <1>13, <1>14, <1>15, <1>16, <1>17, <1>18, <1>19, <1>20, <1>21, <1>22 DEF VoiceNext, WorkerStep

\* A step keeps everything asked for from lines no later than the one in hand.
LEMMA OlderKept ==
  ASSUME QueueTypes, PieceTypes, DeviceTypes, WorkerTypes, WorkerTypes', Where, Where', Queue, Asked, InOrder, Older, VoiceNext, ~gone'
  PROVE  Older'
<1>1. SUFFICES ASSUME item' # 0, NEW p \in Spoken', p \in Due' PROVE LineOf(p) <= item'
  BY DEF Older
<1>2. p \in PieceIds /\ LineOf(p) \in Nat
  BY <1>1, LinesInOrder, Constants DEF Due
<1>3. CASE item' = item
  <2>1. CASE p \in Spoken
    <3>1. p \in Due
      BY <1>1, <2>1, <1>2, SpokenIsAsked, OldDue
    <3> QED BY <1>1, <1>3, <2>1, <3>1 DEF Older
  <2>2. CASE p = PieceOf(item, index)
    BY <1>1, <1>2, <1>3, <2>2, OwnPiece
  <2> QED BY <2>1, <2>2, SpokenStep
<1>4. CASE Get /\ item' = Head(lines) /\ item' \in valid /\ lines # <<>> /\ item' \in Lines
  <2>1. p \in Spoken
    <3>1. wpc # "loop"
      BY <1>4 DEF Get, At
    <3> QED BY <3>1, SpokenStep
  <2>2. p \in Due
    BY <1>1, <2>1, <1>2, SpokenIsAsked, OldDue
  <2> DEFINE a == PieceOf(item', 1)
  <2>3. a \in PieceIds /\ LineOf(a) = item'
    BY <1>4, PiecesOfLine, Constants
  <2>4. a \in Queued
    <3>1. Head(lines) = lines[1] /\ 1 \in 1..Len(lines)
      BY <1>4, NextLine
    <3> QED BY <1>4, <2>3, <3>1 DEF Queued
  <2> HIDE DEF a
  <2>5. p < a
    BY <2>1, <2>2, <2>4 DEF InOrder, Ahead
  <2>6. LineOf(p) <= LineOf(a)
    <3>1. p <= a
      BY <1>2, <2>3, <2>5, PieceNumbers
    <3> QED BY <1>2, <2>3, <3>1, LinesInOrder
  <2> QED BY <2>3, <2>6
<1> QED BY <1>1, <1>3, <1>4, ItemStep

\* A step keeps the piece said again the first of those to be said again.
LEMMA AgainFirstKept ==
  ASSUME QueueTypes, PieceTypes, DeviceTypes, WorkerTypes, Where, Asked, Phase, AgainFirst, VoiceNext, ~gone', holds' <= 1, CallerTypes
  PROVE  AgainFirst'
<1>0. \A p \in replay : p \in PieceIds /\ LineOf(p) <= asked
  BY DEF Asked, PieceTypes
<1>1. CASE Say
  <2>1. UNCHANGED <<wpc, cur, replay>>
    BY <1>1 DEF Say, device, worker, voiceCounts, callers, quiet, kept
  <2>2. \A p \in replay : p \in Due' => p \in Due
    BY <1>0, OldDue
  <2> QED BY <2>1, <2>2 DEF AgainFirst
<1>2. CASE Put
  <2>1. UNCHANGED <<wpc, cur, replay>>
    BY <1>2 DEF Put, device, worker, voiceCounts, callers, quiet, kept
  <2>2. \A p \in replay : p \in Due' => p \in Due
    BY <1>0, OldDue
  <2> QED BY <2>1, <2>2 DEF AgainFirst
<1>3. CASE Pause
  <2>1. holds' = holds + 1 /\ wpc' = wpc
    BY <1>3 DEF Pause, worker
  <2>2. holds = 0
    BY <2>1, Constants DEF CallerTypes
  <2> QED BY <2>1, <2>2 DEF Phase, AgainFirst
<1>4. CASE RecordingShows
  <2>1. UNCHANGED <<wpc, cur, replay>>
    BY <1>4 DEF RecordingShows, device, worker, voiceCounts, callers, quiet, kept
  <2>2. \A p \in replay : p \in Due' => p \in Due
    BY <1>0, OldDue
  <2> QED BY <2>1, <2>2 DEF AgainFirst
<1>5. CASE HoldEnds
  <2>1. UNCHANGED <<wpc, cur, replay>>
    BY <1>5 DEF HoldEnds, device, worker, voiceCounts, callers, quiet, kept
  <2>2. \A p \in replay : p \in Due' => p \in Due
    BY <1>0, OldDue
  <2> QED BY <2>1, <2>2 DEF AgainFirst
<1>6. CASE Stop
  <2>1. replay' = {}
    BY <1>6 DEF Stop, Forget
  <2> QED BY <2>1 DEF AgainFirst
<1>7. CASE DropQueued
  <2>1. UNCHANGED <<wpc, cur, replay>>
    BY <1>7 DEF DropQueued, device, worker, voiceCounts, callers, quiet, kept
  <2>2. \A p \in replay : p \in Due' => p \in Due
    BY <1>0, OldDue
  <2> QED BY <2>1, <2>2 DEF AgainFirst
<1>8. CASE Close
  <2>1. UNCHANGED <<wpc, cur, replay>>
    BY <1>8 DEF Close, device, worker, voiceCounts, callers, quiet, kept
  <2>2. \A p \in replay : p \in Due' => p \in Due
    BY <1>0, OldDue
  <2> QED BY <2>1, <2>2 DEF AgainFirst
<1>9. CASE Get
  <2>1. wpc' \in {"get", "loop", "ended"}
    BY <1>9 DEF Get, At, Goto
  <2> QED BY <2>1 DEF AgainFirst
<1>10. CASE WaitHeld
  <2>1. UNCHANGED <<wpc, cur, valid>> /\ CutForHold /\ (wpc = "loop" \/ (wpc = "again" /\ Holding)) /\ ~gone
    BY <1>10, GoneStays DEF WaitHeld, Notice, At, quiet, kept, callers
  <2>2. CASE wpc = "loop"
    BY <2>1, <2>2 DEF AgainFirst
  <2>3. CASE wpc = "again" /\ Holding
    <3>1. InDev = {}
      BY <2>1, <2>3 DEF Phase
    <3>2. replay' = replay
      BY <2>1, <3>1, CutStep, CutIsUnheard
    <3> QED BY <2>1, <3>2 DEF AgainFirst, Due
  <2> QED BY <2>1, <2>2, <2>3
<1>11. CASE Loop
  <2>1. \/ wpc' # "again"
        \/ replay # {} /\ replay' = replay \ {Min(replay)} /\ cur' = Min(replay)
    BY <1>11, Zenon DEF Loop, TakeReplay, Goto, At
  <2>2. CASE replay # {} /\ replay' = replay \ {Min(replay)} /\ cur' = Min(replay)
    <3>1. \A p \in replay : Min(replay) <= p
      BY <2>2, FirstOfReplay
    <3> QED BY <2>2, <3>1 DEF AgainFirst
  <2> QED BY <2>1, <2>2 DEF AgainFirst
<1>12. CASE HeldTail
  <2>1. \/ wpc' # "again"
        \/ replay # {} /\ replay' = replay \ {Min(replay)} /\ cur' = Min(replay)
    BY <1>12, Zenon DEF HeldTail, TakeReplay, Goto, At
  <2>2. CASE replay # {} /\ replay' = replay \ {Min(replay)} /\ cur' = Min(replay)
    <3>1. \A p \in replay : Min(replay) <= p
      BY <2>2, FirstOfReplay
    <3> QED BY <2>2, <3>1 DEF AgainFirst
  <2> QED BY <2>1, <2>2 DEF AgainFirst
<1>13. CASE SayAgain
  <2>1. wpc' \in {"open", "loop", "tail"}
    BY <1>13 DEF SayAgain, At, Goto, Where, WorkerTypes
  <2> QED BY <2>1 DEF AgainFirst
<1>14. CASE Open
  <2>1. wpc \in Speaking /\ UNCHANGED <<item, cur, back>> /\ (Over(TRUE) \/ Over(FALSE) \/ wpc' = "opened")
    BY <1>14 DEF Open, At, Speaking, Goto
  <2>2. Over(TRUE) \/ Over(FALSE) => wpc' \notin InPiece
    BY <2>1, OverStep
  <2> QED BY <2>1, <2>2 DEF AgainFirst, InPiece
<1>15. CASE List
  <2>1. wpc' \in {"streaming"}
    BY <1>15 DEF List, At, Goto
  <2> QED BY <2>1 DEF AgainFirst
<1>16. CASE Chunk
  <2>1. wpc \in Speaking /\ UNCHANGED <<item, cur, back>> /\ (Over(TRUE) \/ Over(FALSE) \/ wpc' = "writing")
    BY <1>16 DEF Chunk, At, Speaking, Goto
  <2>2. Over(TRUE) \/ Over(FALSE) => wpc' \notin InPiece
    BY <2>1, OverStep
  <2> QED BY <2>1, <2>2 DEF AgainFirst, InPiece
<1>17. CASE Write
  <2>1. wpc' \in {"ending"}
    BY <1>17 DEF Write, At, Goto
  <2> QED BY <2>1 DEF AgainFirst
<1>18. CASE StreamEnds
  <2>1. wpc \in Speaking /\ UNCHANGED <<item, cur, back>> /\ (Over(TRUE) \/ Over(FALSE))
    BY <1>18 DEF StreamEnds, At, Speaking, Goto
  <2>2. Over(TRUE) \/ Over(FALSE) => wpc' \notin InPiece
    BY <2>1, OverStep
  <2> QED BY <2>1, <2>2 DEF AgainFirst, InPiece
<1>19. CASE Said
  <2>1. wpc' \in {"get", "idle"}
    BY <1>19 DEF Said, At, Goto
  <2> QED BY <2>1 DEF AgainFirst
<1>20. CASE Idle
  <2>1. wpc' \in {"get", "tail"}
    BY <1>20 DEF Idle, At, Goto
  <2> QED BY <2>1 DEF AgainFirst
<1>21. CASE Fail
  <2>1. wpc' \in {"said", "loop", "idle", "tail", "dead"}
    BY <1>21, FailKeeps, FailLeads DEF WorkerTypes
  <2> QED BY <2>1 DEF AgainFirst
<1>22. CASE Plays
  <2>1. UNCHANGED <<wpc, cur, replay>>
    BY <1>22 DEF Plays, device, worker, voiceCounts, callers, quiet, kept
  <2>2. \A p \in replay : p \in Due' => p \in Due
    BY <1>0, OldDue
  <2> QED BY <2>1, <2>2 DEF AgainFirst
<1> QED
  BY <1>1, <1>2, <1>3, <1>4, <1>5, <1>6, <1>7, <1>8, <1>9, <1>10, <1>11, <1>12, <1>13, <1>14, <1>15, <1>16, <1>17, <1>18, <1>19, <1>20, <1>21, <1>22 DEF VoiceNext, WorkerStep

\* A step keeps what the device has to play listed.
LEMMA SoundsListedKept ==
  ASSUME DeviceTypes, WorkerTypes, Where, Silent, SoundsListed, VoiceNext, ~gone'
  PROVE  SoundsListed'
<1>0. Whole \subseteq Audible
  BY WholeIsAudible
<1>1. CASE Say
  <2>1. inDevice' = inDevice /\ heard' = heard /\ lost \subseteq lost' /\ unnoticed \subseteq unnoticed' /\ audio' = audio
    BY <1>1 DEF Say, device, worker, voiceCounts, callers, quiet, kept
  <2> QED BY <2>1 DEF SoundsListed, Whole, Done, InDev
<1>2. CASE Put
  <2>1. inDevice' = inDevice /\ heard' = heard /\ lost \subseteq lost' /\ unnoticed \subseteq unnoticed' /\ audio' = audio
    BY <1>2 DEF Put, device, worker, voiceCounts, callers, quiet, kept
  <2> QED BY <2>1 DEF SoundsListed, Whole, Done, InDev
<1>3. CASE Pause
  <2>1. audio' = <<>>
    BY <1>3, CutStep DEF Pause, Notice
  <2> QED BY <2>1, NoWhole DEF SoundsListed
<1>4. CASE RecordingShows
  <2>1. inDevice' = inDevice /\ heard' = heard /\ lost \subseteq lost' /\ unnoticed \subseteq unnoticed' /\ audio' = audio
    BY <1>4 DEF RecordingShows, device, worker, voiceCounts, callers, quiet, kept
  <2> QED BY <2>1 DEF SoundsListed, Whole, Done, InDev
<1>5. CASE HoldEnds
  <2>1. inDevice' = inDevice /\ heard' = heard /\ lost \subseteq lost' /\ unnoticed \subseteq unnoticed' /\ audio' = audio
    BY <1>5 DEF HoldEnds, device, worker, voiceCounts, callers, quiet, kept
  <2> QED BY <2>1 DEF SoundsListed, Whole, Done, InDev
<1>6. CASE Stop
  <2>1. audio' = <<>>
    BY <1>6 DEF Stop, Forget
  <2> QED BY <2>1, NoWhole DEF SoundsListed
<1>7. CASE DropQueued
  <2>1. inDevice' = inDevice /\ heard' = heard /\ lost \subseteq lost' /\ unnoticed \subseteq unnoticed' /\ audio' = audio
    BY <1>7 DEF DropQueued, device, worker, voiceCounts, callers, quiet, kept
  <2> QED BY <2>1 DEF SoundsListed, Whole, Done, InDev
<1>8. CASE Close
  <2>1. inDevice' = inDevice /\ heard' = heard /\ lost \subseteq lost' /\ unnoticed \subseteq unnoticed' /\ audio' = audio
    BY <1>8 DEF Close, device, worker, voiceCounts, callers, quiet, kept
  <2> QED BY <2>1 DEF SoundsListed, Whole, Done, InDev
<1>9. CASE Get
  <2>1. (inDevice' = inDevice /\ heard' = heard /\ lost' = lost /\ unnoticed' = unnoticed /\ audio' = audio) \/ audio' = <<>>
    BY <1>9, CutStep DEF Get, device, Leaves, LetGo, quiet, kept, callers
  <2>2. CASE audio' = <<>>
    BY <2>2, NoWhole DEF SoundsListed
  <2>3. CASE inDevice' = inDevice /\ heard' = heard /\ lost' = lost /\ unnoticed' = unnoticed /\ audio' = audio
    BY <2>3 DEF SoundsListed, Whole, Done, InDev
  <2> QED BY <2>1, <2>2, <2>3
<1>10. CASE WaitHeld
  <2>1. audio' = <<>>
    BY <1>10, CutStep DEF WaitHeld, Notice
  <2> QED BY <2>1, NoWhole DEF SoundsListed
<1>11. CASE Loop
  <2>1. inDevice' = inDevice /\ heard' = heard /\ lost \subseteq lost' /\ unnoticed \subseteq unnoticed' /\ audio' = audio
    BY <1>11 DEF Loop, device, worker, voiceCounts, callers, quiet, kept
  <2> QED BY <2>1 DEF SoundsListed, Whole, Done, InDev
<1>12. CASE HeldTail
  <2>1. inDevice' = inDevice /\ heard' = heard /\ lost \subseteq lost' /\ unnoticed \subseteq unnoticed' /\ audio' = audio
    BY <1>12 DEF HeldTail, device, worker, voiceCounts, callers, quiet, kept
  <2> QED BY <2>1 DEF SoundsListed, Whole, Done, InDev
<1>13. CASE SayAgain
  <2>1. inDevice' = inDevice /\ heard' = heard /\ lost \subseteq lost' /\ unnoticed \subseteq unnoticed' /\ audio' = audio
    BY <1>13 DEF SayAgain, device, worker, voiceCounts, callers, quiet, kept
  <2> QED BY <2>1 DEF SoundsListed, Whole, Done, InDev
<1>14. CASE Open
  <2>1. inDevice' = inDevice /\ heard' = heard /\ lost \subseteq lost' /\ unnoticed \subseteq unnoticed' /\ audio' = audio
    BY <1>14 DEF Open, device, worker, voiceCounts, callers, quiet, kept
  <2> QED BY <2>1 DEF SoundsListed, Whole, Done, InDev
<1>15. CASE List
  <2>1. wpc = "opened" /\ cur \in PieceIds /\ audio' = audio /\ heard' = heard /\ lost' = lost /\ unnoticed' = unnoticed
    BY <1>15 DEF List, At, InPiece, Speaking, Where, WorkerTypes, quiet, kept, callers
  <2>2. InDev' = InDev \cup {cur}
    BY <1>15, <2>1, ListStep DEF List
  <2> QED BY <2>1, <2>2 DEF SoundsListed, Whole, Done
<1>16. CASE Chunk
  <2>1. /\ heard' = heard /\ lost' = lost /\ unnoticed' = unnoticed /\ ~gone
        /\ \/ CutForHold
           \/ audio' = audio /\ inDevice' = inDevice
           \/ audio' = audio /\ inDevice' = {e \in inDevice : e.piece # cur} /\ ~Current(LineOf(cur))
    BY <1>16, GoneStays DEF Chunk, Unlist, device, quiet, kept
  <2>2. CASE CutForHold
    BY <2>2, CutStep, NoWhole DEF SoundsListed
  <2>3. CASE audio' = audio /\ inDevice' = inDevice
    <3>1. InDev' = InDev
      BY <2>3, CompleteStep DEF InDev
    <3> QED BY <2>1, <2>3, <3>1 DEF SoundsListed, Whole, Done
  <2>4. CASE audio' = audio /\ inDevice' = {e \in inDevice : e.piece # cur} /\ ~Current(LineOf(cur))
    <3>1. InDev' = InDev \ {cur}
      BY <2>4, UnlistStep
    <3>2. cur \notin Whole
      BY <2>1, <2>4, <1>0 DEF Silent, StoppedIsSilent, Current
    <3>3. Whole' = Whole /\ Done' = Done
      BY <2>1, <2>4 DEF Whole, Done
    <3> QED BY <3>1, <3>2, <3>3 DEF SoundsListed
  <2> QED BY <2>1, <2>2, <2>3, <2>4
<1>17. CASE Write
  <2>1. inDevice' = inDevice /\ heard' = heard /\ lost \subseteq lost' /\ unnoticed' = unnoticed
    BY <1>17 DEF Write, quiet, kept, callers
  <2>2. InDev' = InDev /\ Done \subseteq Done'
    BY <2>1 DEF InDev, Done
  <2> QED BY <1>17, <2>2, WriteWhole DEF SoundsListed
<1>18. CASE StreamEnds
  <2>1. /\ heard' = heard /\ lost' = lost /\ unnoticed' = unnoticed /\ ~gone
        /\ \/ CutForHold
           \/ audio' = audio /\ inDevice' = Complete
           \/ audio' = audio /\ inDevice' = {e \in inDevice : e.piece # cur} /\ ~Current(LineOf(cur))
    BY <1>18, GoneStays DEF StreamEnds, Unlist, device, quiet, kept
  <2>2. CASE CutForHold
    BY <2>2, CutStep, NoWhole DEF SoundsListed
  <2>3. CASE audio' = audio /\ inDevice' = Complete
    <3>1. InDev' = InDev
      BY <2>3, CompleteStep DEF InDev
    <3> QED BY <2>1, <2>3, <3>1 DEF SoundsListed, Whole, Done
  <2>4. CASE audio' = audio /\ inDevice' = {e \in inDevice : e.piece # cur} /\ ~Current(LineOf(cur))
    <3>1. InDev' = InDev \ {cur}
      BY <2>4, UnlistStep
    <3>2. cur \notin Whole
      BY <2>1, <2>4, <1>0 DEF Silent, StoppedIsSilent, Current
    <3>3. Whole' = Whole /\ Done' = Done
      BY <2>1, <2>4 DEF Whole, Done
    <3> QED BY <3>1, <3>2, <3>3 DEF SoundsListed
  <2> QED BY <2>1, <2>2, <2>3, <2>4
<1>19. CASE Said
  <2>1. inDevice' = inDevice /\ heard' = heard /\ lost \subseteq lost' /\ unnoticed \subseteq unnoticed' /\ audio' = audio
    BY <1>19 DEF Said, device, worker, voiceCounts, callers, quiet, kept
  <2> QED BY <2>1 DEF SoundsListed, Whole, Done, InDev
<1>20. CASE Idle
  <2>1. (inDevice' = inDevice /\ heard' = heard /\ lost' = lost /\ unnoticed' = unnoticed /\ audio' = audio) \/ audio' = <<>>
    BY <1>20, CutStep DEF Idle, device, Leaves, LetGo, quiet, kept, callers
  <2>2. CASE audio' = <<>>
    BY <2>2, NoWhole DEF SoundsListed
  <2>3. CASE inDevice' = inDevice /\ heard' = heard /\ lost' = lost /\ unnoticed' = unnoticed /\ audio' = audio
    BY <2>3 DEF SoundsListed, Whole, Done, InDev
  <2> QED BY <2>1, <2>2, <2>3
<1>21. CASE Fail
  <2>1. audio' = audio /\ heard' = heard /\ lost \cup {cur} \subseteq lost' /\ unnoticed' = unnoticed
    BY <1>21, FailKeeps, FailLeads DEF WorkerTypes
  <2>2. InDev' = InDev \ {cur}
    BY <1>21, FailKeeps, FailLeads, UnlistStep DEF WorkerTypes
  <2> QED BY <2>1, <2>2 DEF SoundsListed, Whole, Done
<1>22. CASE Plays
  <2>1. inDevice' = inDevice /\ lost' = lost /\ unnoticed' = unnoticed
    BY <1>22 DEF Plays, quiet, kept, callers
  <2>2. InDev' = InDev
    BY <2>1 DEF InDev
  <2> QED BY <1>22, <2>1, <2>2, PlaysWhole DEF SoundsListed, Done
<1> QED
  BY <1>1, <1>2, <1>3, <1>4, <1>5, <1>6, <1>7, <1>8, <1>9, <1>10, <1>11, <1>12, <1>13, <1>14, <1>15, <1>16, <1>17, <1>18, <1>19, <1>20, <1>21, <1>22 DEF VoiceNext, WorkerStep

\* A step keeps the piece in hand listed, or among those to be said again.
LEMMA HandListedKept ==
  ASSUME QueueTypes, DeviceTypes, WorkerTypes, Where, Asked, HandListed, VoiceNext
  PROVE  HandListed'
<1>0. wpc \in {"streaming", "writing"} => cur \in PieceIds /\ LineOf(cur) <= asked
  BY DEF Where, WorkerTypes, Asked, InPiece, Speaking
<1>1. CASE Say
  <2>1. UNCHANGED <<wpc, cur, replay, inDevice>>
    BY <1>1 DEF Say, device, worker, voiceCounts, callers, quiet, kept
  <2>2. wpc \in {"streaming", "writing"} /\ cur \in Due' => cur \in Due
    BY <1>0, OldDue
  <2> QED BY <2>1, <2>2 DEF HandListed, HalfSaid
<1>2. CASE Put
  <2>1. UNCHANGED <<wpc, cur, replay, inDevice>>
    BY <1>2 DEF Put, device, worker, voiceCounts, callers, quiet, kept
  <2>2. wpc \in {"streaming", "writing"} /\ cur \in Due' => cur \in Due
    BY <1>0, OldDue
  <2> QED BY <2>1, <2>2 DEF HandListed, HalfSaid
<1>3. CASE Pause
  <2>1. UNCHANGED <<wpc, cur, valid>> /\ CutForHold
    BY <1>3 DEF Pause, worker
  <2> QED BY <2>1, CutStep, CutIsUnheard DEF HandListed, Due
<1>4. CASE RecordingShows
  <2>1. UNCHANGED <<wpc, cur, replay, inDevice>>
    BY <1>4 DEF RecordingShows, device, worker, voiceCounts, callers, quiet, kept
  <2>2. wpc \in {"streaming", "writing"} /\ cur \in Due' => cur \in Due
    BY <1>0, OldDue
  <2> QED BY <2>1, <2>2 DEF HandListed, HalfSaid
<1>5. CASE HoldEnds
  <2>1. UNCHANGED <<wpc, cur, replay, inDevice>>
    BY <1>5 DEF HoldEnds, device, worker, voiceCounts, callers, quiet, kept
  <2>2. wpc \in {"streaming", "writing"} /\ cur \in Due' => cur \in Due
    BY <1>0, OldDue
  <2> QED BY <2>1, <2>2 DEF HandListed, HalfSaid
<1>6. CASE Stop
  <2>1. valid' = {}
    BY <1>6 DEF Stop, Forget
  <2> QED BY <2>1 DEF HandListed, Due
<1>7. CASE DropQueued
  <2>1. UNCHANGED <<wpc, cur, replay, inDevice>>
    BY <1>7 DEF DropQueued, device, worker, voiceCounts, callers, quiet, kept
  <2>2. wpc \in {"streaming", "writing"} /\ cur \in Due' => cur \in Due
    BY <1>0, OldDue
  <2> QED BY <2>1, <2>2 DEF HandListed, HalfSaid
<1>8. CASE Close
  <2>1. UNCHANGED <<wpc, cur, replay, inDevice>>
    BY <1>8 DEF Close, device, worker, voiceCounts, callers, quiet, kept
  <2>2. wpc \in {"streaming", "writing"} /\ cur \in Due' => cur \in Due
    BY <1>0, OldDue
  <2> QED BY <2>1, <2>2 DEF HandListed, HalfSaid
<1>9. CASE Get
  <2>1. wpc' \in {"get", "loop", "ended"}
    BY <1>9 DEF Get, At, Goto
  <2> QED BY <2>1 DEF HandListed
<1>10. CASE WaitHeld
  <2>1. wpc' \in {"loop", "again"}
    BY <1>10 DEF WaitHeld, At
  <2> QED BY <2>1 DEF HandListed
<1>11. CASE Loop
  <2>1. wpc' \in {"loop", "again", "open", "said"}
    BY <1>11 DEF Loop, At, Goto, TakeReplay
  <2> QED BY <2>1 DEF HandListed
<1>12. CASE HeldTail
  <2>1. wpc' \in {"tail", "again", "idle"}
    BY <1>12 DEF HeldTail, At, Goto, TakeReplay
  <2> QED BY <2>1 DEF HandListed
<1>13. CASE SayAgain
  <2>1. wpc' \in {"open", "loop", "tail"}
    BY <1>13 DEF SayAgain, At, Goto, Where, WorkerTypes
  <2> QED BY <2>1 DEF HandListed
<1>14. CASE Open
  <2>1. wpc \in Speaking /\ UNCHANGED <<item, cur, back>> /\ (Over(TRUE) \/ Over(FALSE) \/ wpc' = "opened")
    BY <1>14 DEF Open, At, Speaking, Goto, device, quiet, kept, callers
  <2>2. Over(TRUE) \/ Over(FALSE) => wpc' \notin InPiece
    BY <2>1, OverStep
  <2> QED BY <2>1, <2>2 DEF HandListed, InPiece, Speaking
<1>15. CASE List
  <2>1. wpc = "opened" /\ cur \in PieceIds /\ cur' = cur
    BY <1>15 DEF List, At, InPiece, Speaking, Where, WorkerTypes
  <2>2. \E e \in inDevice' : e.piece = cur /\ ~e.complete
    BY <1>15, <2>1, ListStep DEF List
  <2> QED BY <2>1, <2>2 DEF HandListed, HalfSaid
<1>16. CASE Chunk
  <2>1. wpc \in Speaking /\ UNCHANGED <<item, cur, back>> /\ (Over(TRUE) \/ Over(FALSE) \/ (wpc = "streaming" /\ wpc' = "writing" /\ UNCHANGED <<valid, replay, inDevice>>))
    BY <1>16 DEF Chunk, At, Speaking, Goto, device, quiet, kept, callers
  <2>2. Over(TRUE) \/ Over(FALSE) => wpc' \notin InPiece
    BY <2>1, OverStep
  <2>3. CASE wpc = "streaming" /\ wpc' = "writing" /\ UNCHANGED <<valid, replay, inDevice>>
    BY <2>1, <2>3 DEF HandListed, Due, HalfSaid
  <2> QED BY <2>1, <2>2, <2>3 DEF HandListed, InPiece, Speaking
<1>17. CASE Write
  <2>1. wpc' \in {"ending"}
    BY <1>17 DEF Write, At, Goto
  <2> QED BY <2>1 DEF HandListed
<1>18. CASE StreamEnds
  <2>1. wpc \in Speaking /\ UNCHANGED <<item, cur, back>> /\ (Over(TRUE) \/ Over(FALSE))
    BY <1>18 DEF StreamEnds, At, Speaking, Goto, device, quiet, kept, callers
  <2>2. Over(TRUE) \/ Over(FALSE) => wpc' \notin InPiece
    BY <2>1, OverStep
  <2> QED BY <2>1, <2>2 DEF HandListed, InPiece, Speaking
<1>19. CASE Said
  <2>1. wpc' \in {"get", "idle"}
    BY <1>19 DEF Said, At, Goto
  <2> QED BY <2>1 DEF HandListed
<1>20. CASE Idle
  <2>1. wpc' \in {"get", "tail"}
    BY <1>20 DEF Idle, At, Goto
  <2> QED BY <2>1 DEF HandListed
<1>21. CASE Fail
  <2>1. wpc' \in {"said", "loop", "idle", "tail", "dead"}
    BY <1>21, FailKeeps, FailLeads DEF WorkerTypes
  <2> QED BY <2>1 DEF HandListed
<1>22. CASE Plays
  <2>1. UNCHANGED <<wpc, cur, replay, inDevice>>
    BY <1>22 DEF Plays, device, worker, voiceCounts, callers, quiet, kept
  <2>2. wpc \in {"streaming", "writing"} /\ cur \in Due' => cur \in Due
    BY <1>0, OldDue
  <2> QED BY <2>1, <2>2 DEF HandListed, HalfSaid
<1> QED
  BY <1>1, <1>2, <1>3, <1>4, <1>5, <1>6, <1>7, <1>8, <1>9, <1>10, <1>11, <1>12, <1>13, <1>14, <1>15, <1>16, <1>17, <1>18, <1>19, <1>20, <1>21, <1>22 DEF VoiceNext, WorkerStep

-----------------------------------------------------------------------------
(* One hold.                                                                *)

\* An outcome of _speak_piece keeps what the one hold allows.
LEMMA OverPhase ==
  ASSUME WorkerTypes, Where, Phase, wpc \in Speaking, NEW stopped \in BOOLEAN, Over(stopped),
         UNCHANGED <<item, cur, back, holds, hold>>, gone' = gone, replay' = replay \/ Holding
  PROVE  Phase'
<1>1. /\ wpc' \notin InPiece
      /\ (back # "" /\ wpc' = back) \/ (back = "" /\ wpc' \in {"said", "loop"})
  BY OverStep
<1>2. wpc' \notin Speaking /\ wpc' # "again"
  BY <1>1 DEF InPiece
<1>3. holds = 0 => hold = "no" /\ replay' = replay /\ replay = {} /\ back = ""
  BY DEF Phase, Holding
<1>4. Holding /\ ~gone => back = ""
  BY DEF Phase
<1>5. back = "" => wpc' # "tail"
  BY <1>1
<1>6. Holding' <=> Holding
  BY DEF Holding
<1>7. holds' = 0 => hold' = "no" /\ replay' = {} /\ (wpc' \in Speaking => back' = "") /\ wpc' \notin {"again", "tail"}
  BY <1>2, <1>3, <1>5
<1>8. Holding' /\ ~gone' => wpc' \notin Speaking /\ wpc' \notin {"again", "tail"}
  BY <1>2, <1>4, <1>5, <1>6
<1>9. Speaking' = Speaking
  BY DEF Speaking
<1> QED BY <1>7, <1>8, <1>9 DEF Phase

\* A step keeps what holds before the one hold and in it.
LEMMA PhaseKept ==
  ASSUME CallerTypes, QueueTypes, PieceTypes, WorkerTypes, Where, Suffix, Queue, Phase, ~gone => Older, VoiceNext, holds' <= 1
  PROVE  Phase'
<1>1. CASE Say
  <2>1. UNCHANGED <<holds, hold, wpc, back, replay, inDevice>> /\ gone' = gone
    BY <1>1 DEF Say, device, worker, voiceCounts, callers, quiet, kept
  <2> QED BY <2>1 DEF Phase, Holding, Speaking, InDev
<1>2. CASE Put
  <2>1. UNCHANGED <<holds, hold, wpc, back, replay, inDevice>> /\ gone' = gone
    BY <1>2 DEF Put, device, worker, voiceCounts, callers, quiet, kept
  <2> QED BY <2>1 DEF Phase, Holding, Speaking, InDev
<1>3. CASE Pause
  <2>1. holds' = holds + 1 /\ UNCHANGED <<wpc, back>>
    BY <1>3 DEF Pause, worker
  <2>2. holds = 0 /\ holds' # 0
    BY <2>1, Constants DEF CallerTypes
  <2> QED BY <2>1, <2>2 DEF Phase, Speaking
<1>4. CASE RecordingShows
  <2>1. UNCHANGED <<wpc, back, inDevice>> /\ gone' = gone /\ ((hold = "paused" /\ holds' = holds) \/ holds' = holds + 1)
    BY <1>4 DEF RecordingShows, worker, device
  <2>2. CASE hold = "paused" /\ holds' = holds
    BY <2>1, <2>2 DEF Phase, Holding, Speaking, InDev
  <2>3. CASE holds' = holds + 1
    <3>1. holds = 0 /\ holds' # 0
      BY <2>3, Constants DEF CallerTypes
    <3> QED BY <2>1, <3>1 DEF Phase, Speaking
  <2> QED BY <2>1, <2>2, <2>3
<1>5. CASE HoldEnds
  <2>1. UNCHANGED <<holds, wpc, back, replay>> /\ hold' = "no"
    BY <1>5 DEF HoldEnds, worker, voiceCounts
  <2> QED BY <2>1 DEF Phase, Holding, Speaking
<1>6. CASE Stop
  <2>1. UNCHANGED <<holds, hold, wpc, back>> /\ gone' = gone /\ replay' = {} /\ inDevice' = {}
    BY <1>6 DEF Stop, Forget
  <2>2. InDev' = {}
    BY <2>1 DEF InDev
  <2> QED BY <2>1, <2>2 DEF Phase, Holding, Speaking
<1>7. CASE DropQueued
  <2>1. UNCHANGED <<holds, hold, wpc, back, replay, inDevice>> /\ gone' = gone
    BY <1>7 DEF DropQueued, device, worker, voiceCounts, callers, quiet, kept
  <2> QED BY <2>1 DEF Phase, Holding, Speaking, InDev
<1>8. CASE Close
  <2>1. UNCHANGED <<holds, hold, wpc, back, replay>> /\ gone' = TRUE
    BY <1>8 DEF Close, device, worker, voiceCounts, callers, quiet, kept
  <2> QED BY <2>1 DEF Phase, Holding, Speaking
<1>9. CASE Get
  <2>1. wpc' \in {"get", "loop", "ended"} /\ replay' = replay /\ holds' = holds /\ hold' = hold /\ gone' = gone
    BY <1>9 DEF Get, At, Goto, quiet, kept, callers, voiceCounts
  <2> QED BY <2>1 DEF Phase, Speaking
<1>10. CASE WaitHeld
  <2>1. wpc' = wpc /\ wpc \in {"loop", "again"} /\ Holding /\ CutForHold /\ back' = back /\ holds' = holds /\ hold' = hold /\ gone' = gone
    BY <1>10 DEF WaitHeld, Notice, At, quiet, kept, callers, voiceCounts
  <2>2. InDev' = {}
    BY <2>1, CutStep
  <2>3. holds # 0
    BY <2>1 DEF Phase, Holding
  <2> QED BY <2>1, <2>2, <2>3 DEF Phase, Speaking
<1>11. CASE Loop
  <2>1. holds' = holds /\ hold' = hold /\ gone' = gone /\ inDevice' = inDevice /\ item # 0 /\ Free(item)
    BY <1>11 DEF Loop, device, At, Where, quiet, kept, callers, voiceCounts
  <2>2. \/ wpc' = "again" /\ replay # {} /\ Current(LineOf(Min(replay)))
        \/ wpc' = "loop" /\ replay' \subseteq replay
        \/ wpc' = "open" /\ replay' = replay /\ back' = ""
        \/ wpc' = "said" /\ replay' = replay
    BY <1>11, Zenon DEF Loop, TakeReplay, Goto
  <2>3. CASE wpc' = "again" /\ replay # {} /\ Current(LineOf(Min(replay)))
    <3>1. holds # 0
      BY <2>3 DEF Phase
    <3>2. ~gone => ~Holding
      <4>1. SUFFICES ASSUME ~gone, Holding PROVE FALSE
        OBVIOUS
      <4> DEFINE p == Min(replay)
      <4>2. p \in replay /\ p \in PieceIds /\ LineOf(p) \in valid
        BY <2>3, FirstOfReplay DEF Current
      <4> HIDE DEF p
      <4>3. p \in Spoken /\ p \in Due
        BY <4>2 DEF Spoken, Due
      <4>4. LineOf(p) <= item
        BY <2>1, <4>1, <4>3 DEF Older
      <4>5. item \in 1..asked
        BY <2>1, WorkerNumbers, QueueNumbers, Constants DEF Queue
      <4>6. item \in valid
        BY <4>2, <4>4, <4>5 DEF Suffix
      <4> QED BY <2>1, <4>1, <4>6 DEF Free, Current
    <3> QED BY <2>1, <2>3, <3>1, <3>2 DEF Phase, Speaking, Holding
  <2>4. CASE wpc' = "loop" /\ replay' \subseteq replay
    BY <2>1, <2>4 DEF Phase, Speaking
  <2>5. CASE wpc' = "open" /\ replay' = replay /\ back' = ""
    BY <2>1, <2>5 DEF Phase, Speaking
  <2>6. CASE wpc' = "said" /\ replay' = replay
    BY <2>1, <2>6 DEF Phase, Speaking
  <2> QED BY <2>2, <2>3, <2>4, <2>5, <2>6
<1>12. CASE HeldTail
  <2>1. holds' = holds /\ hold' = hold /\ gone' = gone /\ inDevice' = inDevice /\ wpc = "tail" /\ wpc' \in {"again", "tail", "idle"}
    BY <1>12 DEF HeldTail, TakeReplay, Goto, device, At, quiet, kept, callers, voiceCounts
  <2> QED BY <2>1 DEF Phase, Speaking, Holding, InDev
<1>13. CASE SayAgain
  <2>1. holds' = holds /\ hold' = hold /\ gone' = gone /\ inDevice' = inDevice /\ wpc = "again" /\ Free(LineOf(cur)) /\ back \in {"", "loop", "tail"}
    BY <1>13 DEF SayAgain, device, At, WorkerTypes, quiet, kept, callers, voiceCounts
  <2>2. (wpc' = "open" /\ Current(LineOf(cur))) \/ wpc' = back
    BY <1>13, Zenon DEF SayAgain, Goto
  <2> QED BY <2>1, <2>2 DEF Phase, Speaking, Holding, Free, InDev
<1>14. CASE Open
  <2>1. holds' = holds /\ hold' = hold /\ gone' = gone /\ wpc = "open" /\ UNCHANGED <<item, cur, back>> /\ (replay' = replay \/ Holding)
    BY <1>14 DEF Open, At, quiet, kept, callers, voiceCounts
  <2>2. Over(TRUE) \/ Over(FALSE) \/ (wpc' = "opened" /\ replay' = replay)
    BY <1>14, Zenon DEF Open, Goto
  <2>3. CASE Over(TRUE) \/ Over(FALSE)
    <3>1. wpc \in Speaking
      BY <2>1 DEF Speaking
    <3> QED BY <2>1, <2>3, <3>1, OverPhase
  <2>4. CASE wpc' = "opened" /\ replay' = replay
    BY <2>1, <2>4 DEF Phase, Speaking, Holding
  <2> QED BY <2>2, <2>3, <2>4
<1>15. CASE List
  <2>1. holds' = holds /\ hold' = hold /\ gone' = gone /\ wpc = "opened" /\ wpc' = "streaming" /\ replay' = replay /\ back' = back
    BY <1>15 DEF List, Goto, At, quiet, kept, callers, voiceCounts
  <2> QED BY <2>1 DEF Phase, Speaking, Holding
<1>16. CASE Chunk
  <2>1. holds' = holds /\ hold' = hold /\ gone' = gone /\ wpc = "streaming" /\ UNCHANGED <<item, cur, back>> /\ (replay' = replay \/ Holding)
    BY <1>16 DEF Chunk, At, quiet, kept, callers, voiceCounts
  <2>2. Over(TRUE) \/ Over(FALSE) \/ (wpc' = "writing" /\ replay' = replay)
    BY <1>16, Zenon DEF Chunk, Goto
  <2>3. CASE Over(TRUE) \/ Over(FALSE)
    <3>1. wpc \in Speaking
      BY <2>1 DEF Speaking
    <3> QED BY <2>1, <2>3, <3>1, OverPhase
  <2>4. CASE wpc' = "writing" /\ replay' = replay
    BY <2>1, <2>4 DEF Phase, Speaking, Holding
  <2> QED BY <2>2, <2>3, <2>4
<1>17. CASE Write
  <2>1. holds' = holds /\ hold' = hold /\ gone' = gone /\ wpc = "writing" /\ wpc' = "ending" /\ replay' = replay /\ back' = back
    BY <1>17 DEF Write, Goto, At, quiet, kept, callers, voiceCounts
  <2> QED BY <2>1 DEF Phase, Speaking, Holding
<1>18. CASE StreamEnds
  <2>1. holds' = holds /\ hold' = hold /\ gone' = gone /\ wpc = "ending" /\ UNCHANGED <<item, cur, back>> /\ (replay' = replay \/ Holding)
    BY <1>18 DEF StreamEnds, At, quiet, kept, callers, voiceCounts
  <2>2. Over(TRUE) \/ Over(FALSE)
    BY <1>18, Zenon DEF StreamEnds, Goto
  <2>3. CASE Over(TRUE) \/ Over(FALSE)
    <3>1. wpc \in Speaking
      BY <2>1 DEF Speaking
    <3> QED BY <2>1, <2>3, <3>1, OverPhase
  <2> QED BY <2>2, <2>3
<1>19. CASE Said
  <2>1. wpc' \in {"get", "idle"} /\ replay' = replay /\ holds' = holds /\ hold' = hold /\ gone' = gone
    BY <1>19 DEF Said, At, Goto, quiet, kept, callers, voiceCounts
  <2> QED BY <2>1 DEF Phase, Speaking
<1>20. CASE Idle
  <2>1. holds' = holds /\ hold' = hold /\ gone' = gone /\ ((wpc' = "get" /\ replay' = replay) \/ (wpc' = "tail" /\ Holding /\ CutForHold))
    BY <1>20 DEF Idle, Leaves, Goto, quiet, kept, callers, voiceCounts
  <2>2. CASE wpc' = "get" /\ replay' = replay
    BY <2>1, <2>2 DEF Phase, Speaking
  <2>3. CASE wpc' = "tail" /\ Holding /\ CutForHold
    <3>1. InDev' = {} /\ holds # 0
      BY <2>3, CutStep DEF Phase, Holding
    <3> QED BY <2>1, <2>3, <3>1 DEF Phase, Speaking
  <2> QED BY <2>1, <2>2, <2>3
<1>21. CASE Fail
  <2>1. wpc' \in {"said", "loop", "idle", "tail", "dead"} /\ replay' = replay /\ holds' = holds /\ hold' = hold /\ gone' = gone
    BY <1>21, FailKeeps, FailLeads DEF WorkerTypes
  <2>2. wpc \in Speaking /\ (back = "" => wpc' = "said")
    BY <1>21, FailLeads DEF Speaking
  <2> QED BY <2>1, <2>2 DEF Phase, Speaking, Holding
<1>22. CASE Plays
  <2>1. UNCHANGED <<holds, hold, wpc, back, replay, inDevice>> /\ gone' = gone
    BY <1>22 DEF Plays, device, worker, voiceCounts, callers, quiet, kept
  <2> QED BY <2>1 DEF Phase, Holding, Speaking, InDev
<1> QED
  BY <1>1, <1>2, <1>3, <1>4, <1>5, <1>6, <1>7, <1>8, <1>9, <1>10, <1>11, <1>12, <1>13, <1>14, <1>15, <1>16, <1>17, <1>18, <1>19, <1>20, <1>21, <1>22 DEF VoiceNext, WorkerStep

-----------------------------------------------------------------------------
(* What comes before.                                                       *)

\* A piece of a line that was asked for: what is due before it was due before.
LEMMA DueBefore ==
  ASSUME QueueTypes, VoiceNext, NEW p \in PieceIds, LineOf(p) <= asked, NEW d \in Due', d < p
  PROVE  d \in Due
<1>1. d \in PieceIds
  BY DueStep
<1>2. CASE LineOf(d) = asked + 1
  <2>1. p < d
    BY <1>1, <1>2, NewLineIsLast
  <2> QED BY <1>1, <2>1, PieceNumbers
<1> QED BY <1>2, DueStep

\* What is settled before a piece stays settled.
LEMMA BeforeKept ==
  ASSUME QueueTypes, VoiceNext, NEW p \in PieceIds, LineOf(p) <= asked, Before(p), Settled \subseteq Settled'
  PROVE  \A d \in Due' : d < p => d \in Settled'
BY DueBefore DEF Before

\* The piece in hand is a piece of a line that was asked for.
LEMMA CurIsAsked ==
  ASSUME WorkerTypes, Where, Asked, wpc \in InPiece
  PROVE  cur \in PieceIds /\ LineOf(cur) <= asked
BY DEF Where, WorkerTypes, Asked

\* A step that leaves the device alone settles no less.
LEMMA AudioStays ==
  ASSUME audio' = audio, heard' = heard, lost \subseteq lost' /\ unnoticed \subseteq unnoticed'
  PROVE  Settled \subseteq Settled' /\ Done \subseteq Done'
BY DEF Settled, Done, Whole

\* A step keeps every piece asked for after all before it are said.
LEMMA ReadyKept ==
  ASSUME QueueTypes, Suffix, DeviceTypes, PieceTypes, WorkerTypes, Where, Queue, Asked, Ready, AgainFirst, InOrder, Covered,
         VoiceNext, ~gone'
  PROVE  Ready'
<1>0. ~gone
  BY GoneStays
<1>1. CASE Say
  <2>1. UNCHANGED <<wpc, cur, hold>> /\ UNCHANGED <<audio, heard>> /\ lost \subseteq lost' /\ unnoticed \subseteq unnoticed'
    BY <1>1 DEF Say, device, worker, voiceCounts, callers, quiet, kept
  <2>2. SUFFICES ASSUME ~Holding, wpc \in {"open", "opened", "streaming"} PROVE \A d \in Due' : d < cur => d \in Settled'
    BY <2>1 DEF Ready, Before, Holding
  <2>3. wpc \in InPiece /\ Before(cur)
    BY <2>2 DEF InPiece, Speaking, Ready
  <2> QED BY <2>1, <2>3, AudioStays, CurIsAsked, BeforeKept
<1>2. CASE Put
  <2>1. UNCHANGED <<wpc, cur, hold>> /\ UNCHANGED <<audio, heard>> /\ lost \subseteq lost' /\ unnoticed \subseteq unnoticed'
    BY <1>2 DEF Put, device, worker, voiceCounts, callers, quiet, kept
  <2>2. SUFFICES ASSUME ~Holding, wpc \in {"open", "opened", "streaming"} PROVE \A d \in Due' : d < cur => d \in Settled'
    BY <2>1 DEF Ready, Before, Holding
  <2>3. wpc \in InPiece /\ Before(cur)
    BY <2>2 DEF InPiece, Speaking, Ready
  <2> QED BY <2>1, <2>3, AudioStays, CurIsAsked, BeforeKept
<1>3. CASE Pause
  <2>1. hold' \in {"paused", "recording"}
    BY <1>3 DEF Pause
  <2> QED BY <2>1 DEF Ready, Holding
<1>4. CASE RecordingShows
  <2>1. hold' \in {"paused", "recording"}
    BY <1>4 DEF RecordingShows
  <2> QED BY <2>1 DEF Ready, Holding
<1>5. CASE HoldEnds
  <2>1. /\ UNCHANGED <<wpc, cur, valid, audio, heard, lost>>
        /\ wpc \in PastLook => replay \subseteq unnoticed'
        /\ unnoticed \subseteq unnoticed'
    BY <1>5 DEF HoldEnds, worker, device
  <2>2. SUFFICES ASSUME wpc \in {"open", "opened", "streaming"}, NEW d \in Due', d < cur PROVE d \in Settled'
    BY <2>1 DEF Ready, Before
  <2>3. wpc \in InPiece /\ wpc \in PastLook /\ cur \in PieceIds /\ d \in Due /\ LineOf(cur) <= asked
    <3>1. wpc \in InPiece /\ wpc \in PastLook
      BY <2>2 DEF InPiece, Speaking, PastLook
    <3>2. cur \in PieceIds
      BY <3>1 DEF Where, WorkerTypes
    <3>3. d \in Due
      BY <2>1, <2>2 DEF Due
    <3> QED BY <3>1, <3>2, <3>3 DEF Asked
  <2>4. cur \in Due
    <3>1. LineOf(d) \in valid /\ LineOf(d) <= LineOf(cur) /\ LineOf(cur) \in 1..asked
      BY <2>2, <2>3, LinesInOrder, PieceNumbers, QueueNumbers, Constants DEF Due
    <3> QED BY <2>3, <3>1 DEF Suffix, Due
  <2>5. cur \in Spoken
    BY <2>2 DEF Spoken, InHand, Hands
  <2>6. d \notin Ahead /\ d \notin InHand
    <3>1. d \in Nat /\ cur \in Nat
      BY <2>3, PieceNumbers DEF Due
    <3> QED BY <2>2, <2>4, <2>5, <3>1 DEF InOrder, InHand
  <2>7. d \in Settled \cup replay
    BY <2>3, <2>6 DEF Covered
  <2>8. Settled \subseteq Settled' /\ replay \subseteq Settled'
    BY <2>1, <2>3, AudioStays DEF Settled, Done
  <2> QED BY <2>7, <2>8
<1>6. CASE Stop
  <2>1. Due' = {}
    BY <1>6 DEF Stop, Forget, Due
  <2> QED BY <2>1 DEF Ready, Before
<1>7. CASE DropQueued
  <2>1. UNCHANGED <<wpc, cur, hold>> /\ UNCHANGED <<audio, heard>> /\ lost \subseteq lost' /\ unnoticed \subseteq unnoticed'
    BY <1>7 DEF DropQueued, device, worker, voiceCounts, callers, quiet, kept
  <2>2. SUFFICES ASSUME ~Holding, wpc \in {"open", "opened", "streaming"} PROVE \A d \in Due' : d < cur => d \in Settled'
    BY <2>1 DEF Ready, Before, Holding
  <2>3. wpc \in InPiece /\ Before(cur)
    BY <2>2 DEF InPiece, Speaking, Ready
  <2> QED BY <2>1, <2>3, AudioStays, CurIsAsked, BeforeKept
<1>8. CASE Close
  <2>1. UNCHANGED <<wpc, cur, hold>> /\ UNCHANGED <<audio, heard>> /\ lost \subseteq lost' /\ unnoticed \subseteq unnoticed'
    BY <1>8 DEF Close, device, worker, voiceCounts, callers, quiet, kept
  <2>2. SUFFICES ASSUME ~Holding, wpc \in {"open", "opened", "streaming"} PROVE \A d \in Due' : d < cur => d \in Settled'
    BY <2>1 DEF Ready, Before, Holding
  <2>3. wpc \in InPiece /\ Before(cur)
    BY <2>2 DEF InPiece, Speaking, Ready
  <2> QED BY <2>1, <2>3, AudioStays, CurIsAsked, BeforeKept
<1>9. CASE Get
  <2>1. wpc' \in {"get", "loop", "ended"}
    BY <1>9 DEF Get, At, Goto
  <2> QED BY <2>1 DEF Ready
<1>10. CASE WaitHeld
  <2>1. wpc' \in {"loop", "again"}
    BY <1>10 DEF WaitHeld, At
  <2> QED BY <2>1 DEF Ready
<1>11. CASE Loop
  <2>1. wpc = "loop" /\ item # 0 /\ UNCHANGED <<valid, hold, audio, heard, lost, unnoticed>>
    BY <1>11 DEF Loop, At, Where, quiet, kept, callers, voiceCounts, device
  <2>2. \/ wpc' \in {"again", "loop", "said"}
        \/ wpc' = "open" /\ cur' = PieceOf(item, index) /\ replay = {}
    BY <1>11, Zenon DEF Loop, TakeReplay, Goto
  <2>3. CASE wpc' \in {"again", "loop", "said"}
    BY <2>3 DEF Ready
  <2>4. CASE wpc' = "open" /\ cur' = PieceOf(item, index) /\ replay = {}
    <3>1. Due' = Due
      BY <2>1 DEF Due
    <3>2. Settled \subseteq Settled'
      BY <2>1, AudioStays
    <3>3. ASSUME NEW d \in Due, d < cur' PROVE d \in Settled
      <4>1. d \in Nat /\ cur' \in Nat
        BY <2>1, <2>4, OwnPiece, PieceNumbers DEF Due
      <4>2. d \notin InHand
        BY <2>1 DEF InHand, Hands
      <4>3. d \notin Rest
        <5>1. NextIndex = index
          BY <2>1 DEF NextIndex, Speaking
        <5> QED BY <2>4, <3>3, <4>1, <5>1 DEF Rest
      <4>4. d \notin Queued
        <5>1. SUFFICES ASSUME d \in Queued PROVE FALSE
          OBVIOUS
        <5>2. item \in Nat /\ item < LineOf(d)
          <6>0. item \in Nat
            BY WorkerNumbers, Constants
          <6>1. CASE LineOf(d) = putting
            <7>1. d \in PieceIds /\ LineOf(d) # 0
              BY LinesInOrder, Constants DEF Due
            <7> QED BY <6>0, <6>1, <7>1 DEF Queue
          <6>2. CASE \E i \in 1..Len(lines) : lines[i] = LineOf(d)
            <7>1. PICK i \in 1..Len(lines) : lines[i] = LineOf(d)
              BY <6>2
            <7>2. d \in PieceIds /\ LineOf(d) # 0
              BY LinesInOrder, Constants DEF Due
            <7> QED BY <6>0, <7>1, <7>2 DEF Queue
          <6> QED BY <5>1, <6>1, <6>2 DEF Queued
        <5>3. LineOf(cur') = item /\ cur' \in PieceIds /\ d \in PieceIds
          BY <2>1, <2>4, OwnPiece DEF Due
        <5>4. cur' < d
          BY <5>2, <5>3, LinesInOrder
        <5> QED BY <3>3, <4>1, <5>4
      <4> QED BY <2>4, <4>2, <4>3, <4>4 DEF Covered, Ahead
    <3> QED BY <3>1, <3>2, <3>3 DEF Ready, Before
  <2> QED BY <2>2, <2>3, <2>4
<1>12. CASE HeldTail
  <2>1. wpc' \in {"tail", "again", "idle"}
    BY <1>12 DEF HeldTail, At, Goto, TakeReplay
  <2> QED BY <2>1 DEF Ready
<1>13. CASE SayAgain
  <2>1. wpc = "again" /\ cur' = cur /\ UNCHANGED <<valid, hold, audio, heard, lost, unnoticed>> /\ back \in {"loop", "tail"}
    BY <1>13 DEF SayAgain, At, Where, WorkerTypes, quiet, kept, callers, voiceCounts, device
  <2>2. (wpc' = "open" /\ Current(LineOf(cur))) \/ wpc' = back
    BY <1>13, Zenon DEF SayAgain, Goto
  <2>3. CASE wpc' = back
    BY <2>1, <2>3 DEF Ready
  <2>4. CASE wpc' = "open" /\ Current(LineOf(cur))
    <3>1. Due' = Due
      BY <2>1 DEF Due
    <3>2. Settled \subseteq Settled'
      BY <2>1, AudioStays
    <3>3. cur \in PieceIds /\ cur \in Due /\ cur \in Spoken
      BY <2>1, <2>4, CurIsAsked DEF InPiece, Current, Due, Spoken, InHand, Hands
    <3>4. ASSUME NEW d \in Due, d < cur PROVE d \in Settled
      <4>1. d \in Nat /\ cur \in Nat
        BY <3>3, PieceNumbers DEF Due
      <4>2. d \notin InHand
        BY <3>4, <4>1 DEF InHand
      <4>3. d \notin replay
        BY <2>1, <3>4, <4>1 DEF AgainFirst
      <4>4. d \notin Ahead
        <5>1. SUFFICES ASSUME d \in Ahead PROVE FALSE
          OBVIOUS
        <5>2. cur < d
          BY <3>3, <5>1 DEF InOrder
        <5> QED BY <3>4, <4>1, <5>2
      <4> QED BY <4>2, <4>3, <4>4 DEF Covered
    <3> QED BY <2>1, <3>1, <3>2, <3>4 DEF Ready, Before
  <2> QED BY <2>2, <2>3, <2>4
<1>14. CASE Open
  <2>1. wpc = "open" /\ UNCHANGED <<cur, item, back, hold, valid, audio, heard, lost, unnoticed>>
    BY <1>14 DEF Open, At, quiet, kept, callers, voiceCounts, device
  <2>2. Over(TRUE) \/ wpc' = "opened"
    BY <1>14, Zenon DEF Open, Goto
  <2>3. CASE Over(TRUE)
    <3>1. wpc' \notin InPiece
      BY <2>1, <2>3, OverStep DEF Speaking
    <3> QED BY <3>1 DEF Ready, InPiece, Speaking
  <2>4. CASE wpc' = "opened"
    <3>1. Due' = Due /\ Settled \subseteq Settled'
      BY <2>1, AudioStays DEF Due
    <3> QED BY <2>1, <2>4, <3>1 DEF Ready, Before, Holding
  <2> QED BY <2>2, <2>3, <2>4
<1>15. CASE List
  <2>1. wpc = "opened" /\ wpc' = "streaming" /\ UNCHANGED <<cur, hold, valid, audio, heard, lost, unnoticed>>
    BY <1>15 DEF List, At, Goto, quiet, kept, callers, voiceCounts, device
  <2>2. Due' = Due /\ Settled \subseteq Settled'
    BY <2>1, AudioStays DEF Due
  <2> QED BY <2>1, <2>2 DEF Ready, Before, Holding
<1>16. CASE Chunk
  <2>1. wpc \in Speaking /\ UNCHANGED <<cur, item, back>>
    BY <1>16 DEF Chunk, At, Speaking
  <2>2. Over(TRUE) \/ Over(FALSE) \/ wpc' = "writing"
    BY <1>16, Zenon DEF Chunk, Goto
  <2>3. Over(TRUE) \/ Over(FALSE) => wpc' \notin InPiece
    BY <2>1, OverStep
  <2> QED BY <2>2, <2>3 DEF Ready, InPiece, Speaking
<1>17. CASE Write
  <2>1. wpc' \in {"ending"}
    BY <1>17 DEF Write, At, Goto
  <2> QED BY <2>1 DEF Ready
<1>18. CASE StreamEnds
  <2>1. wpc \in Speaking /\ UNCHANGED <<cur, item, back>>
    BY <1>18 DEF StreamEnds, At, Speaking
  <2>2. Over(TRUE) \/ Over(FALSE)
    BY <1>18, Zenon DEF StreamEnds, Goto
  <2>3. Over(TRUE) \/ Over(FALSE) => wpc' \notin InPiece
    BY <2>1, OverStep
  <2> QED BY <2>2, <2>3 DEF Ready, InPiece, Speaking
<1>19. CASE Said
  <2>1. wpc' \in {"get", "idle"}
    BY <1>19 DEF Said, At, Goto
  <2> QED BY <2>1 DEF Ready
<1>20. CASE Idle
  <2>1. wpc' \in {"get", "tail"}
    BY <1>20 DEF Idle, At, Goto
  <2> QED BY <2>1 DEF Ready
<1>21. CASE Fail
  <2>1. wpc' \in {"said", "loop", "idle", "tail", "dead"}
    BY <1>21, FailKeeps, FailLeads DEF WorkerTypes
  <2> QED BY <2>1 DEF Ready
<1>22. CASE Plays
  <2>1. UNCHANGED <<wpc, cur, hold>> /\ lost' = lost /\ unnoticed' = unnoticed
    BY <1>22 DEF Plays, device, worker, voiceCounts, callers, quiet, kept
  <2>2. SUFFICES ASSUME ~Holding, wpc \in {"open", "opened", "streaming"} PROVE \A d \in Due' : d < cur => d \in Settled'
    BY <2>1 DEF Ready, Before, Holding
  <2>3. wpc \in InPiece /\ Before(cur)
    BY <2>2 DEF InPiece, Speaking, Ready
  <2>4. Settled \subseteq Settled'
    BY <1>22, <2>1, PlaysWhole DEF Settled, Done
  <2> QED BY <2>3, <2>4, CurIsAsked, BeforeKept
<1> QED
  BY <1>1, <1>2, <1>3, <1>4, <1>5, <1>6, <1>7, <1>8, <1>9, <1>10, <1>11, <1>12, <1>13, <1>14, <1>15, <1>16, <1>17, <1>18, <1>19, <1>20, <1>21, <1>22 DEF VoiceNext, WorkerStep

\* A step keeps the piece about to be written the next of those that sound.
LEMMA NextInOrderKept ==
  ASSUME QueueTypes, DeviceTypes, PieceTypes, WorkerTypes, Where, Asked, NextInOrder, ~gone => Ready, VoiceNext
  PROVE  NextInOrder'
<1>1. CASE Say
  <2>1. UNCHANGED <<wpc, cur, inDevice>> /\ UNCHANGED <<audio, heard>> /\ lost \subseteq lost' /\ unnoticed \subseteq unnoticed'
    BY <1>1 DEF Say, device, worker, voiceCounts, callers, quiet, kept
  <2>2. SUFFICES ASSUME wpc = "writing", cur \in InDev PROVE \A d \in Due' : d < cur => d \in Settled'
    BY <2>1 DEF NextInOrder, Before, InDev
  <2>3. wpc \in InPiece /\ Before(cur)
    BY <2>2 DEF InPiece, Speaking, NextInOrder
  <2>4. Settled \subseteq Settled'
    BY <1>1, <2>1, AudioStays
  <2> QED BY <2>3, <2>4, CurIsAsked, BeforeKept
<1>2. CASE Put
  <2>1. UNCHANGED <<wpc, cur, inDevice>> /\ UNCHANGED <<audio, heard>> /\ lost \subseteq lost' /\ unnoticed \subseteq unnoticed'
    BY <1>2 DEF Put, device, worker, voiceCounts, callers, quiet, kept
  <2>2. SUFFICES ASSUME wpc = "writing", cur \in InDev PROVE \A d \in Due' : d < cur => d \in Settled'
    BY <2>1 DEF NextInOrder, Before, InDev
  <2>3. wpc \in InPiece /\ Before(cur)
    BY <2>2 DEF InPiece, Speaking, NextInOrder
  <2>4. Settled \subseteq Settled'
    BY <1>2, <2>1, AudioStays
  <2> QED BY <2>3, <2>4, CurIsAsked, BeforeKept
<1>3. CASE Pause
  <2>1. InDev' = {}
    BY <1>3, CutStep DEF Pause
  <2> QED BY <2>1 DEF NextInOrder
<1>4. CASE RecordingShows
  <2>1. UNCHANGED <<wpc, cur, inDevice>> /\ UNCHANGED <<audio, heard>> /\ lost \subseteq lost' /\ unnoticed \subseteq unnoticed'
    BY <1>4 DEF RecordingShows, device, worker, voiceCounts, callers, quiet, kept
  <2>2. SUFFICES ASSUME wpc = "writing", cur \in InDev PROVE \A d \in Due' : d < cur => d \in Settled'
    BY <2>1 DEF NextInOrder, Before, InDev
  <2>3. wpc \in InPiece /\ Before(cur)
    BY <2>2 DEF InPiece, Speaking, NextInOrder
  <2>4. Settled \subseteq Settled'
    BY <1>4, <2>1, AudioStays
  <2> QED BY <2>3, <2>4, CurIsAsked, BeforeKept
<1>5. CASE HoldEnds
  <2>1. UNCHANGED <<wpc, cur, inDevice>> /\ UNCHANGED <<audio, heard>> /\ lost \subseteq lost' /\ unnoticed \subseteq unnoticed'
    BY <1>5 DEF HoldEnds, device, worker, voiceCounts, callers, quiet, kept
  <2>2. SUFFICES ASSUME wpc = "writing", cur \in InDev PROVE \A d \in Due' : d < cur => d \in Settled'
    BY <2>1 DEF NextInOrder, Before, InDev
  <2>3. wpc \in InPiece /\ Before(cur)
    BY <2>2 DEF InPiece, Speaking, NextInOrder
  <2>4. Settled \subseteq Settled'
    BY <1>5, <2>1, AudioStays
  <2> QED BY <2>3, <2>4, CurIsAsked, BeforeKept
<1>6. CASE Stop
  <2>1. Due' = {}
    BY <1>6 DEF Stop, Forget, Due
  <2> QED BY <2>1 DEF NextInOrder, Before
<1>7. CASE DropQueued
  <2>1. UNCHANGED <<wpc, cur, inDevice>> /\ UNCHANGED <<audio, heard>> /\ lost \subseteq lost' /\ unnoticed \subseteq unnoticed'
    BY <1>7 DEF DropQueued, device, worker, voiceCounts, callers, quiet, kept
  <2>2. SUFFICES ASSUME wpc = "writing", cur \in InDev PROVE \A d \in Due' : d < cur => d \in Settled'
    BY <2>1 DEF NextInOrder, Before, InDev
  <2>3. wpc \in InPiece /\ Before(cur)
    BY <2>2 DEF InPiece, Speaking, NextInOrder
  <2>4. Settled \subseteq Settled'
    BY <1>7, <2>1, AudioStays
  <2> QED BY <2>3, <2>4, CurIsAsked, BeforeKept
<1>8. CASE Close
  <2>1. UNCHANGED <<wpc, cur, inDevice>> /\ UNCHANGED <<audio, heard>> /\ lost \subseteq lost' /\ unnoticed \subseteq unnoticed'
    BY <1>8 DEF Close, device, worker, voiceCounts, callers, quiet, kept
  <2>2. SUFFICES ASSUME wpc = "writing", cur \in InDev PROVE \A d \in Due' : d < cur => d \in Settled'
    BY <2>1 DEF NextInOrder, Before, InDev
  <2>3. wpc \in InPiece /\ Before(cur)
    BY <2>2 DEF InPiece, Speaking, NextInOrder
  <2>4. Settled \subseteq Settled'
    BY <1>8, <2>1, AudioStays
  <2> QED BY <2>3, <2>4, CurIsAsked, BeforeKept
<1>9. CASE Get
  <2>1. wpc' \in {"get", "loop", "ended"}
    BY <1>9 DEF Get, At, Goto
  <2> QED BY <2>1 DEF NextInOrder
<1>10. CASE WaitHeld
  <2>1. wpc' \in {"loop", "again"}
    BY <1>10 DEF WaitHeld, At, Goto
  <2> QED BY <2>1 DEF NextInOrder
<1>11. CASE Loop
  <2>1. wpc' \in {"loop", "again", "open", "said"}
    BY <1>11 DEF Loop, At, Goto, TakeReplay
  <2> QED BY <2>1 DEF NextInOrder
<1>12. CASE HeldTail
  <2>1. wpc' \in {"tail", "again", "idle"}
    BY <1>12 DEF HeldTail, At, Goto, TakeReplay
  <2> QED BY <2>1 DEF NextInOrder
<1>13. CASE SayAgain
  <2>1. wpc' \in {"open", "loop", "tail"}
    BY <1>13 DEF SayAgain, At, Goto, Where, WorkerTypes
  <2> QED BY <2>1 DEF NextInOrder
<1>14. CASE Open
  <2>1. wpc \in Speaking /\ UNCHANGED <<cur, item, back>>
    BY <1>14 DEF Open, At, Speaking
  <2>2. Over(TRUE) \/ Over(FALSE) \/ wpc' = "opened"
    BY <1>14, Zenon DEF Open, Goto
  <2>3. Over(TRUE) \/ Over(FALSE) => wpc' \notin InPiece
    BY <2>1, OverStep
  <2> QED BY <2>2, <2>3 DEF NextInOrder, InPiece, Speaking
<1>15. CASE List
  <2>1. wpc' \in {"streaming"}
    BY <1>15 DEF List, At, Goto
  <2> QED BY <2>1 DEF NextInOrder
<1>16. CASE Chunk
  <2>1. wpc = "streaming" /\ UNCHANGED <<cur, item, back, heard, lost, unnoticed, valid>>
    BY <1>16 DEF Chunk, At, quiet, kept, callers, voiceCounts, device
  <2>2. Over(TRUE) \/ Over(FALSE) \/ (wpc' = "writing" /\ audio' = audio /\ ~Holding /\ Current(LineOf(cur)))
    BY <1>16, Zenon DEF Chunk, Goto, device
  <2>3. CASE Over(TRUE) \/ Over(FALSE)
    <3>1. wpc' \notin InPiece
      BY <2>1, <2>3, OverStep DEF Speaking
    <3> QED BY <3>1 DEF NextInOrder, InPiece, Speaking
  <2>4. CASE wpc' = "writing" /\ audio' = audio /\ ~Holding /\ Current(LineOf(cur))
    <3>1. Before(cur)
      BY <2>1, <2>4 DEF Ready, Current
    <3>2. Due' = Due /\ Settled \subseteq Settled'
      BY <2>1, <2>4, AudioStays DEF Due
    <3> QED BY <2>1, <3>1, <3>2 DEF NextInOrder, Before
  <2> QED BY <2>2, <2>3, <2>4
<1>17. CASE Write
  <2>1. wpc' \in {"ending"}
    BY <1>17 DEF Write, At, Goto
  <2> QED BY <2>1 DEF NextInOrder
<1>18. CASE StreamEnds
  <2>1. wpc \in Speaking /\ UNCHANGED <<cur, item, back>>
    BY <1>18 DEF StreamEnds, At, Speaking
  <2>2. Over(TRUE) \/ Over(FALSE)
    BY <1>18, Zenon DEF StreamEnds, Goto
  <2>3. Over(TRUE) \/ Over(FALSE) => wpc' \notin InPiece
    BY <2>1, OverStep
  <2> QED BY <2>2, <2>3 DEF NextInOrder, InPiece, Speaking
<1>19. CASE Said
  <2>1. wpc' \in {"get", "idle"}
    BY <1>19 DEF Said, At, Goto
  <2> QED BY <2>1 DEF NextInOrder
<1>20. CASE Idle
  <2>1. wpc' \in {"get", "tail"}
    BY <1>20 DEF Idle, At, Goto
  <2> QED BY <2>1 DEF NextInOrder
<1>21. CASE Fail
  <2>1. wpc' \in {"said", "loop", "idle", "tail", "dead"}
    BY <1>21, FailKeeps, FailLeads DEF WorkerTypes
  <2> QED BY <2>1 DEF NextInOrder
<1>22. CASE Plays
  <2>1. UNCHANGED <<wpc, cur, inDevice>>
    BY <1>22 DEF Plays, device, worker, voiceCounts, callers, quiet, kept
  <2>2. SUFFICES ASSUME wpc = "writing", cur \in InDev PROVE \A d \in Due' : d < cur => d \in Settled'
    BY <2>1 DEF NextInOrder, Before, InDev
  <2>3. wpc \in InPiece /\ Before(cur)
    BY <2>2 DEF InPiece, Speaking, NextInOrder
  <2>4. Settled \subseteq Settled'
    BY <1>22, <2>1, PlaysWhole DEF Plays, Settled, Done, quiet, kept
  <2> QED BY <2>3, <2>4, CurIsAsked, BeforeKept
<1> QED
  BY <1>1, <1>2, <1>3, <1>4, <1>5, <1>6, <1>7, <1>8, <1>9, <1>10, <1>11, <1>12, <1>13, <1>14, <1>15, <1>16, <1>17, <1>18, <1>19, <1>20, <1>21, <1>22 DEF VoiceNext, WorkerStep

\* The device keeps its order.
LEMMA SoundsStay ==
  ASSUME QueueTypes, DeviceTypes, Asked, SoundsInOrder, VoiceNext, audio' = audio, Done \subseteq Done'
  PROVE  SoundsInOrder'
<1>1. SUFFICES ASSUME NEW i \in DOMAIN audio, audio[i].whole, NEW d \in Due', d < audio[i].piece
               PROVE  d \in Done' \/ \E j \in 1..i - 1 : audio[j].whole /\ audio[j].piece = d
  BY DEF SoundsInOrder
<1>2. audio[i].piece \in PieceIds /\ LineOf(audio[i].piece) <= asked
  <2>1. audio[i].piece \in Audible
    BY DEF Audible
  <2> QED BY <2>1, CutIsUnheard DEF Asked
<1>3. d \in Due
  BY <1>1, <1>2, DueBefore
<1> QED BY <1>1, <1>3 DEF SoundsInOrder

\* An empty device is in order.
LEMMA NoSounds == ASSUME audio' = <<>> PROVE SoundsInOrder'
BY DEF SoundsInOrder

\* A step keeps the device in order.
LEMMA SoundsInOrderKept ==
  ASSUME QueueTypes, DeviceTypes, WorkerTypes, Where, Asked, SoundsInOrder, NextInOrder, VoiceNext
  PROVE  SoundsInOrder'
<1>1. CASE Say
  <2>1. audio' = audio /\ heard' = heard /\ lost \subseteq lost' /\ unnoticed \subseteq unnoticed'
    BY <1>1 DEF Say, device, worker, voiceCounts, callers, quiet, kept
  <2>2. Done \subseteq Done'
    BY <2>1 DEF Done
  <2> QED BY <2>1, <2>2, SoundsStay
<1>2. CASE Put
  <2>1. audio' = audio /\ heard' = heard /\ lost \subseteq lost' /\ unnoticed \subseteq unnoticed'
    BY <1>2 DEF Put, device, worker, voiceCounts, callers, quiet, kept
  <2>2. Done \subseteq Done'
    BY <2>1 DEF Done
  <2> QED BY <2>1, <2>2, SoundsStay
<1>3. CASE Pause
  <2>1. audio' = <<>>
    BY <1>3, CutStep DEF Pause, Notice
  <2> QED BY <2>1, NoSounds
<1>4. CASE RecordingShows
  <2>1. audio' = audio /\ heard' = heard /\ lost \subseteq lost' /\ unnoticed \subseteq unnoticed'
    BY <1>4 DEF RecordingShows, device, worker, voiceCounts, callers, quiet, kept
  <2>2. Done \subseteq Done'
    BY <2>1 DEF Done
  <2> QED BY <2>1, <2>2, SoundsStay
<1>5. CASE HoldEnds
  <2>1. audio' = audio /\ heard' = heard /\ lost \subseteq lost' /\ unnoticed \subseteq unnoticed'
    BY <1>5 DEF HoldEnds, device, worker, voiceCounts, callers, quiet, kept
  <2>2. Done \subseteq Done'
    BY <2>1 DEF Done
  <2> QED BY <2>1, <2>2, SoundsStay
<1>6. CASE Stop
  <2>1. audio' = <<>>
    BY <1>6 DEF Stop, Forget
  <2> QED BY <2>1, NoSounds
<1>7. CASE DropQueued
  <2>1. audio' = audio /\ heard' = heard /\ lost \subseteq lost' /\ unnoticed \subseteq unnoticed'
    BY <1>7 DEF DropQueued, device, worker, voiceCounts, callers, quiet, kept
  <2>2. Done \subseteq Done'
    BY <2>1 DEF Done
  <2> QED BY <2>1, <2>2, SoundsStay
<1>8. CASE Close
  <2>1. audio' = audio /\ heard' = heard /\ lost \subseteq lost' /\ unnoticed \subseteq unnoticed'
    BY <1>8 DEF Close, device, worker, voiceCounts, callers, quiet, kept
  <2>2. Done \subseteq Done'
    BY <2>1 DEF Done
  <2> QED BY <2>1, <2>2, SoundsStay
<1>9. CASE Get
  <2>1. heard' = heard /\ lost' = lost /\ unnoticed' = unnoticed /\ (audio' = audio \/ audio' = <<>>)
    BY <1>9, CutStep DEF Get, device, Leaves, LetGo, quiet, kept, callers
  <2>2. Done \subseteq Done'
    BY <2>1 DEF Done
  <2> QED BY <2>1, <2>2, SoundsStay, NoSounds
<1>10. CASE WaitHeld
  <2>1. audio' = <<>>
    BY <1>10, CutStep DEF WaitHeld, Notice
  <2> QED BY <2>1, NoSounds
<1>11. CASE Loop
  <2>1. audio' = audio /\ heard' = heard /\ lost \subseteq lost' /\ unnoticed \subseteq unnoticed'
    BY <1>11 DEF Loop, device, worker, voiceCounts, callers, quiet, kept
  <2>2. Done \subseteq Done'
    BY <2>1 DEF Done
  <2> QED BY <2>1, <2>2, SoundsStay
<1>12. CASE HeldTail
  <2>1. audio' = audio /\ heard' = heard /\ lost \subseteq lost' /\ unnoticed \subseteq unnoticed'
    BY <1>12 DEF HeldTail, device, worker, voiceCounts, callers, quiet, kept
  <2>2. Done \subseteq Done'
    BY <2>1 DEF Done
  <2> QED BY <2>1, <2>2, SoundsStay
<1>13. CASE SayAgain
  <2>1. audio' = audio /\ heard' = heard /\ lost \subseteq lost' /\ unnoticed \subseteq unnoticed'
    BY <1>13 DEF SayAgain, device, worker, voiceCounts, callers, quiet, kept
  <2>2. Done \subseteq Done'
    BY <2>1 DEF Done
  <2> QED BY <2>1, <2>2, SoundsStay
<1>14. CASE Open
  <2>1. audio' = audio /\ heard' = heard /\ lost \subseteq lost' /\ unnoticed \subseteq unnoticed'
    BY <1>14 DEF Open, device, worker, voiceCounts, callers, quiet, kept
  <2>2. Done \subseteq Done'
    BY <2>1 DEF Done
  <2> QED BY <2>1, <2>2, SoundsStay
<1>15. CASE List
  <2>1. audio' = audio /\ heard' = heard /\ lost \subseteq lost' /\ unnoticed \subseteq unnoticed'
    BY <1>15 DEF List, device, worker, voiceCounts, callers, quiet, kept
  <2>2. Done \subseteq Done'
    BY <2>1 DEF Done
  <2> QED BY <2>1, <2>2, SoundsStay
<1>16. CASE Chunk
  <2>1. heard' = heard /\ lost' = lost /\ unnoticed' = unnoticed /\ (audio' = audio \/ audio' = <<>>)
    BY <1>16, CutStep DEF Chunk, device, Leaves, LetGo, quiet, kept, callers
  <2>2. Done \subseteq Done'
    BY <2>1 DEF Done
  <2> QED BY <2>1, <2>2, SoundsStay, NoSounds
<1>17. CASE Write
  <2> DEFINE s == [piece |-> cur, whole |-> Listed(cur)]
  <2>1. s \in Sounds /\ s.piece = cur /\ (usable => audio' = Append(audio, s)) /\ (~usable => audio' = audio) /\ wpc = "writing"
    BY <1>17, WriteStep
  <2>2. s.whole <=> cur \in InDev
    BY CutIsUnheard
  <2>3. heard' = heard /\ lost \subseteq lost' /\ unnoticed' = unnoticed /\ valid' = valid
    BY <1>17 DEF Write, quiet, kept, callers
  <2>4. Done \subseteq Done' /\ Due' = Due
    BY <2>3 DEF Done, Due
  <2> HIDE DEF s
  <2>5. CASE ~usable
    BY <2>1, <2>4, <2>5, SoundsStay
  <2>6. CASE usable
    <3>1. /\ Len(audio) \in Nat /\ DOMAIN audio = 1..Len(audio) /\ DOMAIN audio' = 1..Len(audio') /\ Len(audio') = Len(audio) + 1
          /\ audio'[Len(audio) + 1] = s /\ \A i \in 1..Len(audio) : audio'[i] = audio[i]
      BY <2>1, <2>6, Written
    <3>2. SUFFICES ASSUME NEW i \in DOMAIN audio', audio'[i].whole, NEW d \in Due, d < audio'[i].piece
                   PROVE  d \in Done \/ \E j \in 1..i - 1 : audio'[j].whole /\ audio'[j].piece = d
      BY <2>4 DEF SoundsInOrder
    <3>3. CASE i \in 1..Len(audio)
      <4>1. audio'[i] = audio[i] /\ i \in DOMAIN audio
        BY <3>1, <3>3
      <4>2. d \in Done \/ \E j \in 1..i - 1 : audio[j].whole /\ audio[j].piece = d
        BY <3>2, <4>1 DEF SoundsInOrder
      <4>3. \A j \in 1..i - 1 : audio'[j] = audio[j]
        BY <3>1, <3>3
      <4> QED BY <4>2, <4>3
    <3>4. CASE i = Len(audio) + 1
      <4>1. d < cur /\ cur \in InDev
        BY <2>1, <2>2, <3>1, <3>2, <3>4
      <4>2. d \in Done \/ d \in Whole
        BY <2>1, <3>2, <4>1 DEF NextInOrder, Before, Settled
      <4>3. CASE d \in Whole
        <5>1. PICK j \in DOMAIN audio : audio[j].whole /\ audio[j].piece = d
          BY <4>3 DEF Whole
        <5>2. j \in 1..i - 1 /\ audio'[j] = audio[j]
          BY <3>1, <3>4, <5>1
        <5> QED BY <5>1, <5>2
      <4> QED BY <4>2, <4>3
    <3>5. i \in 1..Len(audio) \/ i = Len(audio) + 1
      BY <3>1
    <3> QED BY <3>3, <3>4, <3>5
  <2> QED BY <2>5, <2>6
<1>18. CASE StreamEnds
  <2>1. heard' = heard /\ lost' = lost /\ unnoticed' = unnoticed /\ (audio' = audio \/ audio' = <<>>)
    BY <1>18, CutStep DEF StreamEnds, device, Leaves, LetGo, quiet, kept, callers
  <2>2. Done \subseteq Done'
    BY <2>1 DEF Done
  <2> QED BY <2>1, <2>2, SoundsStay, NoSounds
<1>19. CASE Said
  <2>1. audio' = audio /\ heard' = heard /\ lost \subseteq lost' /\ unnoticed \subseteq unnoticed'
    BY <1>19 DEF Said, device, worker, voiceCounts, callers, quiet, kept
  <2>2. Done \subseteq Done'
    BY <2>1 DEF Done
  <2> QED BY <2>1, <2>2, SoundsStay
<1>20. CASE Idle
  <2>1. heard' = heard /\ lost' = lost /\ unnoticed' = unnoticed /\ (audio' = audio \/ audio' = <<>>)
    BY <1>20, CutStep DEF Idle, device, Leaves, LetGo, quiet, kept, callers
  <2>2. Done \subseteq Done'
    BY <2>1 DEF Done
  <2> QED BY <2>1, <2>2, SoundsStay, NoSounds
<1>21. CASE Fail
  <2>1. audio' = audio /\ heard' = heard /\ lost \subseteq lost' /\ unnoticed \subseteq unnoticed'
    BY <1>21, FailKeeps, FailLeads DEF WorkerTypes
  <2>2. Done \subseteq Done'
    BY <2>1 DEF Done
  <2> QED BY <2>1, <2>2, SoundsStay
<1>22. CASE Plays
  <2>1. audio # <<>> /\ audio' = Tail(audio) /\ valid' = valid /\ lost' = lost /\ unnoticed' = unnoticed
    BY <1>22 DEF Plays, quiet, kept, callers
  <2>2. /\ Head(audio) = audio[1] /\ 1 \in DOMAIN audio /\ DOMAIN audio = 1..Len(audio) /\ Len(audio) \in Nat
        /\ DOMAIN audio' = 1..Len(audio') /\ Len(audio') = Len(audio) - 1
        /\ \A i \in 1..Len(audio') : i + 1 \in 1..Len(audio) /\ audio'[i] = audio[i + 1]
    BY <2>1, Heard
  <2>3. heard' = IF audio[1].whole THEN heard \cup {audio[1].piece} ELSE heard
    BY <1>22, <2>2 DEF Plays
  <2>4. Due' = Due /\ Done \subseteq Done' /\ (audio[1].whole => audio[1].piece \in Done')
    BY <2>1, <2>3 DEF Due, Done
  <2>5. SUFFICES ASSUME NEW i \in DOMAIN audio', audio'[i].whole, NEW d \in Due, d < audio'[i].piece
                 PROVE  d \in Done' \/ \E j \in 1..i - 1 : audio'[j].whole /\ audio'[j].piece = d
    BY <2>4 DEF SoundsInOrder
  <2>6. i \in 1..Len(audio') /\ i + 1 \in DOMAIN audio /\ audio'[i] = audio[i + 1] /\ (i + 1) - 1 = i
    BY <2>2
  <2>7. d \in Done \/ \E k \in 1..i : audio[k].whole /\ audio[k].piece = d
    BY <2>5, <2>6 DEF SoundsInOrder
  <2>8. ASSUME NEW k \in 1..i, audio[k].whole, audio[k].piece = d
        PROVE  d \in Done' \/ \E j \in 1..i - 1 : audio'[j].whole /\ audio'[j].piece = d
    <3>1. CASE k = 1
      BY <2>4, <2>8, <3>1
    <3>2. CASE k # 1
      <4>1. k - 1 \in 1..i - 1 /\ k - 1 \in 1..Len(audio') /\ (k - 1) + 1 = k
        BY <2>2, <2>6, <3>2
      <4>2. audio'[k - 1] = audio[k]
        BY <2>2, <4>1
      <4> QED BY <2>8, <4>1, <4>2
    <3> QED BY <3>1, <3>2
  <2> QED BY <2>4, <2>7, <2>8
<1> QED
  BY <1>1, <1>2, <1>3, <1>4, <1>5, <1>6, <1>7, <1>8, <1>9, <1>10, <1>11, <1>12, <1>13, <1>14, <1>15, <1>16, <1>17, <1>18, <1>19, <1>20, <1>21, <1>22 DEF VoiceNext, WorkerStep

\* Nothing is lost or heard less.
LEMMA LostGrows == ASSUME VoiceNext PROVE lost \subseteq lost' /\ unnoticed \subseteq unnoticed' /\ (heard' = heard \/ Plays)
<1>1. CASE Say
  <2>1. heard' = heard /\ lost \subseteq lost' /\ unnoticed \subseteq unnoticed'
    BY <1>1 DEF Say, device, worker, voiceCounts, callers, quiet, kept
  <2> QED BY <2>1
<1>2. CASE Put
  <2>1. heard' = heard /\ lost \subseteq lost' /\ unnoticed \subseteq unnoticed'
    BY <1>2 DEF Put, device, worker, voiceCounts, callers, quiet, kept
  <2> QED BY <2>1
<1>3. CASE Pause
  <2>1. heard' = heard /\ lost \subseteq lost' /\ unnoticed \subseteq unnoticed'
    BY <1>3 DEF Pause, device, worker, voiceCounts, callers, quiet, kept
  <2> QED BY <2>1
<1>4. CASE RecordingShows
  <2>1. heard' = heard /\ lost \subseteq lost' /\ unnoticed \subseteq unnoticed'
    BY <1>4 DEF RecordingShows, device, worker, voiceCounts, callers, quiet, kept
  <2> QED BY <2>1
<1>5. CASE HoldEnds
  <2>1. heard' = heard /\ lost \subseteq lost' /\ unnoticed \subseteq unnoticed'
    BY <1>5 DEF HoldEnds, device, worker, voiceCounts, callers, quiet, kept
  <2> QED BY <2>1
<1>6. CASE Stop
  <2>1. heard' = heard /\ lost \subseteq lost' /\ unnoticed \subseteq unnoticed'
    BY <1>6 DEF Stop, device, worker, voiceCounts, callers, quiet, kept
  <2> QED BY <2>1
<1>7. CASE DropQueued
  <2>1. heard' = heard /\ lost \subseteq lost' /\ unnoticed \subseteq unnoticed'
    BY <1>7 DEF DropQueued, device, worker, voiceCounts, callers, quiet, kept
  <2> QED BY <2>1
<1>8. CASE Close
  <2>1. heard' = heard /\ lost \subseteq lost' /\ unnoticed \subseteq unnoticed'
    BY <1>8 DEF Close, device, worker, voiceCounts, callers, quiet, kept
  <2> QED BY <2>1
<1>9. CASE Get
  <2>1. heard' = heard /\ lost \subseteq lost' /\ unnoticed \subseteq unnoticed'
    BY <1>9 DEF Get, device, worker, voiceCounts, callers, quiet, kept
  <2> QED BY <2>1
<1>10. CASE WaitHeld
  <2>1. heard' = heard /\ lost \subseteq lost' /\ unnoticed \subseteq unnoticed'
    BY <1>10 DEF WaitHeld, device, worker, voiceCounts, callers, quiet, kept
  <2> QED BY <2>1
<1>11. CASE Loop
  <2>1. heard' = heard /\ lost \subseteq lost' /\ unnoticed \subseteq unnoticed'
    BY <1>11 DEF Loop, device, worker, voiceCounts, callers, quiet, kept
  <2> QED BY <2>1
<1>12. CASE HeldTail
  <2>1. heard' = heard /\ lost \subseteq lost' /\ unnoticed \subseteq unnoticed'
    BY <1>12 DEF HeldTail, device, worker, voiceCounts, callers, quiet, kept
  <2> QED BY <2>1
<1>13. CASE SayAgain
  <2>1. heard' = heard /\ lost \subseteq lost' /\ unnoticed \subseteq unnoticed'
    BY <1>13 DEF SayAgain, device, worker, voiceCounts, callers, quiet, kept
  <2> QED BY <2>1
<1>14. CASE Open
  <2>1. heard' = heard /\ lost \subseteq lost' /\ unnoticed \subseteq unnoticed'
    BY <1>14 DEF Open, device, worker, voiceCounts, callers, quiet, kept
  <2> QED BY <2>1
<1>15. CASE List
  <2>1. heard' = heard /\ lost \subseteq lost' /\ unnoticed \subseteq unnoticed'
    BY <1>15 DEF List, device, worker, voiceCounts, callers, quiet, kept
  <2> QED BY <2>1
<1>16. CASE Chunk
  <2>1. heard' = heard /\ lost \subseteq lost' /\ unnoticed \subseteq unnoticed'
    BY <1>16 DEF Chunk, device, worker, voiceCounts, callers, quiet, kept
  <2> QED BY <2>1
<1>17. CASE Write
  <2>1. heard' = heard /\ lost \subseteq lost' /\ unnoticed \subseteq unnoticed'
    BY <1>17 DEF Write, device, worker, voiceCounts, callers, quiet, kept
  <2> QED BY <2>1
<1>18. CASE StreamEnds
  <2>1. heard' = heard /\ lost \subseteq lost' /\ unnoticed \subseteq unnoticed'
    BY <1>18 DEF StreamEnds, device, worker, voiceCounts, callers, quiet, kept
  <2> QED BY <2>1
<1>19. CASE Said
  <2>1. heard' = heard /\ lost \subseteq lost' /\ unnoticed \subseteq unnoticed'
    BY <1>19 DEF Said, device, worker, voiceCounts, callers, quiet, kept
  <2> QED BY <2>1
<1>20. CASE Idle
  <2>1. heard' = heard /\ lost \subseteq lost' /\ unnoticed \subseteq unnoticed'
    BY <1>20 DEF Idle, device, worker, voiceCounts, callers, quiet, kept
  <2> QED BY <2>1
<1>21. CASE Fail
  <2>1. heard' = heard /\ lost \subseteq lost' /\ unnoticed \subseteq unnoticed'
    BY <1>21, FailKeeps, FailLeads DEF WorkerTypes
  <2> QED BY <2>1
<1>22. CASE Plays
  <2>1. lost' = lost /\ unnoticed' = unnoticed
    BY <1>22 DEF Plays, quiet, kept, callers
  <2> QED BY <1>22, <2>1
<1> QED
  BY <1>1, <1>2, <1>3, <1>4, <1>5, <1>6, <1>7, <1>8, <1>9, <1>10, <1>11, <1>12, <1>13, <1>14, <1>15, <1>16, <1>17, <1>18, <1>19, <1>20, <1>21, <1>22 DEF VoiceNext, WorkerStep

\* A step keeps the pieces heard in order.
LEMMA DoneInOrderKept ==
  ASSUME QueueTypes, PieceTypes, DeviceTypes, Asked, SoundsInOrder, DoneInOrder, VoiceNext
  PROVE  DoneInOrder'
<1>1. SUFFICES ASSUME NEW q \in heard', NEW p \in Due', p < q PROVE p \in Done'
  BY DEF DoneInOrder
<1>2. Done \subseteq Done'
  BY LostGrows, PlaysWhole DEF Done
<1>3. CASE q \in heard
  <2>1. q \in PieceIds /\ LineOf(q) <= asked
    BY <1>3 DEF Asked, PieceTypes
  <2>2. p \in Due
    BY <1>1, <2>1, DueBefore
  <2> QED BY <1>1, <1>2, <1>3, <2>2 DEF DoneInOrder
<1>4. CASE Plays /\ q = audio[1].piece /\ audio[1].whole /\ 1 \in DOMAIN audio
  <2>1. q \in Audible
    BY <1>4 DEF Audible
  <2>2. q \in PieceIds /\ LineOf(q) <= asked
    BY <2>1, CutIsUnheard DEF Asked
  <2>3. p \in Due
    BY <1>1, <2>2, DueBefore
  <2>4. p \in Done \/ \E j \in 1..1 - 1 : audio[j].whole /\ audio[j].piece = p
    BY <1>1, <1>4, <2>3 DEF SoundsInOrder
  <2> QED BY <1>2, <2>4
<1> QED BY <1>3, <1>4, LostGrows, PlaysWhole

-----------------------------------------------------------------------------

\* The order holds at the start.
LEMMA OrderInit == ASSUME VoiceInit PROVE OrderInv
<1>1. /\ valid = {} /\ replay = {} /\ audio = <<>> /\ inDevice = {} /\ heard = {} /\ lost = {} /\ hold = "no" /\ wpc = "get" /\ item = 0
  BY DEF VoiceInit
<1>2. Due = {} /\ Whole = {} /\ InDev = {}
  BY <1>1 DEF Due, Whole, InDev
<1>3. Phase
  BY <1>1 DEF Phase, Holding, Speaking
<1>4. SoundsInOrder /\ NextInOrder /\ DoneInOrder
  BY <1>1, <1>2 DEF SoundsInOrder, NextInOrder, DoneInOrder
<1>5. Older /\ InOrder /\ AgainFirst /\ SoundsListed /\ HandListed /\ Covered /\ Ready
  BY <1>1, <1>2 DEF Older, InOrder, AgainFirst, SoundsListed, HandListed, Covered, Ready
<1> QED
  BY <1>3, <1>4, <1>5 DEF OrderInv, LiveInv

\* Every step keeps the order.
LEMMA OrderKept ==
  ASSUME VoiceInv, OrderInv, VoiceNext
  PROVE  OrderInv'
<1>1. /\ QueueTypes /\ CallerTypes /\ PieceTypes /\ DeviceTypes /\ WorkerTypes
      /\ Suffix /\ Queue /\ Where /\ Asked /\ Silent
  BY TypeParts DEF VoiceInv
<1>2. WorkerTypes' /\ Where'
  BY <1>1, WorkerTypesKept, WhereKept
<1>3. SUFFICES ASSUME holds' <= 1
               PROVE  Phase' /\ SoundsInOrder' /\ NextInOrder' /\ DoneInOrder' /\ (~gone' => LiveInv')
  BY DEF OrderInv
<1>4. holds <= 1
  <2>1. holds \in Nat /\ holds' \in Nat /\ holds <= holds'
    BY <1>1, HoldsGrow, CallerTypesKept, Constants DEF CallerTypes
  <2> QED BY <1>3, <2>1
<1>5. Phase /\ SoundsInOrder /\ NextInOrder /\ DoneInOrder /\ (~gone => LiveInv)
  BY <1>4 DEF OrderInv
<1>6. Phase'
  BY <1>1, <1>3, <1>5, PhaseKept DEF LiveInv
<1>7. SoundsInOrder' /\ DoneInOrder'
  BY <1>1, <1>5, SoundsInOrderKept, DoneInOrderKept
<1>8. NextInOrder'
  BY <1>1, <1>5, NextInOrderKept DEF LiveInv
<1>9. ASSUME ~gone' PROVE LiveInv'
  <2>1. Older /\ InOrder /\ AgainFirst /\ SoundsListed /\ HandListed /\ Covered /\ Ready
    BY <1>5, <1>9, GoneStays DEF LiveInv
  <2>2. Older' /\ InOrder'
    BY <1>1, <1>2, <1>9, <2>1, OlderKept, InOrderKept
  <2>3. AgainFirst'
    BY <1>1, <1>3, <1>5, <1>9, <2>1, AgainFirstKept
  <2>4. SoundsListed' /\ HandListed'
    BY <1>1, <1>9, <2>1, SoundsListedKept, HandListedKept
  <2>5. Covered'
    BY <1>1, <1>9, <2>1, CoveredKept
  <2>6. Ready'
    BY <1>1, <1>9, <2>1, ReadyKept
  <2> QED BY <2>2, <2>3, <2>4, <2>5, <2>6 DEF LiveInv
<1> QED
  BY <1>6, <1>7, <1>8, <1>9

\* So does a step that changes nothing.
LEMMA OrderStutters == ASSUME OrderInv, UNCHANGED voiceVars PROVE OrderInv'
<1>1. /\ UNCHANGED <<putting, lines, valid, hold, replay, inDevice, audio, gone>>
      /\ UNCHANGED <<wpc, item, index, cur, back, heard, lost, unnoticed, holds>>
  BY DEF voiceVars, device, worker, voiceCounts
<1>2. Due' = Due /\ Whole' = Whole /\ InDev' = InDev /\ Done' = Done
  BY <1>1 DEF Due, Whole, InDev, Done
<1>3. NextIndex' = NextIndex /\ InHand' = InHand /\ Queued' = Queued
  BY <1>1 DEF NextIndex, InHand, Queued, Speaking, Hands
<1>4. Rest' = Rest
  BY <1>1, <1>3 DEF Rest
<1>5. Settled' = Settled /\ Spoken' = Spoken /\ Ahead' = Ahead
  BY <1>1, <1>2, <1>3, <1>4 DEF Settled, Spoken, Ahead
<1>6. (Holding' <=> Holding) /\ (HalfSaid(cur)' <=> HalfSaid(cur)) /\ (Before(cur)' <=> Before(cur))
  BY <1>1, <1>2, <1>5 DEF Holding, HalfSaid, Before
<1>7. Phase' <=> Phase
  BY <1>1, <1>2, <1>6 DEF Phase, Speaking
<1>8. (SoundsInOrder' <=> SoundsInOrder) /\ (NextInOrder' <=> NextInOrder) /\ (DoneInOrder' <=> DoneInOrder)
  BY <1>1, <1>2, <1>6 DEF SoundsInOrder, NextInOrder, DoneInOrder
<1>9. (Older' <=> Older) /\ (InOrder' <=> InOrder) /\ (AgainFirst' <=> AgainFirst)
  BY <1>1, <1>2, <1>5 DEF Older, InOrder, AgainFirst
<1>10. (SoundsListed' <=> SoundsListed) /\ (HandListed' <=> HandListed)
  BY <1>1, <1>2, <1>6 DEF SoundsListed, HandListed
<1>11. (Covered' <=> Covered) /\ (Ready' <=> Ready)
  BY <1>1, <1>2, <1>3, <1>5, <1>6 DEF Covered, Ready
<1>12. LiveInv' <=> LiveInv
  BY <1>9, <1>10, <1>11 DEF LiveInv
<1>13. holds' = holds /\ gone' = gone
  BY <1>1
<1> QED
  BY <1>7, <1>8, <1>12, <1>13 DEF OrderInv

\* The order of the pieces is the property.
LEMMA OrderGivesHeard == ASSUME VoiceInv, OrderInv PROVE HeardInOrder
<1>1. SUFFICES ASSUME holds <= 1, NEW q \in heard, NEW p \in 1..q - 1, LineOf(p) \in valid PROVE p \in Done
  BY DEF HeardInOrder, Done
<1>2. q \in PieceIds
  BY TypeParts DEF VoiceInv, PieceTypes
<1>3. p \in PieceIds /\ p < q
  BY <1>2, PieceNumbers DEF PieceIds
<1>4. DoneInOrder
  BY <1>1 DEF OrderInv
<1> QED
  BY <1>1, <1>3, <1>4 DEF DoneInOrder, Due

\* With one hold, however short, the pieces are heard in the order they were asked for, those the hold
\* cut included: a piece is heard to its end only when every piece before it was, or a stop, a failure or
\* a player the hold killed dropped it, or it waited to be said again when the hold ended behind the
\* worker's back (voice.py: _cut_for_hold, _say_with, _say_held_tail).
THEOREM LinesHeardInOrder == VoiceSpec => []HeardInOrder
<1>1. VoiceInit => VoiceInv /\ OrderInv
  BY InvInit, OrderInit
<1>2. VoiceInv /\ OrderInv /\ [VoiceNext]_voiceVars => (VoiceInv /\ OrderInv)'
  <2>1. ASSUME VoiceInv, OrderInv, VoiceNext PROVE (VoiceInv /\ OrderInv)'
    BY <2>1, InvKept, OrderKept
  <2>2. ASSUME VoiceInv, OrderInv, UNCHANGED voiceVars PROVE (VoiceInv /\ OrderInv)'
    BY <2>2, InvStutters, OrderStutters
  <2> QED BY <2>1, <2>2
<1>3. VoiceInv /\ OrderInv => HeardInOrder
  BY OrderGivesHeard
<1> QED
  BY <1>1, <1>2, <1>3, PTL DEF VoiceSpec

=============================================================================
