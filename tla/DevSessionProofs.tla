-------------------------- MODULE DevSessionProofs --------------------------
(***************************************************************************)
(* Theorems about the imperative shell.                                    *)
(*                                                                         *)
(* For any number of workers that overwrite each other's row: the row is a *)
(* coherent state, and the spend is bounded.                               *)
(*                                                                         *)
(* For one worker at a time (OneWorker): the row is what the worker holds  *)
(* whenever it holds anything, so that calls are written ahead, landed     *)
(* assessments stay, the decision and the transcript agree with the row,   *)
(* and an ended row stays.                                                 *)
(***************************************************************************)
EXTENDS DevSession, TransitionSteps, FiniteSetTheorems

-----------------------------------------------------------------------------
\* What holds of a state in the row or in a worker's hands.
Coherent(s) ==
  /\ s \in SessionState /\ TurnTakingIn(s) /\ PlanHoldsIn(s) /\ FlaggedIn(s)
  /\ Callable(s.pending_command)

CallPoints == {"guard", "call", "answer"}
InterviewerCall == {c \in PendingCommand : c.kind = "run_interviewer" /\ Callable(c)}
DecisionCall == [kind : {"record_decision"}, reason : DecisionReason]

WorkerRecord ==
  [pc : {"idle", "read_log", "reload", "apply", "decide", "save"} \cup CallPoints,
   background : BOOLEAN, state : SessionState \cup {NoRow},
   transcript : Seq(TranscriptLine), events : Seq(SessionEvent),
   call : PendingCommand \cup AssessorCall \cup DecisionCall,
   tries : Nat, task : AssessorCall \cup {NoTask}, grew : BOOLEAN]

\* The points at which a worker holds a state it will use, and an event.
Holds(me) ==
  \/ me.pc \in {"read_log", "apply", "decide", "save"}
  \/ me.pc \in CallPoints /\ ~me.background
Informed(me) == me.pc \in {"apply", "reload"} \/ (me.pc = "read_log" /\ me.background)

\* In the background only the assessor, or a spent budget, is heard of.
Backgrounded(me) ==
  me.background => \A i \in DOMAIN me.events : me.events[i].kind \in BackgroundEvents

WorkerInv(me) ==
  /\ me \in WorkerRecord /\ Backgrounded(me)
  /\ Holds(me) => Coherent(me.state)
  /\ Informed(me) => me.events # <<>>
  /\ me.pc = "reload" => me.background
  /\ me.pc \in CallPoints => me.call \in IF me.background THEN AssessorCall ELSE InterviewerCall

RowInv == IF row = NoRow THEN \A w \in Worker : worker[w] = Idle
          ELSE row \in Row /\ Coherent(row.state)

\* Turns are numbered within the posts: a transcript has room for the turns
\* that are about to be added to it.
Reading == {w \in Worker : worker[w].pc = "read_log" /\ ~worker[w].background}
Fits(transcript) == NextOrdinal(transcript) + Cardinality(Reading) <= posts
Numbered ==
  /\ posts \in 0..MaxPosts /\ Cardinality(Reading) <= posts
  /\ row # NoRow => Fits(row.transcript)
  /\ \A w \in Worker : Fits(worker[w].transcript)

ShellInv == DOMAIN worker = Worker /\ (\A w \in Worker : WorkerInv(worker[w])) /\ RowInv /\ Numbered

-----------------------------------------------------------------------------
\* The spend.
Answering == {w \in Worker : worker[w].pc = "answer"}
SpendInv ==
  /\ spent \in Nat
  /\ \A c \in Costs : (\A d \in Costs : d <= c) =>
       spent + c * Cardinality(Answering) < Ceiling + c * Cardinality(Worker)

-----------------------------------------------------------------------------
\* One worker.
OneWorker == \E w \in Worker : Worker = {w}

\* A worker and the row it works on.
InStep(me, at) ==
  /\ Holds(me) => me.state = at.state
  /\ Len(me.events) <= 1
  /\ me.pc \in CallPoints \cup {"decide"} => me.events = <<>>
  /\ me.events # <<>> /\ me.events[1].kind = "candidate_turn" => me.pc = "apply"
  /\ me.grew => me.pc = "save"
  /\ me.background => me.pc # "save" /\ me.task = NoTask
  /\ me.pc \in CallPoints /\ ~me.background => me.call = me.state.pending_command

\* Its transcript: the row's, with the line it is about to write.
Posted(me) == me.pc = "apply" /\ me.events[1].kind = "candidate_turn"
LogInv(me, at) ==
  /\ me.pc = "save" =>
       \E role \in {"system", "interviewer"} :
         /\ me.transcript = Append(at.transcript, Line(role, at.state.pending_command.turn_id))
         /\ Line(role, at.state.pending_command.turn_id) \in TranscriptLine
         /\ role = "interviewer" <=> at.state.awaiting = "candidate"
  /\ Posted(me) =>
       /\ me.events[1].turn_id = NextOrdinal(at.transcript)
       /\ me.transcript = Append(at.transcript, Line("candidate", NextOrdinal(at.transcript)))
  /\ \/ me.pc = "apply" /\ ~Posted(me)
     \/ me.pc = "decide"
     \/ me.pc \in CallPoints /\ ~me.background
     => me.transcript = at.transcript

\* The decision.
DecisionInv(me) ==
  /\ deaths \in Nat
  /\ decisions = <<>> \/ decisions = <<decisions[1]>>
  /\ decisions # <<>> => Ended
  /\ decisions # <<>> /\ decisions[1] = "completed" => row.state.phase = "completed"
  /\ me.pc = "decide" => /\ Ended /\ decisions = <<>> /\ me.call \in DecisionCall
                         /\ me.call.reason = "completed" => row.state.phase = "completed"
  /\ Ended /\ deaths = 0 /\ decisions = <<>> => me.pc = "decide"

\* The assessments.
LandedInv ==
  /\ landed \subseteq TurnId
  /\ row = NoRow => landed = {}
  /\ row # NoRow =>
       /\ \A t \in landed : row.state.assessment_focus[t] = NoNode
       /\ \A t \in TurnId : t >= NextOrdinal(row.transcript) =>
            t \notin landed /\ row.state.assessment_focus[t] = NoNode

\* The dialog: what was said came in order, before the move that is pending,
\* which is said once it is delivered.
Ordered(log) ==
  LET said == LinesOf(log, "interviewer")
      heard == LinesOf(log, "candidate")
  IN  /\ \A i \in heard : log[i].turn_id = Cardinality({j \in heard : j < i})
      /\ \A i, j \in said : i < j => log[i].turn_id < log[j].turn_id
SaidBefore(log, turn_id) == \A i \in LinesOf(log, "interviewer") : log[i].turn_id < turn_id
DialogInv(me) ==
  row # NoRow =>
    LET log == row.transcript
        s == row.state
    IN  /\ Ordered(log) /\ SaidBefore(log, s.turn_seq)
        /\ s.awaiting = "interviewer" \/ me.pc = "save" => SaidBefore(log, s.turn_seq - 1)
        /\ deaths = 0 /\ s.awaiting = "candidate" =>
             \/ me.pc = "save"
             \/ \E i \in LinesOf(log, "interviewer") : log[i].turn_id = s.pending_command.turn_id

Together(me) == InStep(me, row) /\ LogInv(me, row) /\ DecisionInv(me) /\ DialogInv(me)
QuietInv == LandedInv /\ \A w \in Worker : Together(worker[w])

-----------------------------------------------------------------------------
\* The transcript.

\* An empty transcript has no line, and a line more has one of its role more.
LEMMA LineCount ==
  ASSUME NEW role
  PROVE  /\ LinesOf(<<>>, role) = {}
         /\ \A log \in Seq(TranscriptLine) :
              /\ IsFiniteSet(LinesOf(log, role)) /\ LinesOf(log, role) \subseteq 1..Len(log)
              /\ \A line \in TranscriptLine :
                   LinesOf(Append(log, line), role) =
                     IF line.role = role THEN LinesOf(log, role) \cup {Len(log) + 1}
                                         ELSE LinesOf(log, role)
<1>1. LinesOf(<<>>, role) = {}
  BY DEF LinesOf
<1>2. ASSUME NEW log \in Seq(TranscriptLine)
      PROVE  IsFiniteSet(LinesOf(log, role)) /\ LinesOf(log, role) \subseteq 1..Len(log)
  <2>1. LinesOf(log, role) \subseteq 1..Len(log) /\ Len(log) \in Nat
    BY DEF LinesOf
  <2>2. IsFiniteSet(1..Len(log))
    BY <2>1, FS_Interval
  <2> QED BY <2>1, <2>2, FS_Subset
<1>3. ASSUME NEW log \in Seq(TranscriptLine), NEW line \in TranscriptLine
      PROVE  LinesOf(Append(log, line), role) =
               IF line.role = role THEN LinesOf(log, role) \cup {Len(log) + 1}
                                   ELSE LinesOf(log, role)
  <2> DEFINE more == Append(log, line)
  <2>1. /\ DOMAIN more = 1..(Len(log) + 1) /\ DOMAIN log = 1..Len(log) /\ Len(log) \in Nat
        /\ more[Len(log) + 1] = line /\ \A i \in 1..Len(log) : more[i] = log[i]
    OBVIOUS
  <2> HIDE DEF more
  <2>2. DOMAIN more = (DOMAIN log) \cup {Len(log) + 1}
    BY <2>1
  <2> QED BY <2>1, <2>2 DEF LinesOf, more
<1> QED BY <1>1, <1>2, <1>3

\* The ordinal counts the candidate's lines.
LEMMA OrdinalCount ==
  /\ NextOrdinal(<<>>) = 0
  /\ \A log \in Seq(TranscriptLine) :
       /\ NextOrdinal(log) \in Nat
       /\ \A line \in TranscriptLine :
            NextOrdinal(Append(log, line)) =
              IF line.role = "candidate" THEN NextOrdinal(log) + 1 ELSE NextOrdinal(log)
<1>1. NextOrdinal(<<>>) = 0
  BY LineCount, FS_EmptySet DEF NextOrdinal
<1>2. ASSUME NEW log \in Seq(TranscriptLine)
      PROVE  NextOrdinal(log) \in Nat
  BY LineCount, FS_CardinalityType DEF NextOrdinal
<1>3. ASSUME NEW log \in Seq(TranscriptLine), NEW line \in TranscriptLine
      PROVE  NextOrdinal(Append(log, line)) =
               IF line.role = "candidate" THEN NextOrdinal(log) + 1 ELSE NextOrdinal(log)
  <2> DEFINE lines == LinesOf(log, "candidate")
  <2>0. Len(log) \in Nat
    OBVIOUS
  <2>1. IsFiniteSet(lines) /\ lines \subseteq 1..Len(log)
    BY LineCount, Zenon
  <2>2. Len(log) + 1 \notin lines
    BY <2>0, <2>1
  <2>3. Cardinality(lines \cup {Len(log) + 1}) = Cardinality(lines) + 1
    BY <2>1, <2>2, FS_AddElement
  <2>4. LinesOf(Append(log, line), "candidate") =
          IF line.role = "candidate" THEN lines \cup {Len(log) + 1} ELSE lines
    BY LineCount
  <2> HIDE DEF lines
  <2> QED BY <2>3, <2>4 DEF NextOrdinal, lines
<1> QED BY <1>1, <1>2, <1>3

-----------------------------------------------------------------------------
\* What a worker holds after each of its steps.

\* A worker at rest.
LEMMA IdleInv == WorkerInv(Idle) /\ Idle.transcript = <<>> /\ Idle.pc = "idle" /\ ~Idle.background
<1>1. NoCommand \in PendingCommand /\ <<>> \in Seq(TranscriptLine) /\ <<>> \in Seq(SessionEvent)
  BY CommandTypes
<1>2. Idle \in WorkerRecord
  BY <1>1 DEF Idle, WorkerRecord
<1>3. Idle.pc = "idle" /\ Idle.transcript = <<>> /\ ~Idle.background
  BY DEF Idle
<1> QED BY <1>2, <1>3 DEF WorkerInv, Holds, Informed, CallPoints, Backgrounded

\* The control fields of a worker do not disturb the rest of it.
LEMMA ControlFields ==
  ASSUME NEW me \in WorkerRecord
  PROVE  \A pc \in {"idle", "read_log", "reload", "apply", "decide", "save"} \cup CallPoints :
           LET next == [me EXCEPT !.pc = pc]
           IN  /\ next \in WorkerRecord /\ next.pc = pc /\ next.background = me.background
               /\ next.state = me.state /\ next.transcript = me.transcript
               /\ next.events = me.events /\ next.call = me.call /\ next.task = me.task
               /\ next.grew = me.grew /\ next.tries = me.tries
  BY DEF WorkerRecord, CallPoints

\* A worker reads the row's transcript only at read_log.
Reads(me) == me.pc = "read_log" /\ ~me.background

\* The commands are done: the next event, the background task, or rest.
LEMMA AfterCommandsInv ==
  ASSUME NEW me \in WorkerRecord, Coherent(me.state), Backgrounded(me)
  PROVE  LET next == AfterCommands(me)
         IN  /\ WorkerInv(next) /\ ~Reads(next) /\ next.pc # "answer"
             /\ next.transcript \in {me.transcript, <<>>}
<1>1. CASE me.events # <<>>
  <2> DEFINE next == [me EXCEPT !.pc = "apply"]
  <2>1. /\ next \in WorkerRecord /\ next.pc = "apply" /\ next.state = me.state
        /\ next.events = me.events /\ next.transcript = me.transcript
        /\ next.background = me.background
    BY ControlFields
  <2>2. AfterCommands(me) = next
    BY <1>1 DEF AfterCommands
  <2> HIDE DEF next
  <2> QED BY <1>1, <2>1, <2>2 DEF WorkerInv, Backgrounded, Holds, Informed, CallPoints, Reads
<1>2. CASE me.events = <<>> /\ me.task # NoTask
  <2> DEFINE next == [Idle EXCEPT !.pc = "guard", !.background = TRUE, !.call = me.task, !.task = NoTask]
  <2>1. me.task \in AssessorCall
    BY <1>2 DEF WorkerRecord
  <2>2. Idle \in WorkerRecord /\ Idle.transcript = <<>> /\ Idle.events = <<>>
    BY IdleInv DEF WorkerInv, Idle
  <2>3. /\ next \in WorkerRecord /\ next.pc = "guard" /\ next.background = TRUE
        /\ next.call = me.task /\ next.transcript = <<>> /\ next.events = <<>>
    BY <2>1, <2>2 DEF WorkerRecord, CallPoints
  <2>4. AfterCommands(me) = next
    BY <1>2 DEF AfterCommands
  <2> HIDE DEF next
  <2> QED BY <2>1, <2>3, <2>4 DEF WorkerInv, Backgrounded, Holds, Informed, CallPoints, Reads
<1>3. CASE me.events = <<>> /\ me.task = NoTask
  <2>1. AfterCommands(me) = Idle
    BY <1>3 DEF AfterCommands
  <2> QED BY <2>1, IdleInv DEF Reads
<1> QED BY <1>1, <1>2, <1>3

\* The same, after a transcript that grew was saved.
LEMMA AfterCommandInv ==
  ASSUME NEW me \in WorkerRecord, Coherent(me.state), Backgrounded(me)
  PROVE  LET next == AfterCommand(me)
         IN  /\ WorkerInv(next) /\ ~Reads(next) /\ next.pc # "answer"
             /\ next.transcript \in {me.transcript, <<>>}
<1>1. CASE me.grew
  <2> DEFINE next == [me EXCEPT !.pc = "save"]
  <2>1. /\ next \in WorkerRecord /\ next.pc = "save" /\ next.state = me.state
        /\ next.transcript = me.transcript /\ next.events = me.events
        /\ next.background = me.background
    BY ControlFields
  <2>2. AfterCommand(me) = next
    BY <1>1 DEF AfterCommand
  <2> HIDE DEF next
  <2> QED BY <2>1, <2>2 DEF WorkerInv, Backgrounded, Holds, Informed, CallPoints, Reads
<1>2. CASE ~me.grew
  BY <1>2, AfterCommandsInv DEF AfterCommand
<1> QED BY <1>1, <1>2

\* An agent call has come to its outcome.
LEMMA OutcomeInv ==
  ASSUME NEW me, WorkerInv(me), me.pc \in CallPoints, NEW e \in SessionEvent,
         me.background => e.kind \in BackgroundEvents
  PROVE  LET next == Outcome(me, e)
         IN  /\ WorkerInv(next) /\ ~Reads(next) /\ next.pc # "answer"
             /\ next.transcript \in {me.transcript, <<>>}
<1>0. me \in WorkerRecord
  BY DEF WorkerInv
<1>1. CASE me.background
  <2> DEFINE next == [me EXCEPT !.pc = "reload", !.events = <<e>>]
  <2>1. <<e>> \in Seq(SessionEvent) /\ <<e>> # <<>> /\ \A i \in DOMAIN <<e>> : <<e>>[i] = e
    OBVIOUS
  <2>2. /\ next \in WorkerRecord /\ next.pc = "reload" /\ next.background = me.background
        /\ next.events = <<e>> /\ next.transcript = me.transcript
    BY <1>0, <2>1 DEF WorkerRecord
  <2>3. Outcome(me, e) = next
    BY <1>1 DEF Outcome
  <2> HIDE DEF next
  <2>4. Backgrounded(next)
    BY <1>1, <2>1, <2>2 DEF Backgrounded
  <2> QED BY <1>1, <2>1, <2>2, <2>3, <2>4 DEF WorkerInv, Holds, Informed, CallPoints, Reads
<1>2. CASE ~me.background
  <2> DEFINE next == [me EXCEPT !.events = Append(@, e)]
  <2>1. Append(me.events, e) \in Seq(SessionEvent)
    BY <1>0 DEF WorkerRecord
  <2>2. /\ next \in WorkerRecord /\ next.state = me.state /\ next.transcript = me.transcript
        /\ next.background = me.background
    BY <1>0, <2>1 DEF WorkerRecord
  <2>3. Coherent(me.state)
    BY <1>2 DEF WorkerInv, Holds
  <2>4. Outcome(me, e) = AfterCommand(next)
    BY <1>2 DEF Outcome
  <2> HIDE DEF next
  <2>5. Backgrounded(next)
    BY <1>2, <2>2 DEF Backgrounded
  <2> QED BY <2>2, <2>3, <2>4, <2>5, AfterCommandInv
<1> QED BY <1>1, <1>2

-----------------------------------------------------------------------------
\* What one event of _drive leads to.

\* What is said of a result is its pending command, or nothing.
LEMMA SaidOnce ==
  ASSUME NEW r, \A i \in DOMAIN r.commands : Promise(r.new_state, r.commands[i])
  PROVE  LET p == r.new_state.pending_command
             spoken == {"opening", "closing", "deliver_utterance"}
         IN  /\ \/ Said(r) = <<>> /\ \A k \in spoken : Emitted(r, k) = <<>>
                \/ /\ p.kind \in spoken /\ Emitted(r, p.kind) = <<p>>
                   /\ \A k \in spoken : k # p.kind => Emitted(r, k) = <<>>
                   /\ Said(r) = <<Line(IF p.kind = "deliver_utterance" THEN "interviewer" ELSE "system",
                                       p.turn_id)>>
             /\ Emitted(r, "run_interviewer") \in {<<>>, <<p>>}
             /\ Emitted(r, "run_interviewer") = <<p>> => p.kind = "run_interviewer"
<1> DEFINE p == r.new_state.pending_command
           spoken == {"opening", "closing", "deliver_utterance"}
<1>1. \A k \in OutboundKinds : Emitted(r, k) = <<>> \/ (Emitted(r, k) = <<p>> /\ p.kind = k)
  <2> SUFFICES ASSUME NEW k \in OutboundKinds, Emitted(r, k) # <<>>
               PROVE  Emitted(r, k) = <<p>> /\ p.kind = k
    OBVIOUS
  <2>1. PICK i \in DOMAIN r.commands : r.commands[i].kind = k /\ Emitted(r, k) = <<r.commands[i]>>
    BY EmittedAny
  <2>2. r.commands[i] = p
    BY <2>1 DEF Promise
  <2> QED BY <2>1, <2>2
<1>2. spoken \subseteq OutboundKinds /\ "run_interviewer" \in OutboundKinds
  BY DEF OutboundKinds
<1> DEFINE said(kind, role) == [i \in DOMAIN Emitted(r, kind) |-> Line(role, Emitted(r, kind)[i].turn_id)]
<1>3. Said(r) = said("opening", "system") \o said("closing", "system")
                  \o said("deliver_utterance", "interviewer")
  BY DEF Said
<1>4. \A kind, role : Emitted(r, kind) = <<>> => said(kind, role) = <<>>
  OBVIOUS
<1>5. \A kind, role : Emitted(r, kind) = <<p>> => said(kind, role) = <<Line(role, p.turn_id)>>
  <2> SUFFICES ASSUME NEW kind, NEW role, Emitted(r, kind) = <<p>>
               PROVE  said(kind, role) = <<Line(role, p.turn_id)>>
    OBVIOUS
  <2>1. said(kind, role) = [i \in {1} |-> Line(role, p.turn_id)]
    <3>1. DOMAIN <<p>> = {1} /\ <<p>>[1] = p
      OBVIOUS
    <3> HIDE DEF p
    <3> QED BY <3>1
  <2>2. <<Line(role, p.turn_id)>> = [i \in {1} |-> Line(role, p.turn_id)]
    OBVIOUS
  <2> QED BY <2>1, <2>2
<1>6. <<>> # <<p>> /\ \A x : /\ <<x>> \o <<>> \o <<>> = <<x>> /\ <<>> \o <<x>> \o <<>> = <<x>>
                             /\ <<>> \o <<>> \o <<x>> = <<x>>
  OBVIOUS
<1>7. <<>> \o <<>> \o <<>> = <<>>
  OBVIOUS
<1> HIDE DEF p, said
<1>10. /\ Emitted(r, "run_interviewer") \in {<<>>, <<p>>}
       /\ Emitted(r, "run_interviewer") = <<p>> => p.kind = "run_interviewer"
  BY <1>1, <1>2, <1>6
<1>8. CASE \A k \in spoken : Emitted(r, k) = <<>>
  <2>1. Said(r) = <<>>
    BY <1>3, <1>4, <1>7, <1>8
  <2> QED BY <1>8, <1>10, <2>1, Zenon DEF p
<1>9. CASE \E k \in spoken : Emitted(r, k) # <<>>
  <2>1. /\ p.kind \in spoken /\ Emitted(r, p.kind) = <<p>>
        /\ \A k \in spoken : k # p.kind => Emitted(r, k) = <<>>
    BY <1>1, <1>2, <1>9
  <2>2. Said(r) = <<Line(IF p.kind = "deliver_utterance" THEN "interviewer" ELSE "system", p.turn_id)>>
    <3>1. CASE p.kind = "opening"
      BY <2>1, <3>1, <1>3, <1>4, <1>5, <1>6
    <3>2. CASE p.kind = "closing"
      BY <2>1, <3>2, <1>3, <1>4, <1>5, <1>6
    <3>3. CASE p.kind = "deliver_utterance"
      BY <2>1, <3>3, <1>3, <1>4, <1>5, <1>6
    <3> QED BY <2>1, <3>1, <3>2, <3>3
  <2> QED BY <1>10, <2>1, <2>2, Zenon DEF p
<1> QED BY <1>8, <1>9

\* The core's answer to an event: a coherent state, and commands that the shell
\* knows how to run.
LEMMA CoreStep ==
  ASSUME NEW s, Coherent(s), NEW e \in SessionEvent
  PROVE  LET r == transition(s, e)
         IN  /\ Coherent(r.new_state) /\ Sound(s, r) /\ Booked(s, e, r)
             /\ \A i \in DOMAIN r.commands : Promise(r.new_state, r.commands[i])
             /\ Decided(r) = <<>> \/ \E d \in DecisionCall : Decided(r) = <<d>>
             /\ Asked(r) = <<>> \/ \E a \in AssessorCall : Asked(r) = <<a>>
<1> DEFINE r == transition(s, e)
<1>1. Sound(s, r) /\ r.new_state \in SessionState /\ Promised(s, r) /\ TypedCommands(r) /\ Booked(s, e, r)
  BY TransitionSound, TransitionType, TransitionPromised, TransitionTyped, TransitionBooked, Zenon DEF Coherent
<1> HIDE DEF r
<1>2. Coherent(r.new_state)
  <2>1. TurnTakingIn(r.new_state)
    BY <1>1, StepTurnTaking DEF Coherent, Sound
  <2> QED BY <1>1, <2>1 DEF Coherent, Sound, Promised
<1>3. Decided(r) = <<>> \/ \E d \in DecisionCall : Decided(r) = <<d>>
  <2>1. Step(s, r)
    BY <1>1 DEF Sound
  <2>2. Decided(r) = <<>> \/ \E x \in DecisionReason : Decided(r) = <<RecordDecision(x)>>
    BY <2>1, Zenon DEF Step, Quiet, Retries, Delivers, Moves, Ends, Silent, DecisionReason
  <2>3. \A x \in DecisionReason : RecordDecision(x) \in DecisionCall
    BY DEF RecordDecision, DecisionCall
  <2> QED BY <2>2, <2>3
<1>4. Asked(r) = <<>> \/ \E a \in AssessorCall : Asked(r) = <<a>>
  <2> SUFFICES ASSUME Asked(r) # <<>> PROVE \E a \in AssessorCall : Asked(r) = <<a>>
    OBVIOUS
  <2>1. PICK i \in DOMAIN r.commands : r.commands[i].kind = "run_assessor" /\ Asked(r) = <<r.commands[i]>>
    BY EmittedAny DEF Asked
  <2> QED BY <1>1, <2>1 DEF TypedCommands, Typed
<1> QED BY <1>1, <1>2, <1>3, <1>4 DEF r, Promised

\* The lines a transition adds are lines, none of them the candidate's.
LEMMA SaidLines ==
  ASSUME NEW s, Coherent(s), NEW e \in SessionEvent, NEW log \in Seq(TranscriptLine)
  PROVE  LET r == transition(s, e)
             p == r.new_state.pending_command
         IN  /\ log \o Said(r) \in Seq(TranscriptLine)
             /\ NextOrdinal(log \o Said(r)) = NextOrdinal(log)
             /\ \/ Said(r) = <<>> /\ log \o Said(r) = log
                \/ \E role \in {"system", "interviewer"} :
                     /\ role = "interviewer" <=> p.kind = "deliver_utterance"
                     /\ p.kind \in {"opening", "closing", "deliver_utterance"}
                     /\ Line(role, p.turn_id) \in TranscriptLine
                     /\ log \o Said(r) = Append(log, Line(role, p.turn_id)) /\ Said(r) # <<>>
<1> DEFINE r == transition(s, e)
           p == r.new_state.pending_command
<1>1. p \in PendingCommand /\ \A i \in DOMAIN r.commands : Promise(r.new_state, r.commands[i])
  BY CoreStep DEF Coherent, SessionState
<1>2. p.turn_id \in Int
  BY <1>1 DEF PendingCommand
<1>3. \/ Said(r) = <<>>
      \/ /\ p.kind \in {"opening", "closing", "deliver_utterance"}
         /\ Said(r) = <<Line(IF p.kind = "deliver_utterance" THEN "interviewer" ELSE "system", p.turn_id)>>
  BY <1>1, SaidOnce
<1> HIDE DEF r, p
<1>4. CASE Said(r) = <<>>
  <2>1. log \o Said(r) = log
    BY <1>4
  <2> QED BY <1>4, <2>1 DEF r, p
<1>5. ASSUME Said(r) # <<>>
      PROVE  \E role \in {"system", "interviewer"} :
               /\ role = "interviewer" <=> p.kind = "deliver_utterance"
               /\ p.kind \in {"opening", "closing", "deliver_utterance"}
               /\ Line(role, p.turn_id) \in TranscriptLine
               /\ log \o Said(r) = Append(log, Line(role, p.turn_id))
  <2>1. PICK role \in {"system", "interviewer"} :
          /\ role = "interviewer" <=> p.kind = "deliver_utterance"
          /\ Said(r) = <<Line(role, p.turn_id)>>
    BY <1>3, <1>5
  <2> DEFINE line == Line(role, p.turn_id)
  <2>2. line \in TranscriptLine
    BY <1>2 DEF Line, TranscriptLine
  <2>3. log \o <<line>> = Append(log, line)
    BY <2>2
  <2> QED BY <1>3, <1>5, <2>1, <2>2, <2>3
<1>6. CASE Said(r) # <<>>
  <2>1. PICK role \in {"system", "interviewer"} :
               /\ role = "interviewer" <=> p.kind = "deliver_utterance"
               /\ p.kind \in {"opening", "closing", "deliver_utterance"}
               /\ Line(role, p.turn_id) \in TranscriptLine
               /\ log \o Said(r) = Append(log, Line(role, p.turn_id))
    BY <1>5, <1>6
  <2>2. Line(role, p.turn_id).role # "candidate"
    BY DEF Line
  <2>3. Append(log, Line(role, p.turn_id)) \in Seq(TranscriptLine)
    BY <2>1
  <2>4. NextOrdinal(Append(log, Line(role, p.turn_id))) = NextOrdinal(log)
    BY <2>1, <2>2, OrdinalCount
  <2> QED BY <1>6, <2>1, <2>3, <2>4 DEF r, p
<1> QED BY <1>4, <1>6

\* What a worker has heard of a transition.
LEMMA HeardInv ==
  ASSUME NEW me, WorkerInv(me), me.pc = "apply"
  PROVE  LET r == transition(me.state, Head(me.events))
             heard == Heard(me, r)
         IN  /\ heard \in WorkerRecord /\ Backgrounded(heard) /\ Coherent(r.new_state)
             /\ heard.state = r.new_state /\ heard.transcript = me.transcript \o Said(r)
             /\ heard.background = me.background /\ heard.grew = (Said(r) # <<>>)
             /\ heard.task = IF Asked(r) = <<>> THEN me.task ELSE Asked(r)[1]
             /\ heard.events = IF Emitted(r, "closing") = <<>> THEN Tail(me.events)
                               ELSE Append(Tail(me.events), TimerTick(0))
             /\ Decided(r) = <<>> \/ \E d \in DecisionCall : Decided(r) = <<d>>
             /\ me.background => Inward(r)
<1> DEFINE e == Head(me.events)
           r == transition(me.state, e)
           log == me.transcript \o Said(r)
           ticks == [i \in DOMAIN Emitted(r, "closing") |-> TimerTick(0)]
           events == Tail(me.events) \o ticks
           task == IF Asked(r) = <<>> THEN me.task ELSE Asked(r)[1]
           grew == Said(r) # <<>>
<1>1. /\ me \in WorkerRecord /\ Coherent(me.state) /\ me.events \in Seq(SessionEvent)
      /\ me.events # <<>> /\ me.transcript \in Seq(TranscriptLine) /\ Backgrounded(me)
      /\ me.task \in AssessorCall \cup {NoTask}
  BY DEF WorkerInv, Holds, Informed, WorkerRecord
<1>2. e \in SessionEvent /\ Tail(me.events) \in Seq(SessionEvent) /\ e = me.events[1]
      /\ 1 \in DOMAIN me.events
      /\ \A i \in DOMAIN Tail(me.events) :
           i + 1 \in DOMAIN me.events /\ Tail(me.events)[i] = me.events[i + 1]
  BY <1>1
<1>3. /\ Coherent(r.new_state) /\ \A i \in DOMAIN r.commands : Promise(r.new_state, r.commands[i])
      /\ Decided(r) = <<>> \/ \E d \in DecisionCall : Decided(r) = <<d>>
      /\ Asked(r) = <<>> \/ \E a \in AssessorCall : Asked(r) = <<a>>
  BY <1>1, <1>2, CoreStep
<1>4. log \in Seq(TranscriptLine)
  BY <1>1, <1>2, SaidLines
<1>5. me.background => Inward(r)
  BY <1>1, <1>2, TransitionInward DEF Backgrounded
<1> HIDE DEF e, r
<1>6. Emitted(r, "closing") = <<>> \/ \E c : Emitted(r, "closing") = <<c>>
  BY EmittedAny
<1>7. ticks = IF Emitted(r, "closing") = <<>> THEN <<>> ELSE <<TimerTick(0)>>
  <2>1. CASE Emitted(r, "closing") = <<>>
    BY <2>1
  <2>2. ASSUME NEW c, Emitted(r, "closing") = <<c>>
        PROVE  ticks = <<TimerTick(0)>> /\ Emitted(r, "closing") # <<>>
    <3>1. DOMAIN Emitted(r, "closing") = {1} /\ Emitted(r, "closing") # <<>>
      BY <2>2
    <3>2. <<TimerTick(0)>> = [i \in {1} |-> TimerTick(0)]
      OBVIOUS
    <3> QED BY <3>1, <3>2
  <2> HIDE DEF ticks
  <2> QED BY <1>6, <2>1, <2>2 DEF ticks
<1>8. TimerTick(0) \in SessionEvent
  BY EventConstructors
<1> HIDE DEF ticks
<1>9. /\ events \in Seq(SessionEvent)
      /\ events = IF Emitted(r, "closing") = <<>> THEN Tail(me.events)
                  ELSE Append(Tail(me.events), TimerTick(0))
  <2> DEFINE tick == TimerTick(0)
             rest == Tail(me.events)
  <2>1. rest \in Seq(SessionEvent) /\ tick \in SessionEvent
    BY <1>2, <1>8
  <2> HIDE DEF tick, rest
  <2>2. /\ rest \o <<>> = rest /\ rest \o <<tick>> = Append(rest, tick)
        /\ Append(rest, tick) \in Seq(SessionEvent)
    BY <2>1
  <2> QED BY <1>7, <2>1, <2>2 DEF tick, rest
<1>10. task \in AssessorCall \cup {NoTask}
  BY <1>1, <1>3
<1>11. Heard(me, r) = [me EXCEPT !.state = r.new_state, !.transcript = log, !.grew = grew,
                                 !.events = events, !.task = task]
  BY <1>1 DEF Heard, WorkerRecord, ticks, Asked
<1>12. r.new_state \in SessionState /\ grew \in BOOLEAN
  BY <1>3 DEF Coherent
<1> DEFINE heard == Heard(me, r)
<1> HIDE DEF log, events, task, grew, heard
<1>13. /\ heard \in WorkerRecord /\ heard.state = r.new_state /\ heard.transcript = log
       /\ heard.grew = grew /\ heard.events = events /\ heard.task = task
       /\ heard.background = me.background
  BY <1>1, <1>4, <1>9, <1>10, <1>11, <1>12 DEF WorkerRecord, heard
<1>14. me.background => Emitted(r, "closing") = <<>>
  BY <1>5, EmittedNone DEF Inward, OutboundKinds
<1>15. Backgrounded(heard)
  <2> SUFFICES ASSUME me.background, NEW i \in DOMAIN events
               PROVE  events[i].kind \in BackgroundEvents
    BY <1>13 DEF Backgrounded
  <2>1. events = Tail(me.events)
    BY <1>9, <1>14
  <2> QED BY <1>1, <1>2, <2>1 DEF Backgrounded
<1> QED BY <1>3, <1>5, <1>9, <1>13, <1>15 DEF log, events, task, grew, heard, r, e

\* The worker after an event: before the interviewer's call, before the
\* decision, or past the commands.
LEMMA ExecutingInv ==
  ASSUME NEW me, WorkerInv(me), me.pc = "apply"
  PROVE  LET r == transition(me.state, Head(me.events))
             next == Executing(me, r)
         IN  /\ WorkerInv(next) /\ ~Reads(next) /\ next.pc # "answer"
             /\ next.transcript \in {me.transcript \o Said(r), <<>>}
<1> DEFINE e == Head(me.events)
           r == transition(me.state, e)
           p == r.new_state.pending_command
           heard == Heard(me, r)
           asking == [heard EXCEPT !.pc = "guard", !.call = Emitted(r, "run_interviewer")[1], !.tries = 0]
           deciding == [heard EXCEPT !.pc = "decide", !.call = Emitted(r, "record_decision")[1]]
<1>1. Coherent(me.state) /\ e \in SessionEvent
  <2>1. Coherent(me.state) /\ me.events \in Seq(SessionEvent) /\ me.events # <<>>
    BY DEF WorkerInv, Holds, Informed, WorkerRecord
  <2> QED BY <2>1
<1>2. /\ Coherent(r.new_state) /\ \A i \in DOMAIN r.commands : Promise(r.new_state, r.commands[i])
      /\ Decided(r) = <<>> \/ \E d \in DecisionCall : Decided(r) = <<d>>
  BY <1>1, CoreStep
<1>3. /\ heard \in WorkerRecord /\ Backgrounded(heard)
      /\ heard.state = r.new_state /\ heard.transcript = me.transcript \o Said(r)
      /\ heard.background = me.background
      /\ me.background => Inward(r)
  BY HeardInv
<1> HIDE DEF r
<1>6. /\ Emitted(r, "run_interviewer") \in {<<>>, <<p>>}
      /\ Emitted(r, "run_interviewer") = <<p>> => p.kind = "run_interviewer"
  BY <1>2, SaidOnce
<1>7. me.background => Emitted(r, "run_interviewer") = <<>>
  BY <1>3, EmittedNone DEF Inward, OutboundKinds
<1> HIDE DEF heard
<1>8. CASE Emitted(r, "run_interviewer") # <<>>
  <2>1. Emitted(r, "run_interviewer")[1] = p /\ p.kind = "run_interviewer" /\ ~me.background
    BY <1>6, <1>7, <1>8
  <2>2. p \in InterviewerCall /\ p \in PendingCommand
    BY <1>2, <2>1 DEF Coherent, SessionState, InterviewerCall
  <2>3. Executing(me, r) = asking
    BY <1>8 DEF Executing, heard
  <2> HIDE DEF p
  <2>4. asking = [heard EXCEPT !.pc = "guard", !.call = p, !.tries = 0]
    BY <2>1
  <2>5. /\ asking \in WorkerRecord /\ asking.pc = "guard" /\ asking.call = p
        /\ asking.state = heard.state /\ asking.transcript = heard.transcript
        /\ asking.background = heard.background
    BY <1>3, <2>2, <2>4 DEF WorkerRecord, CallPoints
  <2> HIDE DEF asking
  <2>6. WorkerInv(asking) /\ ~Reads(asking)
    BY <1>2, <1>3, <2>1, <2>2, <2>5 DEF WorkerInv, Backgrounded, Holds, Informed, CallPoints, Reads
  <2> QED BY <1>3, <2>3, <2>5, <2>6 DEF r
<1>9. CASE Emitted(r, "run_interviewer") = <<>> /\ Emitted(r, "record_decision") # <<>>
  <2>1. PICK d \in DecisionCall : Emitted(r, "record_decision") = <<d>>
    BY <1>2, <1>9 DEF Decided
  <2>2. Executing(me, r) = deciding
    BY <1>9 DEF Executing, heard
  <2>0. <<d>>[1] = d
    OBVIOUS
  <2>3. deciding = [heard EXCEPT !.pc = "decide", !.call = d]
    BY <2>0, <2>1, Zenon
  <2>4. /\ deciding \in WorkerRecord /\ deciding.pc = "decide"
        /\ deciding.state = heard.state /\ deciding.transcript = heard.transcript
        /\ deciding.background = heard.background /\ deciding.events = heard.events
    BY <1>3, <2>1, <2>3 DEF WorkerRecord, CallPoints
  <2> HIDE DEF deciding
  <2>5. WorkerInv(deciding) /\ ~Reads(deciding)
    BY <1>2, <1>3, <2>4 DEF WorkerInv, Backgrounded, Holds, Informed, CallPoints, Reads
  <2> QED BY <1>3, <2>2, <2>4, <2>5 DEF r
<1>10. CASE Emitted(r, "run_interviewer") = <<>> /\ Emitted(r, "record_decision") = <<>>
  <2>1. Executing(me, r) = AfterCommand(heard)
    BY <1>10 DEF Executing, heard
  <2>2. /\ WorkerInv(AfterCommand(heard)) /\ ~Reads(AfterCommand(heard))
        /\ AfterCommand(heard).pc # "answer"
        /\ AfterCommand(heard).transcript \in {heard.transcript, <<>>}
    BY <1>2, <1>3, AfterCommandInv
  <2> QED BY <1>3, <2>1, <2>2 DEF r
<1> QED BY <1>8, <1>9, <1>10

-----------------------------------------------------------------------------
\* A step of one worker among the others.

\* The other workers stay as they are.
LEMMA OneGoes ==
  ASSUME DOMAIN worker = Worker, NEW w \in Worker, NEW next, Goes(w, next)
  PROVE  /\ DOMAIN worker' = Worker /\ worker'[w] = next
         /\ \A v \in Worker : v # w => worker'[v] = worker[v]
  BY DEF Goes

\* How many are about to add a turn to the transcript.
LEMMA ReadingStep ==
  ASSUME DOMAIN worker = Worker, NEW w \in Worker, NEW next, Goes(w, next)
  PROVE  /\ Cardinality(Reading) \in Nat /\ Cardinality(Reading') \in Nat
         /\ Reads(worker[w]) => Cardinality(Reading) >= 1
         /\ Cardinality(Reading') =
              IF Reads(next) = Reads(worker[w]) THEN Cardinality(Reading)
              ELSE IF Reads(next) THEN Cardinality(Reading) + 1 ELSE Cardinality(Reading) - 1
<1>1. /\ Reading = {v \in Worker : Reads(worker[v])} /\ Reading' = {v \in Worker : Reads(worker'[v])}
      /\ IsFiniteSet(Worker)
  BY WorkerAssumption DEF Reading, Reads
<1>2. IsFiniteSet(Reading) /\ IsFiniteSet(Reading')
  BY <1>1, FS_Subset
<1>3. Cardinality(Reading) \in Nat /\ Cardinality(Reading') \in Nat
  BY <1>2, FS_CardinalityType
<1>4. worker'[w] = next /\ \A v \in Worker : v # w => worker'[v] = worker[v]
  BY OneGoes
<1> DEFINE before == Reading
           after == Reading'
<1> HIDE DEF before, after
<1>5. /\ w \in before <=> Reads(worker[w])
      /\ w \in after <=> Reads(next)
      /\ before \ {w} = after \ {w}
  BY <1>1, <1>4 DEF before, after
<1>6. w \in before => Cardinality(before) >= 1
  BY <1>2, <1>3, FS_EmptySet DEF before
<1>7. CASE Reads(next) = Reads(worker[w])
  <2>1. before = after
    BY <1>5, <1>7
  <2> QED BY <1>3, <1>5, <1>6, <1>7, <2>1 DEF before, after
<1>8. CASE Reads(next) /\ ~Reads(worker[w])
  <2>1. after = before \cup {w} /\ w \notin before
    BY <1>5, <1>8
  <2>2. Cardinality(before \cup {w}) = Cardinality(before) + 1
    BY <1>2, <2>1, FS_AddElement DEF before
  <2> QED BY <1>3, <1>5, <1>8, <2>1, <2>2 DEF before, after
<1>9. CASE ~Reads(next) /\ Reads(worker[w])
  <2>1. after = before \ {w} /\ w \in before
    BY <1>5, <1>9
  <2>2. Cardinality(before \ {w}) = Cardinality(before) - 1
    BY <1>2, <2>1, FS_RemoveElement DEF before
  <2> QED BY <1>3, <1>5, <1>6, <1>9, <2>1, <2>2 DEF before, after
<1> QED BY <1>5, <1>7, <1>8, <1>9 DEF Reads

\* A step that leaves no less room keeps the shell's invariant when what it
\* writes to the row and what it holds are right.
LEMMA StepInv ==
  ASSUME ShellInv, NEW w \in Worker, NEW next, Goes(w, next), WorkerInv(next),
         row' \in Row, Coherent(row'.state),
         posts' \in 0..MaxPosts,
         Cardinality(Reading') - Cardinality(Reading) <= posts' - posts,
         NextOrdinal(next.transcript) + Cardinality(Reading') <= posts',
         NextOrdinal(row'.transcript) + Cardinality(Reading') <= posts'
  PROVE  ShellInv'
<1>1. /\ DOMAIN worker' = Worker /\ worker'[w] = next
      /\ \A v \in Worker : v # w => worker'[v] = worker[v]
  BY OneGoes DEF ShellInv
<1>2. \A v \in Worker : WorkerInv(worker[v]) /\ Fits(worker[v].transcript)
  BY DEF ShellInv, Numbered
<1>3. \A v \in Worker : WorkerInv(worker'[v])
  BY <1>1, <1>2
<1>4. RowInv'
  <2>1. row' # NoRow
    BY RowAssumption
  <2> QED BY <2>1 DEF RowInv
<1>5. \A v \in Worker : NextOrdinal(worker'[v].transcript) + Cardinality(Reading') <= posts'
  <2> SUFFICES ASSUME NEW v \in Worker, v # w
               PROVE  NextOrdinal(worker[v].transcript) + Cardinality(Reading') <= posts'
    BY <1>1
  <2>1. worker[v].transcript \in Seq(TranscriptLine)
    BY <1>2 DEF WorkerInv, WorkerRecord
  <2>2. NextOrdinal(worker[v].transcript) \in Nat
    BY <2>1, OrdinalCount
  <2>3. Cardinality(Reading) \in Nat /\ Cardinality(Reading') \in Nat
    BY ReadingStep DEF ShellInv
  <2>4. NextOrdinal(worker[v].transcript) + Cardinality(Reading) <= posts /\ posts \in Nat
    BY <1>2 DEF Fits, ShellInv, Numbered
  <2> DEFINE o == NextOrdinal(worker[v].transcript)
             a == Cardinality(Reading)
             b == Cardinality(Reading')
  <2> HIDE DEF o, a, b
  <2>5. o + b <= posts'
    BY <2>2, <2>3, <2>4 DEF o, a, b
  <2> QED BY <2>5 DEF o, b
<1>6. Cardinality(Reading') <= posts'
  <2>1. Cardinality(Reading) \in Nat /\ Cardinality(Reading') \in Nat
    BY ReadingStep DEF ShellInv
  <2>2. Cardinality(Reading) <= posts /\ posts \in Nat
    BY DEF ShellInv, Numbered
  <2> QED BY <2>1, <2>2
<1> QED BY <1>1, <1>3, <1>4, <1>5, <1>6 DEF ShellInv, Numbered, Fits

\* A worker that runs has a row to run on.
LEMMA Running ==
  ASSUME ShellInv, NEW w \in Worker, worker[w].pc # "idle"
  PROVE  /\ row # NoRow /\ row \in Row /\ Coherent(row.state)
         /\ row.transcript \in Seq(TranscriptLine)
         /\ WorkerInv(worker[w]) /\ worker[w] \in WorkerRecord
         /\ NextOrdinal(row.transcript) \in Nat /\ Fits(row.transcript)
         /\ NextOrdinal(worker[w].transcript) \in Nat /\ Fits(worker[w].transcript)
         /\ posts \in 0..MaxPosts /\ Cardinality(Reading) \in Nat
<1>1. row # NoRow
  BY IdleInv DEF ShellInv, RowInv
<1>2. row \in Row /\ Coherent(row.state) /\ Fits(row.transcript)
  BY <1>1 DEF ShellInv, RowInv, Numbered
<1>3. WorkerInv(worker[w]) /\ worker[w] \in WorkerRecord /\ Fits(worker[w].transcript)
  BY DEF ShellInv, WorkerInv, Numbered
<1>4. row.transcript \in Seq(TranscriptLine) /\ worker[w].transcript \in Seq(TranscriptLine)
  BY <1>2, <1>3 DEF Row, WorkerRecord
<1>5. NextOrdinal(row.transcript) \in Nat /\ NextOrdinal(worker[w].transcript) \in Nat
  BY <1>4, OrdinalCount
<1>6. IsFiniteSet(Reading)
  BY WorkerAssumption, FS_Subset DEF Reading
<1>7. Cardinality(Reading) \in Nat
  BY <1>6, FS_CardinalityType
<1> QED BY <1>1, <1>2, <1>3, <1>4, <1>5, <1>7 DEF ShellInv, Numbered

\* A step that only changes what the worker does next, and perhaps writes its
\* transcript to the row.
LEMMA LocalStep ==
  ASSUME ShellInv, NEW w \in Worker, worker[w].pc # "idle", posts' = posts,
         NEW next, Goes(w, next), WorkerInv(next), ~Reads(next),
         next.transcript \in {worker[w].transcript, <<>>},
         row' = row \/ (/\ row' \in Row /\ Coherent(row'.state)
                        /\ row'.transcript = worker[w].transcript)
  PROVE  ShellInv'
<1> DEFINE a == Cardinality(Reading)
           b == Cardinality(Reading')
           o == NextOrdinal(worker[w].transcript)
           q == NextOrdinal(row.transcript)
<1>1. /\ row \in Row /\ Coherent(row.state) /\ posts \in 0..MaxPosts
      /\ o \in Nat /\ q \in Nat /\ o + a <= posts /\ q + a <= posts
  BY Running DEF Fits
<1>2. a \in Nat /\ b \in Nat /\ b <= a
  <2>1. /\ Cardinality(Reading) \in Nat /\ Cardinality(Reading') \in Nat
        /\ Cardinality(Reading') = IF Reads(next) = Reads(worker[w]) THEN Cardinality(Reading)
              ELSE IF Reads(next) THEN Cardinality(Reading) + 1 ELSE Cardinality(Reading) - 1
    BY ReadingStep DEF ShellInv
  <2> QED BY <2>1
<1>3. NextOrdinal(next.transcript) \in {o, 0} /\ NextOrdinal(row'.transcript) \in {o, q}
  BY OrdinalCount
<1>4. row' \in Row /\ Coherent(row'.state)
  BY <1>1
<1>5. posts' \in 0..MaxPosts
  BY <1>1
<1> HIDE DEF a, b, o, q
<1>6. /\ b - a <= posts' - posts
      /\ NextOrdinal(next.transcript) + b <= posts' /\ NextOrdinal(row'.transcript) + b <= posts'
  BY <1>1, <1>2, <1>3
<1> QED BY <1>4, <1>5, <1>6, StepInv DEF a, b

-----------------------------------------------------------------------------
\* The actions, for any number of workers.

\* The row is created.
LEMMA CreateInv ==
  ASSUME ShellInv, NEW w \in Worker, Create(w)
  PROVE  ShellInv'
<1>1. PICK p \in Plans :
        /\ row' = [state |-> initial_state(p), transcript |-> <<>>]
        /\ Goes(w, [Idle EXCEPT !.pc = "apply", !.state = initial_state(p),
                                !.events = <<SessionStarted(0)>>])
  BY DEF Create
<1> DEFINE s == initial_state(p)
           events == <<SessionStarted(0)>>
           next == [Idle EXCEPT !.pc = "apply", !.state = s, !.events = events]
<1>2. Coherent(s)
  <2>1. NoCommand.kind # "run_interviewer"
    BY CommandKinds
  <2> QED BY <2>1, InitialState DEF Coherent, Callable
<1>3. events \in Seq(SessionEvent) /\ events # <<>>
  <2>1. SessionStarted(0) \in SessionEvent
    BY EventConstructors
  <2> QED BY <2>1
<1>4. Goes(w, next) /\ worker[w] = Idle /\ posts' = posts
  BY <1>1 DEF Create
<1> HIDE DEF s, events
<1>5. Idle \in WorkerRecord /\ Idle.transcript = <<>> /\ ~Idle.background
  BY IdleInv DEF WorkerInv
<1>6. /\ next \in WorkerRecord /\ next.pc = "apply" /\ next.state = s /\ ~next.background
      /\ next.events = events /\ next.transcript = <<>>
  BY <1>2, <1>3, <1>5 DEF WorkerRecord, Coherent
<1> HIDE DEF next
<1>7. WorkerInv(next) /\ ~Reads(next)
  BY <1>2, <1>3, <1>6 DEF WorkerInv, Backgrounded, Holds, Informed, CallPoints, Reads
<1>8. row' \in Row /\ Coherent(row'.state) /\ row'.transcript = <<>>
  <2>1. row' = [state |-> s, transcript |-> <<>>]
    BY <1>1 DEF s
  <2>2. <<>> \in Seq(TranscriptLine) /\ s \in SessionState
    BY <1>2 DEF Coherent
  <2> QED BY <1>2, <2>1, <2>2 DEF Row
<1>9. ~Reads(worker[w])
  BY <1>4, IdleInv DEF Reads
<1>10. Cardinality(Reading') = Cardinality(Reading) /\ Cardinality(Reading) \in Nat
  BY <1>4, <1>7, <1>9, ReadingStep DEF ShellInv, Reads
<1>11. posts \in 0..MaxPosts /\ Cardinality(Reading) <= posts
  BY DEF ShellInv, Numbered
<1>12. NextOrdinal(<<>>) = 0
  BY OrdinalCount
<1> QED BY <1>4, <1>6, <1>7, <1>8, <1>10, <1>11, <1>12, StepInv

\* A turn is posted: one more post, one more turn to come.
LEMMA PostTurnInv ==
  ASSUME ShellInv, NEW w \in Worker, PostTurn(w)
  PROVE  ShellInv'
<1> DEFINE next == [Idle EXCEPT !.pc = "read_log", !.state = row.state]
<1>1. /\ row # NoRow /\ worker[w] = Idle /\ posts < MaxPosts /\ posts' = posts + 1
      /\ Goes(w, next) /\ row' = row
  BY DEF PostTurn
<1>2. row \in Row /\ Coherent(row.state) /\ Fits(row.transcript)
  BY <1>1 DEF ShellInv, RowInv, Numbered
<1>3. Idle \in WorkerRecord /\ Idle.transcript = <<>> /\ ~Idle.background
  BY IdleInv DEF WorkerInv
<1>4. /\ next \in WorkerRecord /\ next.pc = "read_log" /\ next.state = row.state
      /\ ~next.background /\ next.transcript = <<>>
  BY <1>2, <1>3 DEF WorkerRecord, Coherent
<1> HIDE DEF next
<1>5. WorkerInv(next) /\ Reads(next)
  BY <1>2, <1>4 DEF WorkerInv, Backgrounded, Holds, Informed, CallPoints, Reads
<1>6. ~Reads(worker[w])
  BY <1>1, IdleInv DEF Reads
<1>7. Cardinality(Reading') = Cardinality(Reading) + 1 /\ Cardinality(Reading) \in Nat
  BY <1>1, <1>5, <1>6, ReadingStep DEF ShellInv
<1>8. /\ posts \in 0..MaxPosts /\ MaxPosts \in Nat /\ Cardinality(Reading) <= posts
      /\ NextOrdinal(row.transcript) + Cardinality(Reading) <= posts
      /\ NextOrdinal(row.transcript) \in Nat
  <2>1. row.transcript \in Seq(TranscriptLine)
    BY <1>2 DEF Row
  <2> QED BY <1>2, <2>1, OrdinalCount, BoundAssumption DEF ShellInv, Numbered, Fits
<1>9. posts' \in 0..MaxPosts
  BY <1>1, <1>8
<1>10. NextOrdinal(<<>>) = 0
  BY OrdinalCount
<1> DEFINE o == NextOrdinal(row.transcript)
           a == Cardinality(Reading)
           b == Cardinality(Reading')
<1>11. o \in Nat /\ a \in Nat /\ b = a + 1 /\ o + a <= posts /\ a <= posts
  BY <1>7, <1>8
<1> HIDE DEF o, a, b
<1>12. b - a <= posts' - posts /\ o + b <= posts' /\ 0 + b <= posts'
  BY <1>1, <1>8, <1>11
<1> QED BY <1>1, <1>2, <1>4, <1>5, <1>9, <1>10, <1>12, StepInv DEF o, a, b

\* The turn gets its number, which no post has used up; the background reads on.
LEMMA ReadLogInv ==
  ASSUME ShellInv, NEW w \in Worker, ReadLog(w)
  PROVE  ShellInv'
<1> DEFINE me == worker[w]
           turn_id == NextOrdinal(row.transcript)
           line == Line("candidate", turn_id)
           log == Append(row.transcript, line)
           event == CandidateTurnReceived(turn_id, 0)
<1>1. me.pc = "read_log" /\ row' = row /\ posts' = posts
  BY DEF ReadLog
<1>2. /\ row \in Row /\ Coherent(row.state) /\ row.transcript \in Seq(TranscriptLine)
      /\ WorkerInv(me) /\ me \in WorkerRecord /\ turn_id \in Nat
      /\ turn_id + Cardinality(Reading) <= posts /\ posts \in 0..MaxPosts
      /\ Cardinality(Reading) \in Nat
  BY <1>1, Running DEF Fits
<1>3. CASE me.background
  <2> DEFINE next == [me EXCEPT !.pc = "apply", !.transcript = row.transcript]
  <2>1. Goes(w, next)
    BY <1>3 DEF ReadLog
  <2>2. /\ next \in WorkerRecord /\ next.pc = "apply" /\ next.state = me.state
        /\ next.background = me.background
        /\ next.events = me.events /\ next.transcript = row.transcript
    BY <1>2 DEF WorkerRecord
  <2> HIDE DEF next
  <2>3. WorkerInv(next) /\ ~Reads(next) /\ ~Reads(me)
    BY <1>1, <1>2, <1>3, <2>2 DEF WorkerInv, Backgrounded, Holds, Informed, CallPoints, Reads
  <2>4. Cardinality(Reading') = Cardinality(Reading)
    BY <2>1, <2>3, ReadingStep DEF ShellInv, Reads
  <2> HIDE DEF me
  <2> QED BY <1>1, <1>2, <2>1, <2>2, <2>3, <2>4, StepInv
<1>4. CASE ~me.background
  <2> DEFINE next == [me EXCEPT !.pc = "apply", !.transcript = log, !.events = <<event>>]
  <2>1. Goes(w, next)
    BY <1>4 DEF ReadLog
  <2>2. Reads(me)
    BY <1>1, <1>4 DEF Reads
  <2>3. Cardinality(Reading) >= 1
    BY <2>1, <2>2, ReadingStep DEF ShellInv
  <2>4. turn_id \in TurnId
    <3>1. turn_id \in 0..(MaxPosts - 1)
      BY <1>2, <2>3, BoundAssumption
    <3> QED BY <3>1, BoundAssumption
  <2>5. event \in SessionEvent
    BY <2>4, EventConstructors
  <2>6. line \in TranscriptLine /\ line.role = "candidate"
    BY <1>2 DEF Line, TranscriptLine
  <2>7. NextOrdinal(log) = turn_id + 1 /\ log \in Seq(TranscriptLine)
    BY <1>2, <2>6, OrdinalCount
  <2> HIDE DEF event, log, line, turn_id
  <2>8. <<event>> \in Seq(SessionEvent) /\ <<event>> # <<>>
    BY <2>5
  <2>9. /\ next \in WorkerRecord /\ next.pc = "apply" /\ next.state = me.state
        /\ next.background = me.background
        /\ next.events = <<event>> /\ next.transcript = log
    BY <1>2, <2>7, <2>8 DEF WorkerRecord
  <2> HIDE DEF next
  <2>10. WorkerInv(next) /\ ~Reads(next)
    BY <1>1, <1>2, <1>4, <2>8, <2>9 DEF WorkerInv, Backgrounded, Holds, Informed, CallPoints, Reads
  <2>11. Cardinality(Reading') = Cardinality(Reading) - 1
    BY <2>1, <2>2, <2>10, ReadingStep DEF ShellInv
  <2> HIDE DEF me
  <2>12. /\ Cardinality(Reading') - Cardinality(Reading) <= posts' - posts
         /\ turn_id + 1 + Cardinality(Reading') <= posts'
         /\ turn_id + Cardinality(Reading') <= posts'
    BY <1>1, <1>2, <2>11
  <2> QED BY <1>1, <1>2, <2>1, <2>7, <2>9, <2>10, <2>12, StepInv DEF turn_id
<1> QED BY <1>3, <1>4

\* An event is applied.
LEMMA ApplyInv ==
  ASSUME ShellInv, NEW w \in Worker, Apply(w)
  PROVE  ShellInv'
<1> DEFINE me == worker[w]
           r == transition(me.state, Head(me.events))
           next == Executing(me, r)
           a == Cardinality(Reading)
           o == NextOrdinal(me.transcript)
<1>1. /\ me.pc = "apply" /\ row' = [state |-> r.new_state, transcript |-> me.transcript]
      /\ Goes(w, next) /\ posts' = posts
  BY DEF Apply, Written
<1>2. /\ WorkerInv(me) /\ me \in WorkerRecord /\ posts \in 0..MaxPosts
      /\ o \in Nat /\ o + a <= posts /\ a \in Nat
  BY <1>1, Running DEF Fits
<1>3. Coherent(me.state) /\ me.events # <<>> /\ me.events \in Seq(SessionEvent)
      /\ me.transcript \in Seq(TranscriptLine)
  BY <1>1, <1>2 DEF WorkerInv, Holds, Informed, WorkerRecord
<1>4. Head(me.events) \in SessionEvent
  BY <1>3
<1>5. Coherent(r.new_state) /\ NextOrdinal(me.transcript \o Said(r)) = o
  BY <1>3, <1>4, CoreStep, SaidLines
<1>6. row' \in Row /\ Coherent(row'.state) /\ row'.transcript = me.transcript
  BY <1>1, <1>3, <1>5 DEF Row, Coherent
<1>7. WorkerInv(next) /\ ~Reads(next) /\ next.transcript \in {me.transcript \o Said(r), <<>>}
  BY <1>1, <1>2, ExecutingInv
<1>8. NextOrdinal(next.transcript) \in {o, 0}
  BY <1>5, <1>7, OrdinalCount
<1>9. Cardinality(Reading') = a
  <2>1. ~Reads(me)
    BY <1>1 DEF Reads
  <2> HIDE DEF next
  <2> QED BY <1>1, <1>7, <2>1, ReadingStep DEF ShellInv, Reads
<1> HIDE DEF r, next
<1>10. /\ Cardinality(Reading') - Cardinality(Reading) <= posts' - posts
       /\ NextOrdinal(next.transcript) + Cardinality(Reading') <= posts'
       /\ NextOrdinal(row'.transcript) + Cardinality(Reading') <= posts'
       /\ posts' \in 0..MaxPosts
  BY <1>1, <1>2, <1>6, <1>8, <1>9
<1> QED BY <1>1, <1>6, <1>7, <1>10, StepInv

\* A decision is recorded, a transcript that grew is saved.
LEMMA SaveInv ==
  ASSUME ShellInv, NEW w \in Worker, RecordedDecision(w) \/ Save(w)
  PROVE  ShellInv'
<1> DEFINE me == worker[w]
<1>1. me.pc \in {"decide", "save"} /\ posts' = posts
  BY DEF RecordedDecision, Save
<1>2. /\ WorkerInv(me) /\ me \in WorkerRecord /\ Coherent(me.state) /\ Backgrounded(me)
      /\ me.transcript \in Seq(TranscriptLine)
  BY <1>1, Running DEF WorkerInv, Holds, WorkerRecord
<1>3. CASE RecordedDecision(w)
  <2>1. Goes(w, AfterCommand(me)) /\ row' = row
    BY <1>3 DEF RecordedDecision
  <2>2. /\ WorkerInv(AfterCommand(me)) /\ ~Reads(AfterCommand(me))
        /\ AfterCommand(me).transcript \in {me.transcript, <<>>}
    BY <1>2, AfterCommandInv
  <2> QED BY <1>1, <2>1, <2>2, LocalStep
<1>4. CASE Save(w)
  <2> DEFINE saved == [me EXCEPT !.grew = FALSE]
  <2>1. /\ Goes(w, AfterCommands(saved))
        /\ row' = [state |-> me.state, transcript |-> me.transcript]
    BY <1>4 DEF Save
  <2>2. /\ saved \in WorkerRecord /\ saved.state = me.state /\ saved.transcript = me.transcript
        /\ saved.events = me.events /\ saved.background = me.background
    BY <1>2 DEF WorkerRecord
  <2> HIDE DEF saved
  <2>3. /\ WorkerInv(AfterCommands(saved)) /\ ~Reads(AfterCommands(saved))
        /\ AfterCommands(saved).transcript \in {me.transcript, <<>>}
    BY <1>2, <2>2, AfterCommandsInv DEF Backgrounded
  <2>4. row' \in Row /\ Coherent(row'.state) /\ row'.transcript = me.transcript
    BY <1>2, <2>1 DEF Row, Coherent
  <2> QED BY <1>1, <2>1, <2>3, <2>4, LocalStep
<1> QED BY <1>3, <1>4

\* The outcomes of an agent call are events the core knows.
LEMMA CallEvents ==
  ASSUME NEW me, WorkerInv(me), me.pc \in CallPoints
  PROVE  /\ OperatorAbort("cost_ceiling") \in SessionEvent
         /\ Failed(me) \in SessionEvent
         /\ Answers(me) \subseteq SessionEvent
         /\ me.background => /\ OperatorAbort("cost_ceiling").kind \in BackgroundEvents
                             /\ Failed(me).kind \in BackgroundEvents
                             /\ \A e \in Answers(me) : e.kind \in BackgroundEvents
         /\ ~me.background => /\ Failed(me).kind = "interviewer_failed"
                              /\ Failed(me).turn_id = me.call.turn_id
                              /\ \A e \in Answers(me) : /\ e.kind = "interviewer_reply"
                                                        /\ e.turn_id = me.call.turn_id
<1>1. OperatorAbort("cost_ceiling") \in SessionEvent
  BY EventConstructors DEF AbortReason
<1>2. CASE me.background
  <2>1. me.call.turn_id \in TurnId
    BY <1>2 DEF WorkerInv, AssessorCall
  <2>2. Failed(me) = AssessmentFailed(me.call.turn_id)
    BY <1>2 DEF Failed
  <2>3. ASSUME NEW e \in Answers(me)
        PROVE  e \in SessionEvent /\ e.kind \in BackgroundEvents
    <3>1. PICK out \in AssessorOutputs : e = AssessmentCompleted(me.call.turn_id, out)
      BY <1>2, <2>3 DEF Answers
    <3>2. out \in AssessorOutput
      BY AnswerAssumption
    <3>3. e \in SessionEvent
      BY <2>1, <3>1, <3>2, EventConstructors
    <3> QED BY <3>1, <3>3 DEF AssessmentCompleted, BackgroundEvents, AssessorEvents
  <2>4. Failed(me) \in SessionEvent /\ Failed(me).kind \in BackgroundEvents
    <3>1. Failed(me) \in SessionEvent
      BY <2>1, <2>2, EventConstructors
    <3> QED BY <2>2, <3>1 DEF AssessmentFailed, BackgroundEvents, AssessorEvents
  <2>5. OperatorAbort("cost_ceiling").kind \in BackgroundEvents
    BY DEF OperatorAbort, BackgroundEvents
  <2> QED BY <1>1, <1>2, <2>3, <2>4, <2>5
<1>3. CASE ~me.background
  <2>1. me.call.turn_id \in Int /\ me.call.move \in InterviewerMove
    BY <1>3 DEF WorkerInv, InterviewerCall, PendingCommand, Callable
  <2>2. Failed(me) = InterviewerFailed(me.call.turn_id)
    BY <1>3 DEF Failed
  <2>3. ASSUME NEW e \in Answers(me)
        PROVE  e \in SessionEvent /\ e.kind = "interviewer_reply" /\ e.turn_id = me.call.turn_id
    <3>1. PICK m \in {me.call.move} \cup OtherMoves : e = InterviewerReplyReady(me.call.turn_id, m)
      BY <1>3, <2>3 DEF Answers
    <3>2. m \in InterviewerMove
      BY <2>1, AnswerAssumption
    <3>3. e \in SessionEvent
      BY <2>1, <3>1, <3>2, EventConstructors
    <3> QED BY <3>1, <3>3 DEF InterviewerReplyReady
  <2>4. Failed(me) \in SessionEvent
    BY <2>1, <2>2, EventConstructors
  <2>5. Failed(me).kind = "interviewer_failed" /\ Failed(me).turn_id = me.call.turn_id
    BY <2>2 DEF InterviewerFailed
  <2> QED BY <1>1, <1>3, <2>3, <2>4, <2>5
<1> QED BY <1>2, <1>3

\* The steps of a call: it goes on, or it has an outcome.
Proceeds(me, next) ==
  next \in {[me EXCEPT !.pc = "call"], [me EXCEPT !.pc = "answer"], [me EXCEPT !.pc = "call", !.tries = 1]}
Concludes(me, next) ==
  \/ next = Outcome(me, OperatorAbort("cost_ceiling"))
  \/ next = Outcome(me, Failed(me))
  \/ \E e \in Answers(me) : next = Outcome(me, e)
Calling(w) == GuardBudget(w) \/ EnterCall(w) \/ Answer(w) \/ Miss(w) \/ CallFails(w)

\* Every step of a call is of one of the two sorts, and leaves the rest alone.
LEMMA CallSteps ==
  ASSUME NEW w \in Worker, Calling(w)
  PROVE  /\ worker[w].pc \in CallPoints /\ row' = row /\ posts' = posts
         /\ UNCHANGED <<known, decisions, asked, landed, deaths>>
         /\ \E next : Goes(w, next) /\ (Proceeds(worker[w], next) \/ Concludes(worker[w], next))
<1> DEFINE me == worker[w]
<1>1. CASE GuardBudget(w)
  <2>1. \/ Goes(w, Outcome(me, OperatorAbort("cost_ceiling")))
        \/ Goes(w, [me EXCEPT !.pc = "call"])
    BY <1>1 DEF GuardBudget
  <2>2. me.pc \in CallPoints /\ UNCHANGED <<row, posts, known, decisions, asked, landed, deaths>>
    BY <1>1 DEF GuardBudget, CallPoints
  <2> QED BY <2>1, <2>2, Zenon DEF Proceeds, Concludes
<1>2. CASE EnterCall(w)
  <2>1. \/ Goes(w, Outcome(me, Failed(me)))
        \/ Goes(w, [me EXCEPT !.pc = "answer"])
    BY <1>2 DEF EnterCall
  <2>2. me.pc \in CallPoints /\ UNCHANGED <<row, posts, known, decisions, asked, landed, deaths>>
    BY <1>2 DEF EnterCall, CallPoints
  <2> QED BY <2>1, <2>2, Zenon DEF Proceeds, Concludes
<1>3. CASE Answer(w)
  <2>1. \E e \in Answers(me) : Goes(w, Outcome(me, e))
    BY <1>3 DEF Answer
  <2>2. me.pc \in CallPoints /\ UNCHANGED <<row, posts, known, decisions, asked, landed, deaths>>
    BY <1>3 DEF Answer, CallPoints
  <2> QED BY <2>1, <2>2, Zenon DEF Proceeds, Concludes
<1>4. CASE Miss(w)
  <2>1. \/ Goes(w, Outcome(me, Failed(me)))
        \/ Goes(w, [me EXCEPT !.pc = "call", !.tries = 1])
    BY <1>4 DEF Miss
  <2>2. me.pc \in CallPoints /\ UNCHANGED <<row, posts, known, decisions, asked, landed, deaths>>
    BY <1>4 DEF Miss, CallPoints
  <2> QED BY <2>1, <2>2, Zenon DEF Proceeds, Concludes
<1>5. CASE CallFails(w)
  <2>1. Goes(w, Outcome(me, Failed(me)))
    BY <1>5 DEF CallFails
  <2>2. me.pc \in CallPoints /\ UNCHANGED <<row, posts, known, decisions, asked, landed, deaths>>
    BY <1>5 DEF CallFails, CallPoints
  <2> QED BY <2>1, <2>2, Zenon DEF Proceeds, Concludes
<1> QED BY <1>1, <1>2, <1>3, <1>4, <1>5 DEF Calling

\* A call that goes on keeps what the worker holds.
LEMMA ProceedsFields ==
  ASSUME NEW me \in WorkerRecord, NEW next, Proceeds(me, next)
  PROVE  /\ next \in WorkerRecord /\ next.pc \in CallPoints /\ next.background = me.background
         /\ next.state = me.state /\ next.transcript = me.transcript /\ next.events = me.events
         /\ next.call = me.call /\ next.task = me.task /\ next.grew = me.grew
<1>1. CASE next = [me EXCEPT !.pc = "call"]
  BY <1>1, ControlFields DEF CallPoints
<1>2. CASE next = [me EXCEPT !.pc = "answer"]
  BY <1>2, ControlFields DEF CallPoints
<1>3. CASE next = [me EXCEPT !.pc = "call", !.tries = 1]
  BY <1>3 DEF WorkerRecord, CallPoints
<1> QED BY <1>1, <1>2, <1>3 DEF Proceeds

\* The steps of a call.
LEMMA CallInv ==
  ASSUME ShellInv, NEW w \in Worker, Calling(w)
  PROVE  ShellInv'
<1> DEFINE me == worker[w]
<1>1. PICK next : Goes(w, next) /\ (Proceeds(me, next) \/ Concludes(me, next))
  BY CallSteps
<1>2. me.pc \in CallPoints /\ row' = row /\ posts' = posts
  BY CallSteps
<1>3. me.pc # "idle"
  BY <1>2 DEF CallPoints
<1>4. WorkerInv(me) /\ me \in WorkerRecord
  BY <1>3, Running
<1> HIDE DEF me
<1>5. ASSUME Proceeds(me, next)
      PROVE  WorkerInv(next) /\ ~Reads(next) /\ next.transcript \in {me.transcript, <<>>}
  <2>1. /\ next \in WorkerRecord /\ next.pc \in CallPoints /\ next.background = me.background
        /\ next.state = me.state /\ next.transcript = me.transcript /\ next.events = me.events
        /\ next.call = me.call
    BY <1>4, <1>5, ProceedsFields
  <2> QED BY <1>2, <1>4, <2>1 DEF WorkerInv, Backgrounded, Holds, Informed, CallPoints, Reads
<1>6. ASSUME Concludes(me, next)
      PROVE  WorkerInv(next) /\ ~Reads(next) /\ next.transcript \in {me.transcript, <<>>}
  <2>1. PICK e \in SessionEvent : /\ next = Outcome(me, e)
                                  /\ me.background => e.kind \in BackgroundEvents
    BY <1>2, <1>4, <1>6, CallEvents DEF Concludes
  <2> QED BY <1>2, <1>4, <2>1, OutcomeInv
<1> QED BY <1>1, <1>2, <1>3, <1>5, <1>6, LocalStep DEF me

\* The background task reloads the row; a worker dies.
LEMMA ReloadInv ==
  ASSUME ShellInv, NEW w \in Worker, Reload(w) \/ Die(w)
  PROVE  ShellInv'
<1> DEFINE me == worker[w]
<1>1. CASE Reload(w)
  <2> DEFINE next == [me EXCEPT !.pc = "read_log", !.state = row.state]
  <2>1. me.pc = "reload" /\ Goes(w, next) /\ row' = row /\ posts' = posts
    BY <1>1 DEF Reload
  <2>2. /\ WorkerInv(me) /\ me \in WorkerRecord /\ me.background /\ Coherent(row.state)
        /\ me.events # <<>>
    BY <2>1, Running DEF WorkerInv, Informed
  <2>3. /\ next \in WorkerRecord /\ next.pc = "read_log" /\ next.state = row.state
        /\ next.background = me.background /\ next.events = me.events
        /\ next.transcript = me.transcript
    BY <2>2 DEF WorkerRecord, Coherent
  <2> HIDE DEF next
  <2>4. WorkerInv(next) /\ ~Reads(next)
    BY <2>2, <2>3 DEF WorkerInv, Backgrounded, Holds, Informed, CallPoints, Reads
  <2> QED BY <2>1, <2>3, <2>4, LocalStep
<1>2. CASE Die(w)
  <2>1. Goes(w, Idle) /\ row' = row /\ posts' = posts /\ me # Idle
    BY <1>2 DEF Die
  <2>2. WorkerInv(Idle) /\ ~Reads(Idle) /\ Idle.transcript = <<>>
    BY IdleInv DEF Reads
  <2>3. CASE me.pc # "idle"
    BY <2>1, <2>2, <2>3, LocalStep
  <2>4. CASE me.pc = "idle"
    <3>1. row # NoRow
      BY <2>1 DEF ShellInv, RowInv
    <3>2. row \in Row /\ Coherent(row.state) /\ Fits(row.transcript) /\ posts \in 0..MaxPosts
      BY <3>1 DEF ShellInv, RowInv, Numbered
    <3>3. Cardinality(Reading') = Cardinality(Reading) /\ Cardinality(Reading) \in Nat
      BY <2>1, <2>2, <2>4, ReadingStep DEF ShellInv, Reads
    <3>4. Cardinality(Reading) <= posts /\ NextOrdinal(<<>>) = 0
      BY OrdinalCount DEF ShellInv, Numbered
    <3> QED BY <2>1, <2>2, <3>2, <3>3, <3>4, StepInv DEF Fits
  <2> QED BY <2>3, <2>4
<1> QED BY <1>1, <1>2

\* Every step.
LEMMA NextInv == ShellInv /\ [Next]_vars => ShellInv'
<1> SUFFICES ASSUME ShellInv, [Next]_vars PROVE ShellInv'
  OBVIOUS
<1>1. CASE UNCHANGED vars
  BY <1>1, Zenon DEF vars, ShellInv, RowInv, Numbered, Reading, Fits
<1>2. CASE Next
  <2>1. PICK w \in Worker : Create(w) \/ PostTurn(w) \/ Runs(w) \/ Die(w)
    BY <1>2 DEF Next
  <2>2. CASE Runs(w)
    BY <2>2, ReadLogInv, ApplyInv, SaveInv, CallInv, ReloadInv DEF Runs, Calling
  <2> QED BY <2>1, <2>2, CreateInv, PostTurnInv, ReloadInv
<1> QED BY <1>1, <1>2

\* The shell's invariant for every number of workers, posts and deaths: the row
\* and what the workers hold of it are states the core produced.
THEOREM ShellInvariance == Spec => []ShellInv
<1>1. Init => ShellInv
  <2> SUFFICES ASSUME Init PROVE ShellInv
    OBVIOUS
  <2>1. worker = [w \in Worker |-> Idle] /\ row = NoRow /\ posts = 0
    BY DEF Init
  <2>2. \A w \in Worker : worker[w] = Idle
    BY <2>1
  <2>3. Reading = {}
    BY <2>2, IdleInv DEF Reading
  <2>4. Cardinality(Reading) = 0 /\ NextOrdinal(<<>>) = 0
    BY <2>3, FS_EmptySet, OrdinalCount
  <2>5. Numbered
    BY <2>1, <2>2, <2>4, IdleInv, BoundAssumption DEF Numbered, Fits
  <2> QED BY <2>1, <2>2, <2>5, IdleInv DEF ShellInv, RowInv
<1> QED BY <1>1, NextInv, PTL DEF Spec

\* RowIsCoherent: whatever the workers of any number of requests overwrite of
\* each other's work, the row is always one coherent state (contract section 9).
THEOREM RowStaysCoherent == Spec => []RowIsCoherent
<1>1. ShellInv => RowIsCoherent
  BY DEF ShellInv, RowInv, RowIsCoherent, Coherent
<1> QED BY <1>1, ShellInvariance, PTL

-----------------------------------------------------------------------------
\* The spend.

\* Products of counts.
LEMMA Products ==
  ASSUME NEW c \in Nat, NEW a \in Nat, NEW b \in Nat, a <= b
  PROVE  /\ c * a \in Nat /\ c * b \in Nat /\ c * a <= c * b
         /\ c * (a + 1) = c * a + c
<1>1. c * a \in Nat /\ c * b \in Nat /\ c * (a + 1) = c * a + c
  BY SMT
<1>2. PICK d \in Nat : b = a + d
  <2>1. b - a \in Nat /\ b = a + (b - a)
    OBVIOUS
  <2> QED BY <2>1
<1>3. c * (a + d) = c * a + c * d /\ c * d \in Nat
  BY SMT
<1> QED BY <1>1, <1>2, <1>3

\* A worker is answered only after it asked, and asks only within the ceiling.
LEMMA AnsweringStep ==
  ASSUME ShellInv, NEW w \in Worker, NEW next, Goes(w, next)
  PROVE  /\ Cardinality(Answering) \in Nat /\ Cardinality(Answering') \in Nat
         /\ Cardinality(Worker) \in Nat /\ Cardinality(Answering') <= Cardinality(Worker)
         /\ next.pc # "answer" =>
              /\ Cardinality(Answering') <= Cardinality(Answering)
              /\ worker[w].pc = "answer" => Cardinality(Answering) = Cardinality(Answering') + 1
<1>1. /\ worker'[w] = next /\ \A v \in Worker : v # w => worker'[v] = worker[v]
  BY OneGoes DEF ShellInv
<1>2. /\ IsFiniteSet(Worker) /\ IsFiniteSet(Answering) /\ IsFiniteSet(Answering')
      /\ Cardinality(Answering') <= Cardinality(Worker)
  <2>1. Answering \subseteq Worker /\ Answering' \subseteq Worker /\ IsFiniteSet(Worker)
    BY WorkerAssumption DEF Answering
  <2> QED BY <2>1, FS_Subset
<1> DEFINE before == Answering
           after == Answering'
<1>3. /\ Cardinality(before) \in Nat /\ Cardinality(after) \in Nat /\ Cardinality(Worker) \in Nat
  BY <1>2, FS_CardinalityType
<1>4. next.pc # "answer" => after = before \ {w} /\ (worker[w].pc = "answer" <=> w \in before)
  BY <1>1 DEF Answering
<1> HIDE DEF before, after
<1>5. Cardinality(before \ {w}) = IF w \in before THEN Cardinality(before) - 1 ELSE Cardinality(before)
  BY <1>2, FS_RemoveElement DEF before
<1>6. next.pc # "answer" =>
        /\ Cardinality(after) <= Cardinality(before)
        /\ worker[w].pc = "answer" => Cardinality(before) = Cardinality(after) + 1
  <2> SUFFICES ASSUME next.pc # "answer"
               PROVE  /\ Cardinality(after) <= Cardinality(before)
                      /\ worker[w].pc = "answer" => Cardinality(before) = Cardinality(after) + 1
    OBVIOUS
  <2>1. Cardinality(after) = IF w \in before THEN Cardinality(before) - 1 ELSE Cardinality(before)
    BY <1>4, <1>5
  <2>2. worker[w].pc = "answer" => w \in before
    BY <1>4
  <2> QED BY <1>3, <2>1, <2>2
<1> QED BY <1>2, <1>3, <1>6 DEF before, after

\* A step of a worker that does not ask spends nothing, or what it asked for.
LEMMA SpendStep ==
  ASSUME ShellInv, SpendInv, NEW w \in Worker, NEW next, Goes(w, next), next.pc # "answer",
         \/ spent' = spent
         \/ worker[w].pc = "answer" /\ \E cost \in Costs : spent' = spent + cost
  PROVE  SpendInv'
<1> DEFINE a == Cardinality(Answering)
           b == Cardinality(Answering')
           n == Cardinality(Worker)
<1>1. /\ a \in Nat /\ b \in Nat /\ n \in Nat /\ b <= a
      /\ worker[w].pc = "answer" => a = b + 1
  BY AnsweringStep
<1>2. spent \in Nat /\ spent' \in Nat
  BY CostAssumption DEF SpendInv
<1>3. ASSUME NEW c \in Costs, \A d \in Costs : d <= c
      PROVE  spent' + c * b < Ceiling + c * n
  <2>1. spent + c * a < Ceiling + c * n
    BY <1>3 DEF SpendInv
  <2>2. c \in Nat /\ Ceiling \in Nat
    BY CostAssumption
  <2>3. /\ c * a \in Nat /\ c * b \in Nat /\ c * b <= c * a /\ c * (b + 1) = c * b + c
    BY <1>1, <2>2, Products
  <2>4. c * n \in Nat
    BY <1>1, <2>2, Products
  <2> DEFINE ca == c * a
             cb == c * b
             cn == c * n
  <2>5. spent' = spent \/ (worker[w].pc = "answer" /\ spent' <= spent + c)
    BY <1>2, <1>3, <2>2, CostAssumption
  <2>6. worker[w].pc = "answer" => ca = cb + c
    BY <1>1, <2>3
  <2> HIDE DEF a, b, n, ca, cb, cn
  <2>7. spent' + cb < Ceiling + cn
    BY <1>2, <2>1, <2>2, <2>3, <2>4, <2>5, <2>6 DEF ca, cb, cn
  <2> QED BY <2>7 DEF cb, cn
<1> QED BY <1>2, <1>3 DEF SpendInv

\* A worker begins a call while the ceiling is not reached.
LEMMA AskStep ==
  ASSUME ShellInv, SpendInv, NEW w \in Worker, NEW next, Goes(w, next), ~Exceeded, spent' = spent
  PROVE  SpendInv'
<1> DEFINE b == Cardinality(Answering')
           n == Cardinality(Worker)
<1>1. b \in Nat /\ n \in Nat /\ b <= n
  BY AnsweringStep
<1>2. spent \in Nat /\ spent < Ceiling /\ Ceiling \in Nat
  BY CostAssumption DEF SpendInv, Exceeded
<1>3. ASSUME NEW c \in Costs
      PROVE  spent + c * b < Ceiling + c * n
  <2>1. c \in Nat
    BY CostAssumption
  <2>2. c * b \in Nat /\ c * n \in Nat /\ c * b <= c * n
    BY <1>1, <2>1, Products
  <2> DEFINE cb == c * b
             cn == c * n
  <2> HIDE DEF cb, cn
  <2>3. spent + cb < Ceiling + cn
    BY <1>2, <2>2 DEF cb, cn
  <2> QED BY <2>3 DEF cb, cn
<1> QED BY <1>2, <1>3 DEF SpendInv

\* SpendIsBounded: the spend passes the ceiling by at most the calls under way
\* when it was reached, for any number of workers, because a call is begun only
\* below the ceiling (call_model, contract section 7).
THEOREM SpendBounded == Spec => []SpendIsBounded
<1>1. Init => SpendInv
  <2> SUFFICES ASSUME Init PROVE SpendInv
    OBVIOUS
  <2>1. spent = 0 /\ \A w \in Worker : worker[w] = Idle
    BY DEF Init
  <2>2. Answering = {}
    BY <2>1, IdleInv DEF Answering
  <2>3. Cardinality(Answering) = 0 /\ Cardinality(Worker) \in Nat
    BY <2>2, WorkerAssumption, FS_EmptySet, FS_CardinalityType
  <2>4. ASSUME NEW c \in Costs PROVE 0 + c * 0 < Ceiling + c * Cardinality(Worker)
    <3>1. c \in Nat /\ Ceiling \in Nat \ {0}
      BY CostAssumption
    <3>2. c * 0 \in Nat /\ c * 0 <= c * Cardinality(Worker) /\ c * Cardinality(Worker) \in Nat
      BY <2>3, <3>1, Products
    <3> DEFINE z == c * 0
               cn == c * Cardinality(Worker)
    <3> HIDE DEF z, cn
    <3>3. 0 + z < Ceiling + cn
      BY <3>1, <3>2 DEF z, cn
    <3> QED BY <3>3 DEF z, cn
  <2> QED BY <2>1, <2>3, <2>4 DEF SpendInv
<1>2. ShellInv /\ SpendInv /\ [Next]_vars => SpendInv'
  <2> SUFFICES ASSUME ShellInv, SpendInv, [Next]_vars PROVE SpendInv'
    OBVIOUS
  <2>1. CASE UNCHANGED vars
    BY <2>1, Zenon DEF vars, SpendInv, Answering
  <2>2. CASE Next
    <3>1. PICK w \in Worker : Create(w) \/ PostTurn(w) \/ Runs(w) \/ Die(w)
      BY <2>2 DEF Next
    <3> DEFINE me == worker[w]
    <3>2. me.pc # "idle" => WorkerInv(me) /\ me \in WorkerRecord
      BY Running
    <3>3. Idle \in WorkerRecord /\ Idle.pc = "idle"
      BY IdleInv DEF WorkerInv
    <3>4. CASE Create(w)
      <4>1. PICK p \in Plans :
              Goes(w, [Idle EXCEPT !.pc = "apply", !.state = initial_state(p),
                                   !.events = <<SessionStarted(0)>>])
        BY <3>4 DEF Create
      <4> DEFINE next == [Idle EXCEPT !.pc = "apply", !.state = initial_state(p),
                                      !.events = <<SessionStarted(0)>>]
      <4>2. next.pc = "apply" /\ spent' = spent
        BY <3>3, <3>4 DEF WorkerRecord, Create
      <4> QED BY <4>1, <4>2, SpendStep
    <3>5. CASE PostTurn(w)
      <4> DEFINE next == [Idle EXCEPT !.pc = "read_log", !.state = row.state]
      <4>1. next.pc = "read_log" /\ spent' = spent /\ Goes(w, next)
        BY <3>3, <3>5 DEF WorkerRecord, PostTurn
      <4> QED BY <4>1, SpendStep
    <3>6. CASE Die(w)
      <4>1. Goes(w, Idle) /\ spent' = spent
        BY <3>6 DEF Die
      <4> QED BY <3>3, <4>1, SpendStep
    <3>7. CASE ReadLog(w)
      <4>1. me \in WorkerRecord /\ spent' = spent
        BY <3>2, <3>7 DEF ReadLog
      <4> DEFINE line == Line("candidate", NextOrdinal(row.transcript))
                 events == <<CandidateTurnReceived(NextOrdinal(row.transcript), 0)>>
                 posted == [me EXCEPT !.pc = "apply", !.transcript = Append(row.transcript, line),
                                      !.events = events]
                 resumed == [me EXCEPT !.pc = "apply", !.transcript = row.transcript]
      <4>2. Goes(w, resumed) \/ Goes(w, posted)
        BY <3>7 DEF ReadLog
      <4>3. resumed.pc = "apply" /\ posted.pc = "apply"
        BY <4>1 DEF WorkerRecord
      <4> HIDE DEF posted, resumed
      <4> QED BY <4>1, <4>2, <4>3, SpendStep
    <3>8. CASE Apply(w)
      <4> DEFINE next == Executing(me, transition(me.state, Head(me.events)))
      <4>1. Goes(w, next) /\ spent' = spent /\ me.pc = "apply"
        BY <3>8 DEF Apply
      <4>2. next.pc # "answer"
        BY <3>2, <4>1, ExecutingInv
      <4> HIDE DEF next
      <4> QED BY <4>1, <4>2, SpendStep
    <3>9. CASE RecordedDecision(w)
      <4>1. Goes(w, AfterCommand(me)) /\ spent' = spent /\ me.pc = "decide"
        BY <3>9 DEF RecordedDecision
      <4>2. AfterCommand(me).pc # "answer"
        BY <3>2, <4>1, AfterCommandInv DEF WorkerInv, Holds
      <4> QED BY <4>1, <4>2, SpendStep
    <3>10. CASE Save(w)
      <4> DEFINE saved == [me EXCEPT !.grew = FALSE]
      <4>1. Goes(w, AfterCommands(saved)) /\ spent' = spent /\ me.pc = "save"
        BY <3>10 DEF Save
      <4>2. /\ saved \in WorkerRecord /\ saved.state = me.state /\ saved.events = me.events
            /\ saved.background = me.background
        BY <3>2, <4>1 DEF WorkerRecord
      <4>3. Coherent(me.state) /\ Backgrounded(me)
        BY <3>2, <4>1 DEF WorkerInv, Holds
      <4> HIDE DEF saved
      <4>4. AfterCommands(saved).pc # "answer"
        BY <4>2, <4>3, AfterCommandsInv DEF Backgrounded
      <4> QED BY <4>1, <4>4, SpendStep
    <3>11. CASE Reload(w)
      <4> DEFINE next == [me EXCEPT !.pc = "read_log", !.state = row.state]
      <4>1. Goes(w, next) /\ spent' = spent /\ me.pc = "reload"
        BY <3>11 DEF Reload
      <4>2. next.pc = "read_log"
        BY <3>2, <4>1 DEF WorkerRecord
      <4> QED BY <4>1, <4>2, SpendStep
    <3>12. ASSUME me.pc \in CallPoints, NEW e \in SessionEvent, me.background => e.kind \in BackgroundEvents
           PROVE  Outcome(me, e).pc # "answer"
      BY <3>2, <3>12, OutcomeInv DEF CallPoints
    <3>13. ASSUME me.pc \in CallPoints
           PROVE  /\ Outcome(me, OperatorAbort("cost_ceiling")).pc # "answer"
                  /\ Outcome(me, Failed(me)).pc # "answer"
                  /\ \A e \in Answers(me) : Outcome(me, e).pc # "answer"
      <4>1. WorkerInv(me)
        BY <3>2, <3>13 DEF CallPoints
      <4> QED BY <3>12, <3>13, <4>1, CallEvents
    <3>14. CASE GuardBudget(w)
      <4>1. me.pc = "guard" /\ spent' = spent
        BY <3>14 DEF GuardBudget
      <4>2. [me EXCEPT !.pc = "call"].pc = "call"
        BY <3>2, <4>1, ControlFields DEF CallPoints
      <4>3. \/ Goes(w, Outcome(me, OperatorAbort("cost_ceiling")))
            \/ Goes(w, [me EXCEPT !.pc = "call"])
        BY <3>14 DEF GuardBudget
      <4>4. Outcome(me, OperatorAbort("cost_ceiling")).pc # "answer"
        BY <3>13, <4>1 DEF CallPoints
      <4> QED BY <4>1, <4>2, <4>3, <4>4, SpendStep
    <3>15. CASE EnterCall(w)
      <4>1. me.pc = "call" /\ spent' = spent
        BY <3>15 DEF EnterCall
      <4>2. \/ Goes(w, Outcome(me, Failed(me)))
            \/ ~Exceeded /\ Goes(w, [me EXCEPT !.pc = "answer"])
        BY <3>15 DEF EnterCall
      <4>3. Outcome(me, Failed(me)).pc # "answer"
        BY <3>13, <4>1 DEF CallPoints
      <4> QED BY <4>1, <4>2, <4>3, SpendStep, AskStep
    <3>16. CASE Answer(w)
      <4>1. me.pc = "answer" /\ \E cost \in Costs : spent' = spent + cost
        BY <3>16 DEF Answer
      <4>2. PICK e \in Answers(me) : Goes(w, Outcome(me, e))
        BY <3>16 DEF Answer
      <4>3. Outcome(me, e).pc # "answer"
        BY <3>13, <4>1 DEF CallPoints
      <4> QED BY <4>1, <4>2, <4>3, SpendStep
    <3>17. CASE Miss(w)
      <4>1. me.pc = "answer" /\ \E cost \in Costs : spent' = spent + cost
        BY <3>17 DEF Miss
      <4>2. \/ Goes(w, [me EXCEPT !.pc = "call", !.tries = 1])
            \/ Goes(w, Outcome(me, Failed(me)))
        BY <3>17 DEF Miss
      <4>3. [me EXCEPT !.pc = "call", !.tries = 1].pc = "call"
        BY <3>2, <4>1 DEF WorkerRecord
      <4>4. Outcome(me, Failed(me)).pc # "answer"
        BY <3>13, <4>1 DEF CallPoints
      <4> QED BY <4>1, <4>2, <4>3, <4>4, SpendStep
    <3>18. CASE CallFails(w)
      <4>1. me.pc = "answer" /\ spent' = spent /\ Goes(w, Outcome(me, Failed(me)))
        BY <3>18 DEF CallFails
      <4>2. Outcome(me, Failed(me)).pc # "answer"
        BY <3>13, <4>1 DEF CallPoints
      <4> QED BY <4>1, <4>2, SpendStep
    <3> QED BY <3>1, <3>4, <3>5, <3>6, <3>7, <3>8, <3>9, <3>10, <3>11, <3>14, <3>15, <3>16, <3>17, <3>18 DEF Runs
  <2> QED BY <2>1, <2>2
<1>3. SpendInv => SpendIsBounded
  <2> SUFFICES ASSUME SpendInv, NEW c \in Costs, \A d \in Costs : d <= c
               PROVE  spent < Ceiling + c * Cardinality(Worker)
    BY DEF SpendIsBounded
  <2>1. IsFiniteSet(Answering) /\ IsFiniteSet(Worker)
    BY WorkerAssumption, FS_Subset DEF Answering
  <2>2. Cardinality(Answering) \in Nat /\ Cardinality(Worker) \in Nat /\ c \in Nat
        /\ Ceiling \in Nat
    BY <2>1, FS_CardinalityType, CostAssumption
  <2>3. c * Cardinality(Answering) \in Nat /\ c * Cardinality(Worker) \in Nat
    BY <2>2, Products
  <2> DEFINE ca == c * Cardinality(Answering)
             cn == c * Cardinality(Worker)
  <2>4. spent + ca < Ceiling + cn /\ spent \in Nat
    BY DEF SpendInv
  <2> HIDE DEF ca, cn
  <2>5. spent < Ceiling + cn
    BY <2>2, <2>3, <2>4 DEF ca, cn
  <2> QED BY <2>5 DEF cn
<1> QED BY <1>1, <1>2, <1>3, ShellInvariance, PTL DEF Spec

-----------------------------------------------------------------------------
\* A line more in the transcript.

\* What was said before a turn, after another line.
LEMMA SaidAppend ==
  ASSUME NEW log \in Seq(TranscriptLine), NEW line \in TranscriptLine, NEW n \in Int
  PROVE  SaidBefore(Append(log, line), n) <=>
           SaidBefore(log, n) /\ (line.role = "interviewer" => line.turn_id < n)
<1> DEFINE more == Append(log, line)
<1>1. /\ Len(log) \in Nat /\ more[Len(log) + 1] = line
      /\ \A i \in 1..Len(log) : more[i] = log[i]
  OBVIOUS
<1>2. /\ LinesOf(log, "interviewer") \subseteq 1..Len(log)
      /\ LinesOf(more, "interviewer") = IF line.role = "interviewer"
                                        THEN LinesOf(log, "interviewer") \cup {Len(log) + 1}
                                        ELSE LinesOf(log, "interviewer")
  BY LineCount
<1> HIDE DEF more
<1> QED BY <1>1, <1>2 DEF SaidBefore, more

\* The candidate's next turn, the interviewer's newest, or a script.
LEMMA OrderedAppend ==
  ASSUME NEW log \in Seq(TranscriptLine), NEW line \in TranscriptLine, Ordered(log),
         line.role = "candidate" => line.turn_id = NextOrdinal(log),
         line.role = "interviewer" => SaidBefore(log, line.turn_id)
  PROVE  Ordered(Append(log, line))
<1> DEFINE more == Append(log, line)
           said == LinesOf(log, "interviewer")
           heard == LinesOf(log, "candidate")
           said2 == LinesOf(more, "interviewer")
           heard2 == LinesOf(more, "candidate")
<1>1. /\ Len(log) \in Nat /\ more[Len(log) + 1] = line
      /\ \A i \in 1..Len(log) : more[i] = log[i]
  OBVIOUS
<1>2. /\ said \subseteq 1..Len(log) /\ heard \subseteq 1..Len(log)
      /\ said2 = IF line.role = "interviewer" THEN said \cup {Len(log) + 1} ELSE said
      /\ heard2 = IF line.role = "candidate" THEN heard \cup {Len(log) + 1} ELSE heard
  BY LineCount
<1>3. /\ \A i \in heard : log[i].turn_id = Cardinality({j \in heard : j < i})
      /\ \A i, j \in said : i < j => log[i].turn_id < log[j].turn_id
  BY DEF Ordered
<1>4. line.role = "candidate" => line.turn_id = Cardinality(heard)
  BY DEF NextOrdinal
<1>5. line.role = "interviewer" => \A i \in said : log[i].turn_id < line.turn_id
  BY DEF SaidBefore
<1> HIDE DEF more, said, heard, said2, heard2
<1>6. ASSUME NEW i \in heard2
      PROVE  more[i].turn_id = Cardinality({j \in heard2 : j < i})
  <2>1. CASE i \in heard
    <3>1. {j \in heard2 : j < i} = {j \in heard : j < i}
      BY <1>1, <1>2, <2>1
    <3>2. more[i] = log[i]
      BY <1>1, <1>2, <2>1
    <3> QED BY <1>3, <2>1, <3>1, <3>2
  <2>2. CASE i \notin heard
    <3>1. line.role = "candidate" /\ i = Len(log) + 1
      BY <1>2, <1>6, <2>2
    <3>2. {j \in heard2 : j < i} = heard
      <4>1. heard2 = heard \cup {i} /\ ~(i < i)
        BY <1>1, <1>2, <3>1
      <4>2. \A j \in heard : j < i
        BY <1>1, <1>2, <3>1
      <4> QED BY <4>1, <4>2
    <3> QED BY <1>1, <1>4, <3>1, <3>2
  <2> QED BY <2>1, <2>2
<1>7. ASSUME NEW i \in said2, NEW j \in said2, i < j
      PROVE  more[i].turn_id < more[j].turn_id
  <2>1. i \in said
    <3>1. j <= Len(log) + 1 /\ (i \in said \/ i = Len(log) + 1) /\ j \in Nat
      BY <1>1, <1>2, <1>7
    <3> QED BY <1>1, <1>7, <3>1
  <2>2. CASE j \in said
    BY <1>1, <1>2, <1>3, <1>7, <2>1, <2>2
  <2>3. CASE j \notin said
    <3>1. line.role = "interviewer" /\ j = Len(log) + 1
      BY <1>2, <1>7, <2>3
    <3>2. more[i] = log[i] /\ more[j] = line
      BY <1>1, <1>2, <2>1, <3>1
    <3> QED BY <1>5, <2>1, <3>1, <3>2
  <2> QED BY <2>2, <2>3
<1> QED BY <1>6, <1>7 DEF Ordered, more, said2, heard2

-----------------------------------------------------------------------------
\* One worker: what it holds against the row.

\* Past its commands a worker goes on with the row it has just written.
LEMMA AfterCommandsQuiet ==
  ASSUME NEW me \in WorkerRecord, NEW at, me.state = at.state, me.transcript = at.transcript,
         Len(me.events) <= 1, me.events # <<>> => me.events[1].kind # "candidate_turn",
         ~me.grew, me.background => me.task = NoTask
  PROVE  LET next == AfterCommands(me)
         IN  InStep(next, at) /\ LogInv(next, at) /\ next.pc \in {"apply", "guard", "idle"}
<1>1. CASE me.events # <<>>
  <2> DEFINE next == [me EXCEPT !.pc = "apply"]
  <2>1. /\ next.pc = "apply" /\ next.state = me.state /\ next.task = me.task
        /\ next.events = me.events /\ next.transcript = me.transcript
        /\ next.background = me.background /\ next.grew = me.grew
    BY ControlFields
  <2>2. AfterCommands(me) = next
    BY <1>1 DEF AfterCommands
  <2> HIDE DEF next
  <2> QED BY <1>1, <2>1, <2>2 DEF InStep, LogInv, Posted, Holds, CallPoints
<1>2. CASE me.events = <<>> /\ me.task # NoTask
  <2> DEFINE next == [Idle EXCEPT !.pc = "guard", !.background = TRUE, !.call = me.task, !.task = NoTask]
  <2>1. /\ next.pc = "guard" /\ next.background = TRUE /\ next.events = <<>> /\ next.grew = FALSE
        /\ next.task = NoTask
    BY DEF Idle
  <2>2. AfterCommands(me) = next
    BY <1>2 DEF AfterCommands
  <2>3. Len(<<>>) = 0
    OBVIOUS
  <2> HIDE DEF next
  <2> QED BY <2>1, <2>2, <2>3 DEF InStep, LogInv, Posted, Holds, CallPoints
<1>3. CASE me.events = <<>> /\ me.task = NoTask
  <2>1. AfterCommands(me) = Idle
    BY <1>3 DEF AfterCommands
  <2>2. Idle.pc = "idle" /\ ~Idle.background /\ Idle.events = <<>> /\ ~Idle.grew /\ Len(<<>>) = 0
    BY DEF Idle
  <2> QED BY <2>1, <2>2 DEF InStep, LogInv, Posted, Holds, CallPoints
<1> QED BY <1>1, <1>2, <1>3

\* So does one whose call has come to its outcome.
LEMMA OutcomeQuiet ==
  ASSUME NEW me \in WorkerRecord, NEW at, InStep(me, at), LogInv(me, at), me.pc \in CallPoints,
         NEW e \in SessionEvent, e.kind # "candidate_turn"
  PROVE  LET next == Outcome(me, e)
         IN  InStep(next, at) /\ LogInv(next, at) /\ next.pc \in {"reload", "apply", "guard", "idle"}
<1>1. me.events = <<>> /\ ~me.grew /\ (me.background => me.task = NoTask)
  BY DEF InStep, CallPoints, WorkerRecord
<1>2. <<e>> \in Seq(SessionEvent) /\ Len(<<e>>) = 1 /\ <<e>>[1] = e /\ Append(<<>>, e) = <<e>>
  OBVIOUS
<1>3. CASE me.background
  <2> DEFINE next == [me EXCEPT !.pc = "reload", !.events = <<e>>]
  <2>1. /\ next.pc = "reload" /\ next.background = me.background /\ next.events = <<e>>
        /\ next.grew = me.grew /\ next.task = me.task
    BY <1>2 DEF WorkerRecord
  <2>2. Outcome(me, e) = next
    BY <1>3 DEF Outcome
  <2> HIDE DEF next
  <2>3. InStep(next, at)
    BY <1>1, <1>2, <1>3, <2>1 DEF InStep, Holds, CallPoints
  <2>4. LogInv(next, at)
    BY <2>1 DEF LogInv, Posted, CallPoints
  <2> QED BY <2>1, <2>2, <2>3, <2>4
<1>4. CASE ~me.background
  <2> DEFINE next == [me EXCEPT !.events = Append(@, e)]
  <2>1. /\ next \in WorkerRecord /\ next.events = <<e>> /\ next.state = me.state
        /\ next.transcript = me.transcript /\ next.grew = me.grew /\ next.task = me.task
        /\ next.background = me.background
    BY <1>1, <1>2 DEF WorkerRecord
  <2>2. me.state = at.state /\ me.transcript = at.transcript
    BY <1>4 DEF InStep, LogInv, Holds
  <2>3. Outcome(me, e) = AfterCommands(next)
    BY <1>1, <1>4, <2>1 DEF Outcome, AfterCommand
  <2> HIDE DEF next
  <2>4. /\ next.state = at.state /\ next.transcript = at.transcript /\ Len(next.events) <= 1
        /\ next.events[1].kind # "candidate_turn" /\ ~next.grew /\ ~next.background
    BY <1>1, <1>2, <1>4, <2>1, <2>2
  <2>5. InStep(AfterCommands(next), at) /\ LogInv(AfterCommands(next), at)
        /\ AfterCommands(next).pc \in {"apply", "guard", "idle"}
    BY <2>1, <2>4, AfterCommandsQuiet
  <2> QED BY <2>3, <2>5
<1> QED BY <1>3, <1>4

\* An event's commands ask the outside for one thing at most, so that the worker
\* is next where that thing is done, and the row it wrote says so.
LEMMA ExecutingQuiet ==
  ASSUME NEW me, WorkerInv(me), me.pc = "apply", NEW at, InStep(me, at)
  PROVE  LET r == transition(me.state, Head(me.events))
             new == [state |-> r.new_state, transcript |-> me.transcript]
             next == Executing(me, r)
         IN  /\ InStep(next, new) /\ LogInv(next, new)
             /\ next.pc \in {"guard", "decide", "save", "apply", "idle"}
             /\ Decided(r) = IF next.pc = "decide" THEN <<next.call>> ELSE <<>>
             /\ Delivered(r) # <<>> => next.pc = "save"
             /\ next.pc = "save" => /\ r.new_state.awaiting # "none"
                                    /\ r.new_state.awaiting = "candidate" => Delivered(r) # <<>>
<1> DEFINE e == Head(me.events)
           r == transition(me.state, e)
           t == r.new_state
           p == t.pending_command
           new == [state |-> t, transcript |-> me.transcript]
           heard == Heard(me, r)
           next == Executing(me, r)
           log == me.transcript \o Said(r)
<1>1. /\ Coherent(me.state) /\ me.events \in Seq(SessionEvent) /\ me.events # <<>>
      /\ me.transcript \in Seq(TranscriptLine) /\ Backgrounded(me) /\ Len(me.events) <= 1
      /\ ~me.grew /\ (me.background => me.task = NoTask)
  BY DEF WorkerInv, Holds, Informed, WorkerRecord, InStep
<1>2. /\ e \in SessionEvent /\ Tail(me.events) = <<>> /\ e = me.events[1] /\ 1 \in DOMAIN me.events
  BY <1>1
<1>3. /\ Coherent(t) /\ Step(me.state, r) /\ Booked(me.state, e, r)
      /\ \A i \in DOMAIN r.commands : Promise(t, r.commands[i])
  BY <1>1, <1>2, CoreStep DEF Sound
<1>4. /\ heard \in WorkerRecord /\ heard.state = t /\ heard.transcript = log
      /\ heard.background = me.background /\ heard.grew = (Said(r) # <<>>)
      /\ heard.task = (IF Asked(r) = <<>> THEN me.task ELSE Asked(r)[1])
      /\ heard.events = (IF Emitted(r, "closing") = <<>> THEN <<>> ELSE Append(<<>>, TimerTick(0)))
  BY <1>2, HeardInv
<1>5. /\ Decided(r) = <<>> \/ \E d \in DecisionCall : Decided(r) = <<d>>
      /\ me.background => Inward(r)
  BY HeardInv
<1>6. /\ \/ Said(r) = <<>> /\ log = me.transcript
         \/ \E role \in {"system", "interviewer"} :
              /\ role = "interviewer" <=> p.kind = "deliver_utterance"
              /\ p.kind \in {"opening", "closing", "deliver_utterance"}
              /\ Line(role, p.turn_id) \in TranscriptLine
              /\ log = Append(me.transcript, Line(role, p.turn_id)) /\ Said(r) # <<>>
  BY <1>1, <1>2, SaidLines
<1>7. me.background => Asked(r) = <<>>
  <2>1. me.background => e.kind # "candidate_turn"
    BY <1>1, <1>2 DEF Backgrounded, BackgroundEvents, AssessorEvents
  <2> QED BY <1>3, <2>1 DEF Booked, Keeps, Asks, Hears
<1> HIDE DEF e, r
<1>8. /\ \/ Said(r) = <<>> /\ Emitted(r, "closing") = <<>> /\ Delivered(r) = <<>>
         \/ /\ p.kind \in {"opening", "closing", "deliver_utterance"} /\ Said(r) # <<>>
            /\ Delivered(r) # <<>> <=> p.kind = "deliver_utterance"
            /\ Emitted(r, "run_interviewer") = <<>>
      /\ Emitted(r, "run_interviewer") \in {<<>>, <<p>>}
      /\ Emitted(r, "run_interviewer") = <<p>> => p.kind = "run_interviewer"
  <2>1. <<p>> # <<>> /\ \A x : <<x>> # <<>>
    OBVIOUS
  <2>2. /\ Emitted(r, "run_interviewer") \in {<<>>, <<p>>}
        /\ Emitted(r, "run_interviewer") = <<p>> => p.kind = "run_interviewer"
    BY <1>3, SaidOnce
  <2>3. \/ Said(r) = <<>> /\ Emitted(r, "closing") = <<>> /\ Emitted(r, "deliver_utterance") = <<>>
        \/ /\ p.kind \in {"opening", "closing", "deliver_utterance"} /\ Said(r) # <<>>
           /\ Emitted(r, p.kind) = <<p>>
           /\ \A k \in {"opening", "closing", "deliver_utterance"} : k # p.kind => Emitted(r, k) = <<>>
    <3> HIDE DEF p
    <3>1. \A k \in {"opening", "closing", "deliver_utterance"} :
            k \in {"closing", "deliver_utterance"} => TRUE
      OBVIOUS
    <3> QED BY <1>3, SaidOnce, <2>1 DEF p
  <2> HIDE DEF p
  <2> QED BY <2>1, <2>2, <2>3 DEF Delivered
<1>9. Decided(r) # <<>> => p = NoCommand /\ p.kind = "none"
  <2>1. NoCommand.kind = "none"
    BY CommandKinds
  <2> QED BY <1>3, <2>1 DEF Step, Quiet, Retries, Delivers, Moves, Ends, Silent
<1>10. TurnTakingIn(t)
  BY <1>3 DEF Coherent
<1>11. /\ t.awaiting = "candidate" <=> p.kind = "deliver_utterance"
       /\ t.awaiting = "none" => p.kind = "none"
  BY <1>10, CommandKinds DEF TurnTakingIn
<1>12. Len(<<>>) = 0 /\ Len(Append(<<>>, TimerTick(0))) = 1 /\ \A x : <<x>>[1] = x
  OBVIOUS
<1>13. new.state = t /\ new.transcript = me.transcript
  OBVIOUS
<1> DEFINE Good == /\ InStep(next, new) /\ LogInv(next, new)
                   /\ next.pc \in {"guard", "decide", "save", "apply", "idle"}
                   /\ Decided(r) = IF next.pc = "decide" THEN <<next.call>> ELSE <<>>
                   /\ Delivered(r) # <<>> => next.pc = "save"
                   /\ next.pc = "save" => /\ t.awaiting # "none"
                                          /\ t.awaiting = "candidate" => Delivered(r) # <<>>
<1> HIDE DEF heard, log, new, p, t
<1>14. ASSUME Emitted(r, "run_interviewer") # <<>>
       PROVE  Good
  <2>1. /\ Emitted(r, "run_interviewer") = <<p>> /\ p.kind = "run_interviewer"
        /\ Said(r) = <<>> /\ Emitted(r, "closing") = <<>> /\ Delivered(r) = <<>> /\ Decided(r) = <<>>
    BY <1>8, <1>9, <1>14
  <2>2. ~me.background
    BY <1>5, <1>14, EmittedNone DEF Inward, OutboundKinds
  <2>3. next = [heard EXCEPT !.pc = "guard", !.call = p, !.tries = 0]
    BY <1>12, <1>14, <2>1 DEF Executing, heard
  <2> HIDE DEF next
  <2>4. /\ next.pc = "guard" /\ next.call = p /\ next.state = t /\ next.transcript = log
        /\ next.background = me.background /\ next.events = <<>> /\ next.grew = FALSE
        /\ next.task = heard.task
    BY <1>4, <2>1, <2>3 DEF WorkerRecord
  <2>5. InStep(next, new)
    BY <1>12, <1>13, <2>2, <2>4 DEF InStep, Holds, CallPoints, p
  <2>6. LogInv(next, new)
    BY <1>6, <1>13, <2>1, <2>4 DEF LogInv, Posted, CallPoints
  <2> QED BY <2>1, <2>4, <2>5, <2>6
<1>15. ASSUME Decided(r) # <<>>
       PROVE  Good
  <2>1. PICK d \in DecisionCall : Decided(r) = <<d>>
    BY <1>5, <1>15
  <2>2. /\ Emitted(r, "run_interviewer") = <<>>
        /\ Said(r) = <<>> /\ Emitted(r, "closing") = <<>> /\ Delivered(r) = <<>>
    BY <1>8, <1>9, <1>15
  <2>3. next = [heard EXCEPT !.pc = "decide", !.call = d]
    BY <1>12, <1>15, <2>1, <2>2 DEF Executing, Decided, heard
  <2> HIDE DEF next
  <2>4. /\ next.pc = "decide" /\ next.call = d /\ next.state = t /\ next.transcript = log
        /\ next.background = me.background /\ next.events = <<>> /\ next.grew = FALSE
        /\ next.task = heard.task
    BY <1>4, <2>2, <2>3 DEF WorkerRecord
  <2>5. InStep(next, new)
    BY <1>1, <1>4, <1>7, <1>12, <1>13, <2>4 DEF InStep, Holds, CallPoints
  <2>6. LogInv(next, new)
    BY <1>6, <1>13, <2>2, <2>4 DEF LogInv, Posted, CallPoints
  <2> QED BY <2>1, <2>2, <2>4, <2>5, <2>6
<1>16. ASSUME Emitted(r, "run_interviewer") = <<>> /\ Decided(r) = <<>> /\ Said(r) # <<>>
       PROVE  Good
  <2>1. next = [heard EXCEPT !.pc = "save"]
    BY <1>4, <1>16 DEF Executing, AfterCommand, Decided, heard
  <2>2. ~me.background
    <3>1. p.kind \in {"opening", "closing", "deliver_utterance"}
      BY <1>8, <1>16
    <3>2. me.background => \A k \in {"opening", "closing", "deliver_utterance"} : Emitted(r, k) = <<>>
      BY <1>5, EmittedNone DEF Inward, OutboundKinds
    <3>3. Emitted(r, p.kind) = <<p>> /\ <<p>> # <<>>
      BY <1>3, <1>16, SaidOnce DEF p, t
    <3> QED BY <3>1, <3>2, <3>3
  <2> HIDE DEF next
  <2>3. /\ next.pc = "save" /\ next.state = t /\ next.transcript = log /\ next.grew
        /\ next.background = me.background /\ next.events = heard.events /\ next.task = heard.task
    BY <1>4, <1>16, <2>1, ControlFields
  <2>4. InStep(next, new)
    <3>1. TimerTick(0).kind # "candidate_turn" /\ Append(<<>>, TimerTick(0))[1] = TimerTick(0)
      BY DEF TimerTick
    <3> QED BY <1>4, <1>12, <1>13, <2>2, <2>3, <3>1 DEF InStep, Holds, CallPoints
  <2>5. LogInv(next, new)
    <3>1. PICK role \in {"system", "interviewer"} :
              /\ role = "interviewer" <=> p.kind = "deliver_utterance"
              /\ Line(role, p.turn_id) \in TranscriptLine
              /\ log = Append(me.transcript, Line(role, p.turn_id))
      BY <1>6, <1>16
    <3> QED BY <1>11, <1>13, <2>3, <3>1 DEF LogInv, Posted, CallPoints, p
  <2> QED BY <1>8, <1>11, <1>16, <2>3, <2>4, <2>5
<1>17. ASSUME Emitted(r, "run_interviewer") = <<>> /\ Decided(r) = <<>> /\ Said(r) = <<>>
       PROVE  Good
  <2>1. next = AfterCommands(heard)
    BY <1>4, <1>17 DEF Executing, AfterCommand, Decided, heard
  <2>2. Emitted(r, "closing") = <<>> /\ Delivered(r) = <<>> /\ log = me.transcript
    BY <1>6, <1>8, <1>17
  <2> HIDE DEF next
  <2>3. /\ heard.state = new.state /\ heard.transcript = new.transcript /\ heard.events = <<>>
        /\ ~heard.grew /\ Len(heard.events) <= 1
        /\ heard.background => heard.task = NoTask
    <3>1. heard.background => heard.task = NoTask
      BY <1>1, <1>4, <1>7
    <3>2. heard.events = <<>> /\ ~heard.grew
      BY <1>4, <1>17, <2>2
    <3> QED BY <1>4, <1>12, <1>13, <2>2, <3>1, <3>2
  <2>4. /\ InStep(AfterCommands(heard), new) /\ LogInv(AfterCommands(heard), new)
        /\ AfterCommands(heard).pc \in {"apply", "guard", "idle"}
    BY <1>4, <2>3, AfterCommandsQuiet
  <2> QED BY <1>17, <2>1, <2>2, <2>4
<1>18. Good
  BY <1>14, <1>15, <1>16, <1>17
<1> QED BY <1>18 DEF new, t, r, e

-----------------------------------------------------------------------------
\* One worker: what an event does to the dialog, the decision and the
\* assessments.

\* What was said before an earlier move was said before a later one.
LEMMA SaidLater ==
  ASSUME NEW log \in Seq(TranscriptLine), NEW m \in Int, NEW n \in Int, m <= n, SaidBefore(log, m)
  PROVE  SaidBefore(log, n)
<1> SUFFICES ASSUME NEW i \in LinesOf(log, "interviewer") PROVE log[i].turn_id < n
  BY DEF SaidBefore
<1>1. i \in DOMAIN log
  BY DEF LinesOf
<1>2. log[i] \in TranscriptLine
  BY <1>1
<1>3. log[i].turn_id \in Int
  BY <1>2 DEF TranscriptLine
<1>4. log[i].turn_id < m
  BY DEF SaidBefore
<1> QED BY <1>3, <1>4

\* The dialog after an event, where the transcript has perhaps the candidate's
\* turn more and saving says whether another line is about to be saved.
LEMMA DialogStep ==
  ASSUME NEW s, Coherent(s), NEW r, Step(s, r),
         NEW log \in Seq(TranscriptLine), NEW more \in Seq(TranscriptLine),
         \/ more = log
         \/ \E line \in TranscriptLine : /\ line.role = "candidate" /\ line.turn_id = NextOrdinal(log)
                                         /\ more = Append(log, line),
         Ordered(log), SaidBefore(log, s.turn_seq),
         s.awaiting = "interviewer" => SaidBefore(log, s.turn_seq - 1),
         NEW saving \in BOOLEAN, Delivered(r) # <<>> => saving,
         saving => /\ r.new_state.awaiting # "none"
                   /\ r.new_state.awaiting = "candidate" => Delivered(r) # <<>>
  PROVE  LET t == r.new_state
         IN  /\ Ordered(more) /\ SaidBefore(more, t.turn_seq)
             /\ t.awaiting = "interviewer" \/ saving => SaidBefore(more, t.turn_seq - 1)
             /\ t.awaiting = "candidate" =>
                  saving \/ (s.awaiting = "candidate" /\ t.pending_command = s.pending_command)
<1> DEFINE t == r.new_state
           n == s.turn_seq
<1>1. n \in Nat
  BY DEF Coherent, SessionState
<1>2. Ordered(more)
  BY OrderedAppend
<1>3. \A m \in Int : SaidBefore(log, m) => SaidBefore(more, m)
  BY SaidAppend
<1>4. SaidBefore(more, n) /\ SaidBefore(more, n + 1)
      /\ (s.awaiting = "interviewer" => SaidBefore(more, n - 1))
  <2>1. n \in Int /\ n - 1 \in Int /\ n + 1 \in Int /\ n <= n + 1
    BY <1>1
  <2> HIDE DEF n
  <2>2. SaidBefore(more, n)
    BY <1>3, <2>1 DEF n
  <2>3. SaidBefore(more, n + 1)
    BY <2>1, <2>2, SaidLater
  <2>4. s.awaiting = "interviewer" => SaidBefore(more, n - 1)
    BY <1>3, <2>1 DEF n
  <2> QED BY <2>2, <2>3, <2>4
<1>5. s.awaiting = "candidate" <=> s.pending_command.kind = "deliver_utterance"
  BY DEF Coherent, TurnTakingIn
<1>6. (n + 1) - 1 = n
  BY <1>1
<1> DEFINE Good == /\ SaidBefore(more, t.turn_seq)
                   /\ t.awaiting = "interviewer" \/ saving => SaidBefore(more, t.turn_seq - 1)
                   /\ t.awaiting = "candidate" =>
                        saving \/ (s.awaiting = "candidate" /\ t.pending_command = s.pending_command)
<1>7. ASSUME Quiet(s, r) PROVE Good
  <2>1. /\ t.awaiting = s.awaiting /\ t.turn_seq = n /\ Delivered(r) = <<>>
        /\ t.pending_command = s.pending_command
    BY <1>7 DEF Quiet, Silent
  <2>2. saving => t.awaiting = "interviewer"
    <3>1. t.awaiting \in {"none", "interviewer", "candidate"}
      BY <2>1 DEF Coherent, SessionState
    <3> QED BY <2>1, <3>1
  <2> HIDE DEF t, n
  <2> QED BY <1>4, <2>1, <2>2
<1>8. ASSUME Retries(s, r) PROVE Good
  <2>1. /\ t.awaiting = s.awaiting /\ t.turn_seq = n /\ Delivered(r) = <<>>
        /\ s.pending_command.kind = "run_interviewer"
    BY <1>8 DEF Retries, Silent
  <2>2. s.awaiting # "candidate"
    BY <1>5, <2>1
  <2>3. saving => t.awaiting = "interviewer"
    <3>1. t.awaiting \in {"none", "interviewer", "candidate"}
      BY <2>1 DEF Coherent, SessionState
    <3> QED BY <2>1, <3>1
  <2> HIDE DEF t, n
  <2> QED BY <1>4, <2>1, <2>2, <2>3
<1>9. ASSUME Delivers(s, r) PROVE Good
  <2>1. t.turn_seq = n /\ s.awaiting = "interviewer" /\ Delivered(r) # <<>>
    <3>1. t.turn_seq = n /\ s.awaiting = "interviewer" /\ \E c : Delivered(r) = <<c>>
      BY <1>9 DEF Delivers, InFlight
    <3> QED BY <3>1
  <2> HIDE DEF t, n
  <2> QED BY <1>4, <2>1
<1>10. ASSUME NEW from, NEW to, NEW kind, Moves(s, r, from, to, kind) PROVE Good
  <2>1. t.turn_seq = n + 1 /\ t.awaiting = "interviewer"
    BY <1>10 DEF Moves
  <2> HIDE DEF t
  <2>2. t.turn_seq - 1 = n
    BY <1>6, <2>1
  <2> HIDE DEF n
  <2> QED BY <1>4, <2>1, <2>2
<1>11. ASSUME NEW to, NEW reason, NEW decision, Ends(s, r, to, reason, decision) PROVE Good
  <2>1. t.turn_seq = n /\ t.awaiting = "none"
    BY <1>11 DEF Ends
  <2>2. ~saving
    BY <2>1
  <2> HIDE DEF t, n
  <2> QED BY <1>4, <2>1, <2>2
<1> HIDE DEF Good
<1>12. Good
  BY <1>7, <1>8, <1>9, <1>10, <1>11 DEF Step
<1> QED BY <1>2, <1>12 DEF Good

\* A session that is over hears nothing, and a decision is how it gets there.
LEMMA EndStep ==
  ASSUME NEW s, Coherent(s), NEW e \in SessionEvent
  PROVE  LET r == transition(s, e)
             t == r.new_state
         IN  /\ s.phase \in TerminalPhases => t = s /\ Decided(r) = <<>>
             /\ s.phase \notin TerminalPhases => (t.phase \in TerminalPhases <=> Decided(r) # <<>>)
             /\ Decided(r) # <<>> =>
                  /\ Decided(r)[1].reason = "completed" => t.phase = "completed"
                  /\ t.abort_reason \in AbortReason \cup {"none"}
<1> DEFINE r == transition(s, e)
           t == r.new_state
<1>1. Step(s, r) /\ t.abort_reason \in AbortReason \cup {"none"}
  BY CoreStep DEF Sound, Coherent, SessionState
<1>2. ASSUME s.phase \in TerminalPhases PROVE t = s /\ Decided(r) = <<>>
  <2>1. r = Result(s, <<>>)
    BY <1>2 DEF transition, ignore
  <2>2. Result(s, <<>>).new_state = s
    BY DEF Result
  <2> QED BY <2>1, <2>2, EmittedEmpty DEF Decided
<1> HIDE DEF r
<1>3. ASSUME s.phase \notin TerminalPhases
      PROVE  /\ t.phase \in TerminalPhases <=> Decided(r) # <<>>
             /\ Decided(r) # <<>> => (Decided(r)[1].reason = "completed" => t.phase = "completed")
  <2>1. ASSUME NEW to, NEW reason, NEW decision, Ends(s, r, to, reason, decision)
        PROVE  t.phase = to /\ Decided(r) # <<>> /\ Decided(r)[1].reason = decision
    <3>1. Decided(r) = <<RecordDecision(decision)>> /\ t.phase = to
      BY <2>1 DEF Ends
    <3>2. RecordDecision(decision).reason = decision
      BY DEF RecordDecision
    <3> QED BY <3>1, <3>2
  <2>2. ASSUME NEW from, NEW to, NEW kind, Moves(s, r, from, to, kind)
        PROVE  t.phase = to /\ Decided(r) = <<>>
    BY <2>2 DEF Moves, Silent
  <2>3. Quiet(s, r) \/ Retries(s, r) \/ Delivers(s, r) => t.phase = s.phase /\ Decided(r) = <<>>
    BY DEF Quiet, Retries, Delivers, Silent
  <2> HIDE DEF t
  <2> QED BY <1>1, <1>3, <2>1, <2>2, <2>3 DEF Step, TerminalPhases
<1> QED BY <1>1, <1>2, <1>3 DEF r

\* Turns and assessments name a turn of the candidate's.
LEMMA EventTurns ==
  ASSUME NEW e \in SessionEvent, e.kind \in {"candidate_turn"} \cup AssessorEvents
  PROVE  e.turn_id \in TurnId
<1>1. CASE e.kind = "candidate_turn"
  <2>1. PICK t \in TurnId, now \in Int : e = CandidateTurnReceived(t, now)
    BY <1>1 DEF SessionEvent, SessionStarted, InterviewerReplyReady, InterviewerFailed,
               AssessmentCompleted, AssessmentFailed, TimerTick, Reconnected, OperatorAbort
  <2> QED BY <2>1 DEF CandidateTurnReceived
<1>2. CASE e.kind = "assessment_completed"
  <2>1. PICK t \in TurnId, out \in AssessorOutput : e = AssessmentCompleted(t, out)
    BY <1>2 DEF SessionEvent, SessionStarted, InterviewerReplyReady, InterviewerFailed,
               CandidateTurnReceived, AssessmentFailed, TimerTick, Reconnected, OperatorAbort
  <2> QED BY <2>1 DEF AssessmentCompleted
<1>3. CASE e.kind = "assessment_failed"
  <2>1. PICK t \in TurnId : e = AssessmentFailed(t)
    BY <1>3 DEF SessionEvent, SessionStarted, InterviewerReplyReady, InterviewerFailed,
               CandidateTurnReceived, AssessmentCompleted, TimerTick, Reconnected, OperatorAbort
  <2> QED BY <2>1 DEF AssessmentFailed
<1> QED BY <1>1, <1>2, <1>3 DEF AssessorEvents

\* The event one worker applies is applied to the row as it is, and the
\* transcript it holds is the row's, or has the candidate's turn more.
LEMMA ApplyFacts ==
  ASSUME ShellInv, NEW w \in Worker, Apply(w), Together(worker[w])
  PROVE  LET me == worker[w]
             e == Head(me.events)
             s == row.state
             log == row.transcript
             r == transition(s, e)
         IN  /\ WorkerInv(me) /\ me.pc = "apply" /\ InStep(me, row) /\ me.state = s
             /\ row # NoRow /\ Coherent(s) /\ log \in Seq(TranscriptLine) /\ e \in SessionEvent
             /\ me.transcript \in Seq(TranscriptLine)
             /\ Goes(w, Executing(me, r))
             /\ row' = [state |-> r.new_state, transcript |-> me.transcript]
             /\ \/ e.kind # "candidate_turn" /\ me.transcript = log
                \/ /\ e.kind = "candidate_turn" /\ e.turn_id = NextOrdinal(log) /\ e.turn_id \in TurnId
                   /\ \E line \in TranscriptLine :
                        /\ line.role = "candidate" /\ line.turn_id = NextOrdinal(log)
                        /\ me.transcript = Append(log, line)
<1> DEFINE me == worker[w]
           e == Head(me.events)
           line == Line("candidate", NextOrdinal(row.transcript))
<1>1. me.pc = "apply" /\ row' = Written(me, transition(me.state, e)) /\ Goes(w, Executing(me, transition(me.state, e)))
  BY DEF Apply
<1>2. /\ WorkerInv(me) /\ row # NoRow /\ Coherent(row.state) /\ row.transcript \in Seq(TranscriptLine)
      /\ me.transcript \in Seq(TranscriptLine) /\ NextOrdinal(row.transcript) \in Nat
  BY <1>1, Running DEF WorkerRecord
<1>3. me.state = row.state /\ InStep(me, row) /\ LogInv(me, row)
  BY <1>1 DEF Together, InStep, Holds
<1>4. me.events # <<>> /\ me.events \in Seq(SessionEvent)
  BY <1>1, <1>2 DEF WorkerInv, Informed, WorkerRecord
<1>5. e \in SessionEvent /\ e = me.events[1]
  BY <1>4
<1>6. line \in TranscriptLine /\ line.role = "candidate" /\ line.turn_id = NextOrdinal(row.transcript)
  BY <1>2 DEF Line, TranscriptLine
<1>7. e.kind # "candidate_turn" => me.transcript = row.transcript
  BY <1>1, <1>3, <1>5 DEF LogInv, Posted
<1>8. e.kind = "candidate_turn" =>
        e.turn_id = NextOrdinal(row.transcript) /\ me.transcript = Append(row.transcript, line)
  BY <1>1, <1>3, <1>5 DEF LogInv, Posted
<1>9. e.kind = "candidate_turn" => e.turn_id \in TurnId
  BY <1>5, EventTurns
<1> HIDE DEF e, line
<1> QED BY <1>1, <1>2, <1>3, <1>5, <1>6, <1>7, <1>8, <1>9 DEF Written, e, line

\* Lines stay where they are.
LEMMA LineKept ==
  ASSUME NEW log \in Seq(TranscriptLine), NEW more \in Seq(TranscriptLine),
         more = log \/ \E line \in TranscriptLine : more = Append(log, line)
  PROVE  \A i \in LinesOf(log, "interviewer") : i \in LinesOf(more, "interviewer") /\ more[i] = log[i]
<1>1. CASE more = log
  BY <1>1
<1>2. ASSUME NEW line \in TranscriptLine, more = Append(log, line)
      PROVE  \A i \in LinesOf(log, "interviewer") : i \in LinesOf(more, "interviewer") /\ more[i] = log[i]
  BY <1>2 DEF LinesOf
<1> QED BY <1>1, <1>2

\* After an event the worker, the decision and the dialog agree with the row.
LEMMA ApplyTogether ==
  ASSUME ShellInv, NEW w \in Worker, Apply(w), Together(worker[w]), NEW next, Goes(w, next)
  PROVE  Together(next)'
<1> DEFINE me == worker[w]
           e == Head(me.events)
           s == row.state
           log == row.transcript
           r == transition(s, e)
           t == r.new_state
           more == me.transcript
<1>1. /\ WorkerInv(me) /\ me.pc = "apply" /\ InStep(me, row) /\ me.state = s
      /\ row # NoRow /\ Coherent(s) /\ log \in Seq(TranscriptLine) /\ e \in SessionEvent
      /\ more \in Seq(TranscriptLine)
      /\ Goes(w, Executing(me, r)) /\ row' = [state |-> t, transcript |-> more]
      /\ \/ e.kind # "candidate_turn" /\ more = log
         \/ \E line \in TranscriptLine :
              /\ line.role = "candidate" /\ line.turn_id = NextOrdinal(log)
              /\ more = Append(log, line)
  BY ApplyFacts
<1>2. next = Executing(me, r)
  <2>1. worker'[w] = next /\ worker'[w] = Executing(me, r)
    BY <1>1, OneGoes DEF ShellInv
  <2> QED BY <2>1
<1>3. /\ InStep(next, row') /\ LogInv(next, row')
      /\ next.pc \in {"guard", "decide", "save", "apply", "idle"}
      /\ Decided(r) = IF next.pc = "decide" THEN <<next.call>> ELSE <<>>
      /\ Delivered(r) # <<>> => next.pc = "save"
      /\ next.pc = "save" => /\ t.awaiting # "none"
                             /\ t.awaiting = "candidate" => Delivered(r) # <<>>
  BY <1>1, <1>2, ExecutingQuiet
<1>4. /\ s.phase \in TerminalPhases => t = s /\ Decided(r) = <<>>
      /\ s.phase \notin TerminalPhases => (t.phase \in TerminalPhases <=> Decided(r) # <<>>)
      /\ Decided(r) # <<>> => (Decided(r)[1].reason = "completed" => t.phase = "completed")
  BY <1>1, EndStep
<1>5. /\ Step(s, r) /\ Coherent(t)
      /\ Decided(r) = <<>> \/ \E d \in DecisionCall : Decided(r) = <<d>>
  BY <1>1, CoreStep DEF Sound
<1>6. DecisionInv(me) /\ DialogInv(me)
  BY DEF Together
<1>7. UNCHANGED <<deaths, decisions>>
  BY DEF Apply
<1>8. row'.state = t /\ row'.transcript = more /\ row' # NoRow
  <2>1. row' \in Row
    BY <1>1, <1>5 DEF Row, Coherent
  <2> QED BY <1>1, <2>1, RowAssumption
<1> HIDE DEF r
<1>9. DecisionInv(next)'
  <2>1. (Ended' <=> t.phase \in TerminalPhases) /\ (Ended <=> s.phase \in TerminalPhases)
    BY <1>1, <1>8 DEF Ended
  <2>2. /\ deaths \in Nat
        /\ decisions = <<>> \/ decisions = <<decisions[1]>>
        /\ decisions # <<>> => s.phase \in TerminalPhases
        /\ decisions # <<>> /\ decisions[1] = "completed" => s.phase = "completed"
        /\ s.phase \in TerminalPhases /\ deaths = 0 => decisions # <<>>
    BY <1>1, <1>6, <2>1 DEF DecisionInv
  <2>3. next.pc = "decide" => /\ Decided(r) # <<>> /\ next.call \in DecisionCall
                              /\ s.phase \notin TerminalPhases /\ t.phase \in TerminalPhases
                              /\ next.call.reason = "completed" => t.phase = "completed"
    <3> SUFFICES ASSUME next.pc = "decide"
                 PROVE  /\ Decided(r) # <<>> /\ next.call \in DecisionCall
                        /\ s.phase \notin TerminalPhases /\ t.phase \in TerminalPhases
                        /\ next.call.reason = "completed" => t.phase = "completed"
      OBVIOUS
    <3>1. Decided(r) = <<next.call>> /\ Decided(r) # <<>> /\ Decided(r)[1] = next.call
      BY <1>3
    <3>2. next.call \in DecisionCall
      BY <1>5, <3>1
    <3> HIDE DEF t
    <3> QED BY <1>4, <3>1, <3>2
  <2>4. next.pc # "decide" => Decided(r) = <<>>
    BY <1>3
  <2> HIDE DEF s, t
  <2> QED BY <1>4, <1>7, <1>8, <2>1, <2>2, <2>3, <2>4 DEF DecisionInv
<1>10. DialogInv(next)'
  <2> DEFINE saving == next.pc = "save"
  <2>1. /\ Ordered(log) /\ SaidBefore(log, s.turn_seq)
        /\ s.awaiting = "interviewer" => SaidBefore(log, s.turn_seq - 1)
        /\ deaths = 0 /\ s.awaiting = "candidate" =>
             \E i \in LinesOf(log, "interviewer") : log[i].turn_id = s.pending_command.turn_id
    BY <1>1, <1>6 DEF DialogInv
  <2>2. saving \in BOOLEAN
    OBVIOUS
  <2>3. /\ Ordered(more) /\ SaidBefore(more, t.turn_seq)
        /\ t.awaiting = "interviewer" \/ saving => SaidBefore(more, t.turn_seq - 1)
        /\ t.awaiting = "candidate" =>
             saving \/ (s.awaiting = "candidate" /\ t.pending_command = s.pending_command)
    <3>1. /\ Delivered(r) # <<>> => saving
          /\ saving => /\ t.awaiting # "none"
                       /\ t.awaiting = "candidate" => Delivered(r) # <<>>
      BY <1>3
    <3>2. more = log \/ \E line \in TranscriptLine :
                          /\ line.role = "candidate" /\ line.turn_id = NextOrdinal(log)
                          /\ more = Append(log, line)
      BY <1>1
    <3> HIDE DEF saving, s, log, more
    <3> QED BY <1>1, <1>5, <2>1, <2>2, <3>1, <3>2, DialogStep
  <2>4. \A i \in LinesOf(log, "interviewer") :
          i \in LinesOf(more, "interviewer") /\ more[i] = log[i]
    BY <1>1, LineKept
  <2>5. deaths = 0 /\ t.awaiting = "candidate" =>
          saving \/ \E i \in LinesOf(more, "interviewer") : more[i].turn_id = t.pending_command.turn_id
    <3> HIDE DEF saving, s, t, log, more
    <3> QED BY <2>1, <2>3, <2>4
  <2> HIDE DEF s, t, log, more
  <2> QED BY <1>7, <1>8, <2>3, <2>5 DEF DialogInv
<1> QED BY <1>3, <1>9, <1>10 DEF Together

\* A turn is pending once it has taken its number, and not before; what is heard
\* of it is no longer pending.
LEMMA ApplyLands ==
  ASSUME ShellInv, NEW w \in Worker, Apply(w), Together(worker[w]), LandedInv
  PROVE  LandedInv'
<1> DEFINE me == worker[w]
           e == Head(me.events)
           s == row.state
           r == transition(s, e)
           t == r.new_state
           n == NextOrdinal(row.transcript)
           n2 == NextOrdinal(me.transcript)
           focus == s.assessment_focus
           focus2 == t.assessment_focus
<1>1. /\ row # NoRow /\ Coherent(s) /\ row.transcript \in Seq(TranscriptLine) /\ e \in SessionEvent
      /\ me.state = s /\ me.transcript \in Seq(TranscriptLine)
      /\ row' = [state |-> t, transcript |-> me.transcript]
      /\ \/ e.kind # "candidate_turn" /\ me.transcript = row.transcript
         \/ /\ e.kind = "candidate_turn" /\ e.turn_id = n /\ e.turn_id \in TurnId
            /\ \E line \in TranscriptLine :
                 /\ line.role = "candidate" /\ me.transcript = Append(row.transcript, line)
  BY ApplyFacts
<1>2. landed' = IF IsAssessment(e) /\ t # s THEN landed \cup {e.turn_id} ELSE landed
  BY <1>1 DEF Apply
<1>3. Booked(s, e, r) /\ Coherent(t)
  BY <1>1, CoreStep
<1>4. /\ landed \subseteq TurnId
      /\ \A x \in landed : focus[x] = NoNode
      /\ \A x \in TurnId : x >= n => x \notin landed /\ focus[x] = NoNode
  BY <1>1 DEF LandedInv
<1>5. n \in Nat /\ n2 = IF e.kind = "candidate_turn" THEN n + 1 ELSE n
  BY <1>1, OrdinalCount
<1>6. focus \in [TurnId -> Node \cup {NoNode}] /\ TurnId \subseteq Nat
  BY <1>1, PlanAssumption DEF Coherent, SessionState
<1>7. IsAssessment(e) => e.turn_id \in TurnId /\ e.kind # "candidate_turn"
  BY <1>1, EventTurns DEF IsAssessment, AssessorEvents
<1>8. row'.state = t /\ row'.transcript = me.transcript /\ row' # NoRow
  <2>1. row' \in Row
    BY <1>1, <1>3 DEF Row, Coherent
  <2> QED BY <1>1, <2>1, RowAssumption
<1> HIDE DEF r
<1> DEFINE Good == /\ landed' \subseteq TurnId
                   /\ \A x \in landed' : focus2[x] = NoNode
                   /\ \A x \in TurnId : x >= n2 => x \notin landed' /\ focus2[x] = NoNode
<1>9. ASSUME Keeps(s, e, r) PROVE Good
  <2>1. focus2 = focus /\ landed' = landed
    BY <1>2, <1>9 DEF Keeps, IsAssessment
  <2>2. \A x \in TurnId : x >= n2 => x >= n
    BY <1>5, <1>6
  <2> HIDE DEF focus, focus2, n, n2
  <2> QED BY <1>4, <2>1, <2>2
<1>10. ASSUME Asks(s, e, r) PROVE Good
  <2>1. PICK node \in Node : /\ e.kind = "candidate_turn" /\ Asked(r) = <<RunAssessor(e.turn_id, node)>>
                             /\ focus2 = [focus EXCEPT ![e.turn_id] = node]
    BY <1>10 DEF Asks
  <2>2. e.turn_id = n /\ n \in TurnId /\ n2 = n + 1 /\ landed' = landed
        /\ focus2 = [focus EXCEPT ![n] = node]
    <3>1. e.turn_id = n /\ n \in TurnId
      BY <1>1, <2>1
    <3>2. n2 = n + 1
      BY <1>5, <2>1
    <3>3. landed' = landed
      BY <1>2, <1>7, <2>1
    <3> HIDE DEF e, n, n2, focus, focus2
    <3>4. focus2 = [focus EXCEPT ![n] = node]
      BY <2>1, <3>1
    <3> QED BY <3>1, <3>2, <3>3, <3>4
  <2>3. n \in Nat /\ TurnId \subseteq Nat
    BY <1>5, <1>6
  <2> HIDE DEF focus, focus2, n, n2
  <2>4. n \notin landed
    BY <1>4, <2>2, <2>3
  <2>5. \A x \in TurnId : x # n => focus2[x] = focus[x]
    BY <1>6, <2>2
  <2> QED BY <1>4, <2>2, <2>3, <2>4, <2>5
<1>11. ASSUME Hears(s, e, r) PROVE Good
  <2>1. /\ e.kind \in AssessorEvents /\ Asked(r) = <<>> /\ focus[e.turn_id] # NoNode
        /\ focus2 = [focus EXCEPT ![e.turn_id] = NoNode]
    BY <1>11 DEF Hears, AssessorEvents
  <2>2. e.turn_id \in TurnId /\ landed' \in {landed, landed \cup {e.turn_id}} /\ n2 = n
    BY <1>1, <1>2, <1>5, <2>1, EventTurns DEF AssessorEvents
  <2> HIDE DEF focus, focus2, n, n2
  <2>3. ~(e.turn_id >= n)
    BY <1>4, <2>1, <2>2
  <2>4. \A x \in TurnId : focus2[x] = IF x = e.turn_id THEN NoNode ELSE focus[x]
    BY <1>6, <2>1
  <2>5. landed' \subseteq TurnId /\ \A x \in landed' : x \in landed \/ x = e.turn_id
    BY <1>4, <2>2
  <2> QED BY <1>4, <2>2, <2>3, <2>4, <2>5
<1> HIDE DEF Good
<1>12. Good
  BY <1>3, <1>9, <1>10, <1>11 DEF Booked
<1> QED BY <1>8, <1>12 DEF LandedInv, Good

-----------------------------------------------------------------------------
\* One worker: the other steps.

\* A recorded decision is the row's.
LEMMA RecordedTogether ==
  ASSUME ShellInv, NEW w \in Worker, RecordedDecision(w), Together(worker[w]), NEW next, Goes(w, next)
  PROVE  Together(next)'
<1> DEFINE me == worker[w]
<1>1. /\ me.pc = "decide" /\ decisions' = Append(decisions, DecisionRow(me.call, me.state))
      /\ Goes(w, AfterCommand(me)) /\ row' = row /\ deaths' = deaths
  BY DEF RecordedDecision
<1>2. /\ row # NoRow /\ Coherent(row.state) /\ WorkerInv(me) /\ me \in WorkerRecord
  BY <1>1, Running
<1>3. InStep(me, row) /\ LogInv(me, row) /\ DecisionInv(me) /\ DialogInv(me)
  BY DEF Together
<1>4. /\ me.state = row.state /\ me.transcript = row.transcript /\ me.events = <<>> /\ ~me.grew
      /\ me.background => me.task = NoTask
  BY <1>1, <1>2, <1>3 DEF InStep, LogInv, Holds, WorkerRecord
<1>5. next = AfterCommands(me)
  <2>1. worker'[w] = next /\ worker'[w] = AfterCommand(me)
    BY <1>1, OneGoes DEF ShellInv
  <2> QED BY <1>4, <2>1 DEF AfterCommand
<1>6. Len(<<>>) = 0
  OBVIOUS
<1>7. InStep(next, row) /\ LogInv(next, row) /\ next.pc \in {"apply", "guard", "idle"}
  BY <1>2, <1>4, <1>5, <1>6, AfterCommandsQuiet
<1>8. /\ Ended /\ decisions = <<>> /\ me.call \in DecisionCall /\ deaths \in Nat
      /\ me.call.reason = "completed" => row.state.phase = "completed"
  BY <1>1, <1>3 DEF DecisionInv
<1>9. /\ decisions' # <<>> /\ decisions' = <<decisions'[1]>>
      /\ decisions'[1] = DecisionRow(me.call, row.state)
  BY <1>1, <1>4, <1>8
<1>10. DecisionRow(me.call, row.state) = "completed" => row.state.phase = "completed"
  <2>1. row.state.abort_reason # "completed"
    BY <1>2 DEF Coherent, SessionState, AbortReason
  <2> QED BY <1>8, <2>1 DEF DecisionRow
<1>11. DecisionInv(next)'
  BY <1>1, <1>7, <1>8, <1>9, <1>10 DEF DecisionInv, Ended
<1>12. row.state.awaiting = "none"
  BY <1>2, <1>8 DEF Ended, Coherent, TurnTakingIn, TerminalPhases
<1>13. DialogInv(next)'
  BY <1>1, <1>2, <1>3, <1>7, <1>12 DEF DialogInv
<1> QED BY <1>1, <1>7, <1>11, <1>13 DEF Together

\* A saved line is the pending move's, and the newest.
LEMMA SaveTogether ==
  ASSUME ShellInv, NEW w \in Worker, Save(w), Together(worker[w]), LandedInv, NEW next, Goes(w, next)
  PROVE  Together(next)' /\ LandedInv'
<1> DEFINE me == worker[w]
           saved == [me EXCEPT !.grew = FALSE]
           s == row.state
           log == row.transcript
           p == s.pending_command
           more == me.transcript
<1>1. /\ me.pc = "save" /\ row' = [state |-> me.state, transcript |-> me.transcript]
      /\ Goes(w, AfterCommands(saved)) /\ UNCHANGED <<decisions, deaths, landed>>
  BY DEF Save
<1>2. /\ row # NoRow /\ row \in Row /\ Coherent(s) /\ WorkerInv(me) /\ me \in WorkerRecord
      /\ log \in Seq(TranscriptLine) /\ more \in Seq(TranscriptLine)
  BY <1>1, Running DEF WorkerRecord
<1>3. InStep(me, row) /\ LogInv(me, row) /\ DecisionInv(me) /\ DialogInv(me)
  BY DEF Together
<1>4. /\ me.state = s /\ ~me.background /\ Len(me.events) <= 1
  BY <1>1, <1>2, <1>3 DEF InStep, Holds, WorkerRecord
<1>5. PICK role \in {"system", "interviewer"} :
        /\ more = Append(log, Line(role, p.turn_id)) /\ Line(role, p.turn_id) \in TranscriptLine
        /\ role = "interviewer" <=> s.awaiting = "candidate"
  BY <1>1, <1>3 DEF LogInv
<1> DEFINE line == Line(role, p.turn_id)
<1>6. line.role = role /\ line.turn_id = p.turn_id /\ line \in TranscriptLine /\ more = Append(log, line)
      /\ p.turn_id \in Int
  <2>1. p.turn_id \in Int
    BY <1>2 DEF Coherent, SessionState, PendingCommand
  <2> QED BY <1>5, <2>1 DEF Line
<1>7. row'.state = s /\ row'.transcript = more /\ row' # NoRow
  <2>1. row' \in Row
    BY <1>1, <1>2, <1>4 DEF Row
  <2> QED BY <1>1, <1>4, <2>1, RowAssumption
<1>8. next = AfterCommands(saved)
  <2>1. worker'[w] = next /\ worker'[w] = AfterCommands(saved)
    BY <1>1, OneGoes DEF ShellInv
  <2> QED BY <2>1
<1>9. /\ saved \in WorkerRecord /\ saved.state = me.state /\ saved.transcript = more
      /\ saved.events = me.events /\ saved.background = me.background /\ saved.grew = FALSE
  BY <1>2 DEF WorkerRecord
<1>10. me.events # <<>> => me.events[1].kind # "candidate_turn"
  BY <1>1, <1>3 DEF InStep
<1> HIDE DEF saved, line
<1>11. InStep(next, row') /\ LogInv(next, row') /\ next.pc \in {"apply", "guard", "idle"}
  BY <1>4, <1>7, <1>8, <1>9, <1>10, AfterCommandsQuiet
<1>12. DecisionInv(next)'
  <2>1. Ended' <=> Ended
    BY <1>2, <1>7 DEF Ended
  <2> QED BY <1>1, <1>3, <1>7, <1>11, <2>1 DEF DecisionInv
<1>13. /\ Ordered(log) /\ SaidBefore(log, s.turn_seq) /\ SaidBefore(log, s.turn_seq - 1)
  BY <1>1, <1>2, <1>3 DEF DialogInv
<1>14. s.awaiting = "candidate" => p.turn_id = s.turn_seq - 1
  BY <1>2 DEF Coherent, TurnTakingIn
<1>15. s.turn_seq \in Nat
  BY <1>2 DEF Coherent, SessionState
<1>16. Ordered(more)
  <2> HIDE DEF log, more, s, p
  <2> QED BY <1>2, <1>5, <1>6, <1>13, <1>14, OrderedAppend
<1>17. SaidBefore(more, s.turn_seq) /\ (s.awaiting = "interviewer" => SaidBefore(more, s.turn_seq - 1))
  <2> DEFINE n == s.turn_seq
  <2>1. n \in Int /\ n - 1 \in Int /\ n - 1 < n
    BY <1>15
  <2>2. role = "interviewer" => line.turn_id = n - 1 /\ s.awaiting # "interviewer"
    BY <1>5, <1>6, <1>14
  <2> HIDE DEF n, log, more, s, p
  <2>3. SaidBefore(more, n)
    BY <1>2, <1>6, <1>13, <2>1, <2>2, SaidAppend DEF n
  <2>4. s.awaiting = "interviewer" => SaidBefore(more, n - 1)
    BY <1>2, <1>6, <1>13, <2>1, <2>2, SaidAppend DEF n
  <2> QED BY <2>3, <2>4 DEF n
<1>18. s.awaiting = "candidate" => \E i \in LinesOf(more, "interviewer") : more[i].turn_id = p.turn_id
  <2> SUFFICES ASSUME s.awaiting = "candidate"
               PROVE  \E i \in LinesOf(more, "interviewer") : more[i].turn_id = p.turn_id
    OBVIOUS
  <2>1. line.role = "interviewer"
    BY <1>5, <1>6
  <2>2. Len(log) + 1 \in LinesOf(more, "interviewer")
    <3> HIDE DEF log, more
    <3>1. LinesOf(Append(log, line), "interviewer") =
            IF line.role = "interviewer" THEN LinesOf(log, "interviewer") \cup {Len(log) + 1}
                                         ELSE LinesOf(log, "interviewer")
      BY <1>2, <1>6, LineCount
    <3> QED BY <1>6, <2>1, <3>1
  <2>3. more[Len(log) + 1] = line
    BY <1>2, <1>6
  <2> QED BY <1>6, <2>2, <2>3
<1>19. DialogInv(next)'
  <2> HIDE DEF s, log, p, more
  <2> QED BY <1>7, <1>11, <1>16, <1>17, <1>18 DEF DialogInv, p
<1>20. LandedInv'
  <2>1. NextOrdinal(more) = NextOrdinal(log)
    BY <1>2, <1>5, <1>6, OrdinalCount
  <2> QED BY <1>1, <1>2, <1>7, <2>1 DEF LandedInv
<1> QED BY <1>11, <1>12, <1>19, <1>20 DEF Together

\* A step that leaves the row, the decisions and the assessments alone, and is
\* not in the middle of a decision or a save.
LEMMA Bystander ==
  ASSUME NEW me, NEW next, Together(me), LandedInv, UNCHANGED <<row, decisions, deaths, landed>>,
         me.pc \notin {"decide", "save"}, next.pc \notin {"decide", "save"},
         InStep(next, row), LogInv(next, row)
  PROVE  Together(next)' /\ LandedInv'
<1>1. DecisionInv(me) /\ DialogInv(me)
  BY DEF Together
<1>2. DecisionInv(next)'
  BY <1>1, Zenon DEF DecisionInv, Ended
<1>3. DialogInv(next)'
  BY <1>1, Zenon DEF DialogInv
<1>4. LandedInv'
  BY Zenon DEF LandedInv
<1> QED BY <1>2, <1>3, <1>4 DEF Together

\* A turn is posted: the state is the row's.
LEMMA PostTogether ==
  ASSUME ShellInv, NEW w \in Worker, PostTurn(w), Together(worker[w]), LandedInv, NEW next, Goes(w, next)
  PROVE  Together(next)' /\ LandedInv'
<1> DEFINE posted == [Idle EXCEPT !.pc = "read_log", !.state = row.state]
<1>1. /\ worker[w] = Idle /\ Goes(w, posted)
      /\ UNCHANGED <<row, decisions, deaths, landed>>
  BY DEF PostTurn
<1>2. next = posted
  <2>1. worker'[w] = next /\ worker'[w] = posted
    BY <1>1, OneGoes DEF ShellInv
  <2> QED BY <2>1
<1>3. /\ posted.pc = "read_log" /\ posted.state = row.state /\ posted.events = <<>> /\ ~posted.grew
      /\ ~posted.background /\ Idle.pc = "idle" /\ Len(<<>>) = 0
  BY DEF Idle
<1> HIDE DEF posted
<1>4. InStep(posted, row) /\ LogInv(posted, row)
  BY <1>3 DEF InStep, LogInv, Posted, Holds, CallPoints
<1> QED BY <1>1, <1>2, <1>3, <1>4, Bystander

\* The transcript is read: the row's, and the turn takes the next number.
LEMMA ReadTogether ==
  ASSUME ShellInv, NEW w \in Worker, ReadLog(w), Together(worker[w]), LandedInv, NEW next, Goes(w, next)
  PROVE  Together(next)' /\ LandedInv'
<1> DEFINE me == worker[w]
           turn_id == NextOrdinal(row.transcript)
           log == Append(row.transcript, Line("candidate", turn_id))
           event == CandidateTurnReceived(turn_id, 0)
<1>1. me.pc = "read_log" /\ UNCHANGED <<row, decisions, deaths, landed>>
  BY DEF ReadLog
<1>2. WorkerInv(me) /\ me \in WorkerRecord
  BY <1>1, Running
<1>3. /\ me.state = row.state /\ Len(me.events) <= 1 /\ ~me.grew
      /\ me.background => me.task = NoTask
      /\ me.events # <<>> => me.events[1].kind # "candidate_turn"
  BY <1>1, <1>2 DEF Together, InStep, Holds, WorkerRecord
<1>4. me.background => me.events # <<>>
  BY <1>1, <1>2 DEF WorkerInv, Informed
<1>5. event.kind = "candidate_turn" /\ event.turn_id = turn_id
  BY DEF CandidateTurnReceived
<1>6. <<event>>[1] = event /\ Len(<<event>>) = 1
  OBVIOUS
<1>7. worker'[w] = next
  BY OneGoes DEF ShellInv
<1> DEFINE Good == InStep(next, row) /\ LogInv(next, row) /\ next.pc = "apply"
<1>8. ASSUME me.background PROVE Good
  <2> DEFINE read == [me EXCEPT !.pc = "apply", !.transcript = row.transcript]
  <2>1. Goes(w, read)
    BY <1>8 DEF ReadLog
  <2>2. next = read
    BY <1>7, <2>1, OneGoes DEF ShellInv
  <2>3. /\ read.pc = "apply" /\ read.state = me.state /\ read.background = me.background
        /\ read.events = me.events /\ read.transcript = row.transcript
        /\ read.grew = me.grew /\ read.task = me.task
    BY <1>2 DEF WorkerRecord
  <2> HIDE DEF read, me
  <2> QED BY <1>3, <1>4, <1>8, <2>2, <2>3 DEF InStep, LogInv, Posted, Holds, CallPoints
<1>9. ASSUME ~me.background PROVE Good
  <2> DEFINE read == [me EXCEPT !.pc = "apply", !.transcript = log, !.events = <<event>>]
  <2>1. Goes(w, read)
    BY <1>9 DEF ReadLog
  <2>2. next = read
    BY <1>7, <2>1, OneGoes DEF ShellInv
  <2> HIDE DEF event, log
  <2>3. /\ read.pc = "apply" /\ read.state = me.state /\ read.background = me.background
        /\ read.events = <<event>> /\ read.transcript = log
        /\ read.grew = me.grew /\ read.task = me.task
    BY <1>2 DEF WorkerRecord
  <2> HIDE DEF read, me, turn_id
  <2>4. InStep(next, row)
    BY <1>3, <1>6, <1>9, <2>2, <2>3 DEF InStep, Holds, CallPoints
  <2>5. LogInv(next, row)
    BY <1>5, <1>6, <2>2, <2>3 DEF LogInv, Posted, CallPoints, log, turn_id
  <2> QED BY <2>2, <2>3, <2>4, <2>5
<1>10. Good
  BY <1>8, <1>9
<1> HIDE DEF me
<1> QED BY <1>1, <1>10, Bystander DEF me

\* A call goes on or has its outcome.
LEMMA CallTogether ==
  ASSUME ShellInv, NEW w \in Worker, Calling(w), Together(worker[w]), LandedInv, NEW next, Goes(w, next)
  PROVE  Together(next)' /\ LandedInv'
<1> DEFINE me == worker[w]
<1>1. PICK went : Goes(w, went) /\ (Proceeds(me, went) \/ Concludes(me, went))
  BY CallSteps
<1>2. me.pc \in CallPoints /\ UNCHANGED <<row, decisions, deaths, landed>>
  BY CallSteps
<1>3. next = went
  <2>1. worker'[w] = next /\ worker'[w] = went
    BY <1>1, OneGoes DEF ShellInv
  <2> QED BY <2>1
<1>4. WorkerInv(me) /\ me \in WorkerRecord
  BY <1>2, Running DEF CallPoints
<1>5. InStep(me, row) /\ LogInv(me, row)
  BY DEF Together
<1> HIDE DEF me
<1>6. ASSUME Proceeds(me, next)
      PROVE  InStep(next, row) /\ LogInv(next, row) /\ next.pc \notin {"decide", "save"}
  <2>1. /\ next.pc \in CallPoints /\ next.background = me.background
        /\ next.state = me.state /\ next.transcript = me.transcript /\ next.events = me.events
        /\ next.call = me.call /\ next.task = me.task /\ next.grew = me.grew
    BY <1>4, <1>6, ProceedsFields
  <2> QED BY <1>2, <1>5, <2>1 DEF InStep, LogInv, Posted, Holds, CallPoints
<1>7. ASSUME Concludes(me, next)
      PROVE  InStep(next, row) /\ LogInv(next, row) /\ next.pc \notin {"decide", "save"}
  <2>1. ASSUME NEW e \in SessionEvent, next = Outcome(me, e), e.kind # "candidate_turn"
        PROVE  InStep(next, row) /\ LogInv(next, row) /\ next.pc \notin {"decide", "save"}
    BY <1>2, <1>4, <1>5, <2>1, OutcomeQuiet
  <2>2. /\ OperatorAbort("cost_ceiling").kind # "candidate_turn" /\ Failed(me).kind # "candidate_turn"
        /\ \A e \in Answers(me) : e.kind # "candidate_turn"
    <3>1. OperatorAbort("cost_ceiling").kind # "candidate_turn"
      BY DEF OperatorAbort
    <3>2. "candidate_turn" \notin BackgroundEvents
      BY DEF BackgroundEvents, AssessorEvents
    <3> QED BY <1>2, <1>4, <3>1, <3>2, CallEvents
  <2>3. /\ OperatorAbort("cost_ceiling") \in SessionEvent /\ Failed(me) \in SessionEvent
        /\ Answers(me) \subseteq SessionEvent
    BY <1>2, <1>4, CallEvents
  <2> QED BY <1>7, <2>1, <2>2, <2>3 DEF Concludes
<1>8. me.pc \notin {"decide", "save"}
  BY <1>2 DEF CallPoints
<1> QED BY <1>1, <1>2, <1>3, <1>6, <1>7, <1>8, Bystander DEF me

\* The background reloads the row.
LEMMA ReloadTogether ==
  ASSUME ShellInv, NEW w \in Worker, Reload(w), Together(worker[w]), LandedInv, NEW next, Goes(w, next)
  PROVE  Together(next)' /\ LandedInv'
<1> DEFINE me == worker[w]
           again == [me EXCEPT !.pc = "read_log", !.state = row.state]
<1>1. me.pc = "reload" /\ Goes(w, again) /\ UNCHANGED <<row, decisions, deaths, landed>>
  BY DEF Reload
<1>2. next = again
  <2>1. worker'[w] = next /\ worker'[w] = again
    BY <1>1, OneGoes DEF ShellInv
  <2> QED BY <2>1
<1>3. me \in WorkerRecord
  BY <1>1, Running
<1>4. InStep(me, row)
  BY DEF Together
<1>5. /\ again.pc = "read_log" /\ again.state = row.state /\ again.background = me.background
      /\ again.events = me.events /\ again.grew = me.grew /\ again.task = me.task
  BY <1>3 DEF WorkerRecord
<1> HIDE DEF again, me
<1>6. InStep(again, row) /\ LogInv(again, row)
  BY <1>1, <1>4, <1>5 DEF InStep, LogInv, Posted, Holds, CallPoints
<1> QED BY <1>1, <1>2, <1>5, <1>6, Bystander DEF me

\* The row is created: nothing has been said or asked.
LEMMA CreateTogether ==
  ASSUME ShellInv, NEW w \in Worker, Create(w), Together(worker[w]), LandedInv, NEW next, Goes(w, next)
  PROVE  Together(next)' /\ LandedInv'
<1>1. PICK p \in Plans :
        /\ row' = [state |-> initial_state(p), transcript |-> <<>>]
        /\ Goes(w, [Idle EXCEPT !.pc = "apply", !.state = initial_state(p),
                                !.events = <<SessionStarted(0)>>])
  BY DEF Create
<1> DEFINE s == initial_state(p)
           events == <<SessionStarted(0)>>
           started == [Idle EXCEPT !.pc = "apply", !.state = s, !.events = events]
<1>2. row = NoRow /\ UNCHANGED <<decisions, deaths, landed>>
  BY DEF Create
<1>3. /\ s \in SessionState /\ s.phase = "created" /\ s.awaiting = "none" /\ s.turn_seq = 0
      /\ \A t \in TurnId : s.assessment_focus[t] = NoNode
  BY InitialState
<1>4. next = started
  <2>1. worker'[w] = next /\ worker'[w] = started
    BY <1>1, OneGoes DEF ShellInv
  <2> QED BY <2>1
<1>5. /\ Len(events) = 1 /\ events[1] = SessionStarted(0) /\ SessionStarted(0).kind # "candidate_turn"
      /\ events # <<>>
  BY DEF SessionStarted
<1> HIDE DEF s, events
<1>6. /\ started.pc = "apply" /\ started.state = s /\ started.events = events
      /\ started.transcript = <<>> /\ ~started.background /\ ~started.grew
  BY DEF Idle
<1>7. row'.state = s /\ row'.transcript = <<>> /\ row' # NoRow
  <2>1. row' = [state |-> s, transcript |-> <<>>]
    BY <1>1 DEF s
  <2>2. row' \in Row
    BY <1>3, <2>1 DEF Row
  <2> QED BY <2>1, <2>2, RowAssumption
<1> HIDE DEF started
<1>8. InStep(next, row') /\ LogInv(next, row')
  <2>1. /\ next.pc = "apply" /\ next.state = row'.state /\ next.events = events
        /\ next.transcript = row'.transcript /\ ~next.background /\ ~next.grew
    BY <1>4, <1>6, <1>7
  <2>2. events[1].kind # "candidate_turn" /\ Len(events) <= 1
    BY <1>5
  <2>3. InStep(next, row')
    BY <2>1, <2>2 DEF InStep, Holds, CallPoints
  <2>4. LogInv(next, row')
    BY <2>1, <2>2 DEF LogInv, Posted, CallPoints
  <2> QED BY <2>3, <2>4
<1>9. DecisionInv(next)'
  <2>1. ~Ended /\ ~Ended' /\ DecisionInv(worker[w])
    BY <1>2, <1>3, <1>7 DEF Ended, TerminalPhases, Together
  <2>2. decisions = <<>> /\ deaths \in Nat
    BY <2>1 DEF DecisionInv
  <2> QED BY <1>2, <1>4, <1>6, <2>1, <2>2 DEF DecisionInv
<1>10. DialogInv(next)'
  <2>1. Ordered(<<>>) /\ \A n : SaidBefore(<<>>, n)
    BY LineCount DEF Ordered, SaidBefore
  <2> QED BY <1>3, <1>4, <1>6, <1>7, <2>1 DEF DialogInv
<1>11. LandedInv'
  BY <1>2, <1>3, <1>7 DEF LandedInv
<1> QED BY <1>8, <1>9, <1>10, <1>11 DEF Together

\* A worker dies: the row stays.
LEMMA DieTogether ==
  ASSUME ShellInv, NEW w \in Worker, Die(w), Together(worker[w]), LandedInv, NEW next, Goes(w, next)
  PROVE  Together(next)' /\ LandedInv'
<1>1. Goes(w, Idle) /\ deaths' = deaths + 1 /\ UNCHANGED <<row, decisions, landed>>
  BY DEF Die
<1>2. next = Idle
  <2>1. worker'[w] = next /\ worker'[w] = Idle
    BY <1>1, OneGoes DEF ShellInv
  <2> QED BY <2>1
<1>3. /\ Idle.pc = "idle" /\ Idle.events = <<>> /\ ~Idle.background /\ ~Idle.grew /\ Len(<<>>) = 0
  BY DEF Idle
<1>4. DecisionInv(worker[w]) /\ DialogInv(worker[w])
  BY DEF Together
<1>5. deaths \in Nat /\ deaths' \in Nat /\ deaths' # 0
  <2>1. deaths \in Nat
    BY <1>4 DEF DecisionInv
  <2> QED BY <1>1, <2>1
<1>6. InStep(Idle, row) /\ LogInv(Idle, row)
  BY <1>3 DEF InStep, LogInv, Posted, Holds, CallPoints
<1>7. DecisionInv(Idle)'
  BY <1>1, <1>3, <1>4, <1>5, Zenon DEF DecisionInv, Ended
<1>8. DialogInv(Idle)'
  BY <1>1, <1>3, <1>4, <1>5, Zenon DEF DialogInv
<1>9. LandedInv'
  BY <1>1, Zenon DEF LandedInv
<1>10. Together(Idle)'
  BY <1>1, <1>6, <1>7, <1>8 DEF Together
<1> QED BY <1>2, <1>9, <1>10

\* Every step of the one worker.
LEMMA NextQuiet == OneWorker /\ ShellInv /\ QuietInv /\ [Next]_vars => QuietInv'
<1> SUFFICES ASSUME OneWorker, ShellInv, QuietInv, [Next]_vars PROVE QuietInv'
  OBVIOUS
<1>1. CASE UNCHANGED vars
  <2>1. \A w \in Worker : Together(worker[w])' = Together(worker[w])
    BY <1>1, Zenon DEF vars, Together, DecisionInv, DialogInv, Ended
  <2>2. LandedInv'
    BY <1>1, Zenon DEF vars, QuietInv, LandedInv
  <2> QED BY <2>1, <2>2, Zenon DEF QuietInv
<1>2. CASE Next
  <2>1. PICK w \in Worker : Create(w) \/ PostTurn(w) \/ Runs(w) \/ Die(w)
    BY <1>2 DEF Next
  <2>2. Worker = {w}
    BY DEF OneWorker
  <2>3. LandedInv /\ Together(worker[w])
    BY DEF QuietInv
  <2>4. PICK next : Goes(w, next)
    <3>1. Calling(w) => \E next : Goes(w, next)
      BY CallSteps
    <3> QED BY <2>1, <3>1, Zenon DEF Create, PostTurn, Runs, Die, ReadLog, Apply, RecordedDecision, Save,
                                     Calling, Reload
  <2>5. Together(next)' /\ LandedInv'
    <3>1. CASE Create(w)
      BY <2>3, <2>4, <3>1, CreateTogether
    <3>2. CASE PostTurn(w)
      BY <2>3, <2>4, <3>2, PostTogether
    <3>3. CASE ReadLog(w)
      BY <2>3, <2>4, <3>3, ReadTogether
    <3>4. CASE Apply(w)
      BY <2>3, <2>4, <3>4, ApplyTogether, ApplyLands
    <3>5. CASE RecordedDecision(w)
      <4>1. LandedInv'
        BY <2>3, <3>5, Zenon DEF RecordedDecision, LandedInv
      <4> QED BY <2>3, <2>4, <3>5, <4>1, RecordedTogether
    <3>6. CASE Save(w)
      BY <2>3, <2>4, <3>6, SaveTogether
    <3>7. CASE Calling(w)
      BY <2>3, <2>4, <3>7, CallTogether
    <3>8. CASE Reload(w)
      BY <2>3, <2>4, <3>8, ReloadTogether
    <3>9. CASE Die(w)
      BY <2>3, <2>4, <3>9, DieTogether
    <3> QED BY <2>1, <3>1, <3>2, <3>3, <3>4, <3>5, <3>6, <3>7, <3>8, <3>9 DEF Runs, Calling
  <2>6. worker'[w] = next
    BY <2>4, OneGoes DEF ShellInv
  <2>7. Together(worker[w])'
    BY <2>5, <2>6, Zenon DEF Together, DecisionInv, DialogInv
  <2> QED BY <2>2, <2>5, <2>7 DEF QuietInv
<1> QED BY <1>1, <1>2

\* One worker is in touch with its row: the inductive invariant of the theorems
\* below, next to the shell's.
THEOREM QuietInvariance == OneWorker => (Spec => []QuietInv)
<1>1. Init => QuietInv
  <2> SUFFICES ASSUME Init PROVE QuietInv
    OBVIOUS
  <2>1. /\ row = NoRow /\ worker = [w \in Worker |-> Idle] /\ decisions = <<>> /\ deaths = 0
        /\ landed = {}
    BY DEF Init
  <2>2. \A w \in Worker : worker[w] = Idle
    BY <2>1
  <2>3. /\ Idle.pc = "idle" /\ Idle.events = <<>> /\ ~Idle.background /\ ~Idle.grew /\ Len(<<>>) = 0
    BY DEF Idle
  <2>4. InStep(Idle, row) /\ LogInv(Idle, row)
    BY <2>3 DEF InStep, LogInv, Posted, Holds, CallPoints
  <2>5. DecisionInv(Idle) /\ DialogInv(Idle)
    BY <2>1, <2>3 DEF DecisionInv, DialogInv, Ended
  <2>6. LandedInv
    BY <2>1 DEF LandedInv
  <2> QED BY <2>2, <2>4, <2>5, <2>6 DEF QuietInv, Together
<1> SUFFICES ASSUME OneWorker PROVE Spec => []QuietInv
  OBVIOUS
<1>2. ShellInv /\ QuietInv /\ [Next]_vars => QuietInv'
  BY NextQuiet
<1> QED BY <1>1, <1>2, ShellInvariance, PTL DEF Spec

\* RowKeepsWhatWasDone: while one worker runs at a time, the call it makes is the
\* row's pending command, so a resume re-issues it (contract section 9), and an
\* assessment that came back is not pending again (section 6.8).  Two workers
\* would overwrite each other's row.
THEOREM WorkIsKept == OneWorker => (Spec => []RowKeepsWhatWasDone)
<1> SUFFICES ASSUME OneWorker PROVE Spec => []RowKeepsWhatWasDone
  OBVIOUS
<1>1. ASSUME ShellInv, QuietInv PROVE RowKeepsWhatWasDone
  <2>1. ASSUME NEW w \in Worker, worker[w].pc \in {"guard", "call", "answer"}, ~worker[w].background
        PROVE  row.state.pending_command = worker[w].call
    BY <1>1, <2>1 DEF QuietInv, Together, InStep, Holds, CallPoints
  <2>2. \A t \in landed : row.state.assessment_focus[t] = NoNode
    BY <1>1 DEF QuietInv, LandedInv
  <2> QED BY <2>1, <2>2 DEF RowKeepsWhatWasDone, WriteAhead, LandedIsNotPending
<1>2. Spec => []QuietInv
  BY QuietInvariance
<1> QED BY <1>1, <1>2, ShellInvariance, PTL

\* DecisionMatchesRow: one decision at most, only for a session that is over,
\* and for each that is unless its worker died before it was recorded.
THEOREM DecisionAgrees == OneWorker => (Spec => []DecisionMatchesRow)
<1> SUFFICES ASSUME OneWorker PROVE Spec => []DecisionMatchesRow
  OBVIOUS
<1>1. ASSUME QuietInv PROVE DecisionMatchesRow
  <2>1. PICK w \in Worker : DecisionInv(worker[w])
    BY <1>1 DEF OneWorker, QuietInv, Together
  <2>2. Len(decisions) <= 1
    <3> DEFINE x == decisions[1]
    <3>1. decisions = <<>> \/ decisions = <<x>>
      BY <2>1 DEF DecisionInv
    <3> HIDE DEF x
    <3>2. CASE decisions = <<>>
      BY <3>2
    <3>3. CASE decisions = <<x>>
      BY <3>3
    <3> QED BY <3>1, <3>2, <3>3
  <2>3. Ended /\ ~Busy /\ deaths = 0 => decisions # <<>>
    BY <2>1 DEF DecisionInv, Busy
  <2> QED BY <2>1, <2>2, <2>3 DEF DecisionInv, DecisionMatchesRow
<1>2. Spec => []QuietInv
  BY QuietInvariance
<1> QED BY <1>1, <1>2, PTL

\* TranscriptIsTheDialog: the transcript one worker at a time writes numbers the
\* candidate's turns without gaps, has each utterance once and in order, and at
\* rest ends its utterances with the one the candidate is to answer.
THEOREM TranscriptReadsWell == OneWorker => (Spec => []TranscriptIsTheDialog)
<1> SUFFICES ASSUME OneWorker PROVE Spec => []TranscriptIsTheDialog
  OBVIOUS
<1>1. ASSUME ShellInv, QuietInv PROVE TranscriptIsTheDialog
  <2> SUFFICES ASSUME row # NoRow PROVE TranscriptIsTheDialog
    BY DEF TranscriptIsTheDialog
  <2> DEFINE log == row.transcript
             said == LinesOf(log, "interviewer")
             s == row.state
             p == s.pending_command
  <2>1. PICK w \in Worker : /\ Worker = {w} /\ InStep(worker[w], row) /\ DialogInv(worker[w])
                            /\ LogInv(worker[w], row)
    BY <1>1 DEF OneWorker, QuietInv, Together
  <2>2. /\ Ordered(log) /\ SaidBefore(log, s.turn_seq)
        /\ deaths = 0 /\ s.awaiting = "candidate" =>
             \/ worker[w].pc = "save"
             \/ \E i \in said : log[i].turn_id = p.turn_id
    BY <2>1 DEF DialogInv
  <2>3. Coherent(s) /\ row \in Row
    BY <1>1 DEF ShellInv, RowInv
  <2>4. ~Serving => worker[w].pc # "save"
    BY <2>1 DEF Serving, InStep
  <2>5. ASSUME ~Serving, deaths = 0, s.awaiting = "candidate"
        PROVE  \E i \in said : /\ log[i].turn_id = p.turn_id
                               /\ \A j \in said : j <= i
    <3>1. PICK i \in said : log[i].turn_id = p.turn_id
      BY <2>2, <2>4, <2>5
    <3>2. p.turn_id = s.turn_seq - 1 /\ s.turn_seq \in Nat
      BY <2>3, <2>5 DEF Coherent, TurnTakingIn, SessionState
    <3>3. ASSUME NEW j \in said PROVE j <= i
      <4>1. log \in Seq(TranscriptLine) /\ i \in DOMAIN log /\ j \in DOMAIN log
        BY <2>3 DEF Row, LinesOf
      <4>2. i \in Nat /\ j \in Nat /\ log[j] \in TranscriptLine
        BY <4>1
      <4>3. log[j].turn_id \in Int /\ log[j].turn_id < s.turn_seq
        BY <2>2, <4>2 DEF TranscriptLine, SaidBefore
      <4>4. i < j => log[i].turn_id < log[j].turn_id
        BY <2>2 DEF Ordered
      <4> HIDE DEF log, said, s, p
      <4> QED BY <3>1, <3>2, <4>2, <4>3, <4>4
    <3> QED BY <3>1, <3>3
  <2> QED BY <2>2, <2>5 DEF TranscriptIsTheDialog, Ordered
<1>2. Spec => []QuietInv
  BY QuietInvariance
<1> QED BY <1>1, <1>2, ShellInvariance, PTL

\* EndedRowStays: while one worker runs at a time a session that is over in the
\* row stays over (edge 20).
THEOREM EndedStays == OneWorker => (Spec => EndedRowStays)
<1> SUFFICES ASSUME OneWorker PROVE Spec => EndedRowStays
  OBVIOUS
<1>1. ASSUME ShellInv, QuietInv, [Next]_vars PROVE [Ended => row'.state = row.state]_vars
  <2> SUFFICES ASSUME Next, Ended, row' # row PROVE row'.state = row.state
    BY <1>1, Zenon DEF vars
  <2>1. PICK w \in Worker : Create(w) \/ PostTurn(w) \/ Runs(w) \/ Die(w)
    BY DEF Next
  <2>2. Together(worker[w])
    BY <1>1 DEF QuietInv
  <2>3. Apply(w) \/ Save(w)
    <3>1. Calling(w) => row' = row
      BY CallSteps
    <3>2. ~Create(w)
      BY DEF Create, Ended
    <3> QED BY <2>1, <3>1, <3>2, Zenon DEF PostTurn, Runs, Die, ReadLog, RecordedDecision, Calling, Reload
  <2>4. CASE Apply(w)
    <3> DEFINE e == Head(worker[w].events)
               r == transition(row.state, e)
    <3>1. Coherent(row.state) /\ e \in SessionEvent
          /\ row' = [state |-> r.new_state, transcript |-> worker[w].transcript]
      BY <1>1, <2>2, <2>4, ApplyFacts
    <3>2. r.new_state = row.state
      BY <3>1, EndStep DEF Ended
    <3> QED BY <3>1, <3>2
  <2>5. CASE Save(w)
    BY <2>2, <2>5 DEF Save, Together, InStep, Holds
  <2> QED BY <2>3, <2>4, <2>5
<1>2. Spec => []QuietInv
  BY QuietInvariance
<1> QED BY <1>1, <1>2, ShellInvariance, PTL DEF Spec, EndedRowStays
=============================================================================
